------------------------------ MODULE Grammars ------------------------------
(***************************************************************************)
(* What the program makes of the texts of module Texts that are expressions  *)
(* and sqllogictest files.                                                  *)
(***************************************************************************)
EXTENDS Texts, Expr, Script

-----------------------------------------------------------------------------
(* The text stored for a CHECK is read back as the same expression, but for  *)
(* exactly the expressions that are Fragile.  That of a DEFAULT (...) is     *)
(* read back by another function, which takes a literal or a parenthesis:    *)
(* as the same expression for exactly those that are not Fragile and have a  *)
(* literal or an operator at their root that is rendered in parentheses.     *)
RenderedIsReparsed ==
  language = "expression" =>
    LET e == Parse(text)
    IN  e.op # "refused" /\ Plain(e) =>
          /\ Parse(Render(e)) = e <=> ~Fragile(e)
          /\ ParseDefault(Render(e)) = e <=> ~Fragile(e) /\ Closed(e)

(* "It must be able to reproduce every node the parser produces ... so the   *)
(* re-parsed expression tree is identical" (exprRender).                    *)
ChecksReadBack ==
  language = "expression" =>
    LET e == Parse(text) IN e.op # "refused" => Parse(Render(e)) = e

(* Operators bind as tightly as their order says and group to the left: an   *)
(* expression written with no more parentheses than that needs is read as   *)
(* itself.                                                                  *)
PrecedenceIsDeclared ==
  language = "expression" =>
    LET e == Parse(text) IN e.op # "refused" /\ Plain(e) => Parse(Written(e, 1)) = e

(* The runner judges every record of a file once and by what it says, and    *)
(* loses none, whatever conditional, ignored and halting lines surround it. *)
FilesAreJudged == language = "file" => JudgedAsSaid(text)
=============================================================================
