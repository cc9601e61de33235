--------------------------------- MODULE Texts -------------------------------
(***************************************************************************)
(* A text that is written piece by piece in one of the languages the        *)
(* program reads: numerals, LIKE and GLOB patterns, expressions, scripts of *)
(* statements, sqllogictest files.  Every text within the bounds is reached, *)
(* and what the program makes of it is compared with what the language says: *)
(* of numerals, patterns and scripts here, of the others in module Grammars. *)
(***************************************************************************)
EXTENDS Numerals, Pattern, Statements

CONSTANTS
  Seed,      \* language -> the texts to start from
  Piece,     \* language -> what may be written before and after a text
  MaxPieces, \* bound: language -> how often
  Subject    \* strings that patterns are compared with

VARIABLES language, text, pieces

textVars == <<language, text, pieces>>

Language == {"numeral", "like", "glob", "expression", "statements", "file"}

\* Texts are sequences of characters, tokens or lines.
Symbol == STRING \ {None}
ASSUME TextAssumption == /\ \A l \in Language : /\ Seed[l] \subseteq Seq(Symbol)
                                                 /\ Piece[l] \subseteq Seq(Symbol) \X Seq(Symbol)
                         /\ Subject \subseteq Seq(Symbol)

\* What the program makes of the texts that are values; only integers are printed.
ShownInt(v) == FormatInt(v.n)
V == INSTANCE Values WITH LeadingNumber <- ParseLeadingNumber, LeadingInt <- ParseLeadingInt,
                          Shown <- ShownInt

Init == /\ language \in Language
        /\ text \in Seed[language]
        /\ pieces = 0

\* At the end, or around what is there.
Write == /\ pieces < MaxPieces[language]
         /\ \E p \in Piece[language] : text' = p[1] \o text \o p[2]
         /\ pieces' = pieces + 1
         /\ UNCHANGED language

Next == Write

Spec == Init /\ [][Next]_textVars

-----------------------------------------------------------------------------
(* Numeric affinity makes a number of exactly the texts that are numerals,   *)
(* an integer of an integer that fits, the nearest real of one that does    *)
(* not, and of any other a real with no more than one between it and the    *)
(* nearest, unless it has more digits than are looked at: the powers of ten *)
(* are rounded, so that the text 0.3 is not the literal 0.3.                 *)
ManyDigits == 10 * ((2^Bits - 10) \div 10)
NumeralsKeepTheirWorth ==
  language = "numeral" =>
    LET r == Reading(text)
        v == V!NumericAffinity(V!TextV(text), TRUE)
    IN  /\ V!IsNumber(v) <=> IsNumeral(r)
        /\ IsNumeral(r) /\ r.integer => (v.kind = "Int" <=> Said(r) \in Int64)
        /\ v.kind = "Int" /\ r.integer => v.n = Said(r)
        /\ V!IsNumber(v) /\ Decimal(r.digits) < ManyDigits =>
             LET is   == V!RealValueOf(v)
                 said == SaidRounded(r)
             IN  /\ r.integer => is = said
                 /\ Sign(is) = Sign(said)
                 /\ Cardinality({q \in Float64 : (is < q /\ q < said) \/ (said < q /\ q < is)}) <= 1

(* CAST AS INTEGER takes the integer that a text starts with, or the        *)
(* nearest that fits, and a printed integer reads back as itself.           *)
IntegersReadBack ==
  language = "numeral" =>
    LET whole == {n \in 1..Len(text) : Reading(SubSeq(text, 1, n)).at = "whole"}
        said  == IF whole = {} THEN 0
                 ELSE Said(Reading(SubSeq(text, 1, CHOOSE n \in whole : \A m \in whole : m <= n)))
        i     == V!CastValue(V!TextV(text), "INTEGER").n
    IN  /\ i = IF said < MinInt THEN MinInt ELSE IF said > MaxInt THEN MaxInt ELSE said
        /\ ParseLeadingInt(FormatInt(i)) = [int |-> i, status |-> 0]

(* LIKE, and GLOB without classes, find what the pattern means.  An escaped  *)
(* character right behind a % is left out: it is compared as if it were not *)
(* escaped.                                                                 *)
EscapeAfterAll == \E k \in 1..(Len(text) - 1) : text[k] \in {"%", "_"} /\ text[k + 1] = "\\"
PatternsMatch ==
  /\ language = "like" =>
       \A escape \in {None} \union {"\\"} : escape = None \/ ~EscapeAfterAll =>
         \A s \in Subject : PatternCompare(Like(escape), text, s) <=> Means(Like(escape), text, s)
  /\ language = "glob" /\ "[" \notin Range(text) =>
       \A s \in Subject : PatternCompare(Glob, text, s) <=> Means(Glob, text, s)


(* cmd/sqldb cuts a script at the semicolons that are tokens, wherever       *)
(* strings and blobs begin and end.                                         *)
ScriptsAreCutAtTokens == language = "statements" => SplitsAtTokens(text)
=============================================================================
