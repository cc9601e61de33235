--------------------------------- MODULE Expr --------------------------------
(***************************************************************************)
(* The grammar of expressions (parseExpr and below, internal/engine/expr.go) *)
(* and the text that is stored for them (exprRender, parser.go), which is    *)
(* read back by parseExpr in a CHECK and by parseDefaultValue in a DEFAULT.  *)
(* Tokens are strings; an expression is a tree of an operator and its        *)
(* operands.  A literal is named by one token, whichever way it was written. *)
(***************************************************************************)
EXTENDS Integers, SequencesExt, Trees

CONSTANTS
  Atom,   \* tokens that are a literal or the name of a column
  Printed \* literal -> what RenderCLI makes of it: of a real, 15 digits

ASSUME PrintedAssumption == /\ DOMAIN Printed \subseteq Atom
                            /\ \A c \in DOMAIN Printed : Printed[c] \in DOMAIN Printed

\* Integer literals over int64, which are reals.
BigInt == {"2^63", "2^64"}

\* In the place of an operand these words name columns, as any other would.
Keyword == {"AND", "OR", "NOT", "IS", "IN", "BETWEEN", "LIKE", "GLOB", "ESCAPE", "AS"}

\* What a parsing function leaves: a tree and the tokens after it.
Parsed(tree, rest) == [tree |-> tree, rest |-> rest]
Refused == Parsed(Leaf("refused"), <<"refused">>)
Starts(ts, tokens) == Len(ts) >= Len(tokens) /\ SubSeq(ts, 1, Len(tokens)) = tokens
After(ts, n) == SubSeq(ts, n + 1, Len(ts))
Expect(token, r) == IF Starts(r.rest, <<token>>) THEN Parsed(r.tree, Tail(r.rest)) ELSE Refused

(* The levels of parseOr, parseAnd, parseNot, parseComparison,              *)
(* parseAdditive, parseMultiplicative, parseUnary, parsePrimary.            *)
Loosest == 1
NotLevel == 3
Comparison == 4
Additive == 5
UnaryLevel == 7
Operators_Slip == [k \in {1, 2, 5, 6} |-> CASE k \in {1, 2} -> {"AND", "OR"}
                                            [] k = 5 -> {"+", "-"} [] k = 6 -> {"*", "/", "%"}]
Operators == [k \in {1, 2, 5, 6} |-> CASE k = 1 -> {"OR"} [] k = 2 -> {"AND"}
                                       [] k = 5 -> {"+", "-"} [] k = 6 -> {"*", "/", "%"}]

\* 2^63, which is a real, negates to the smallest integer.
Negated(e) == IF e = Leaf("2^63") THEN Leaf("MinInt64") ELSE Tree("neg", <<e>>)

RECURSIVE ParseLevel(_, _)
RECURSIVE Continue(_, _)
RECURSIVE ParseList(_)

\* parsePrimary
ParsePrimary(ts) ==
  IF ts = <<>> THEN Refused
  ELSE CASE ts[1] \in {"TRUE", "FALSE"} -> Parsed(Leaf(IF ts[1] = "TRUE" THEN "1" ELSE "0"), Tail(ts))
         [] ts[1] \in Atom \union Keyword -> Parsed(Leaf(ts[1]), Tail(ts))
         [] ts[1] = "(" -> Expect(")", ParseLevel(Loosest, Tail(ts)))
         [] ts[1] = "CAST" ->  \* to the affinity of the type
              LET r == IF Starts(ts, <<"CAST", "(">>)
                         THEN Expect("AS", ParseLevel(Loosest, After(ts, 2))) ELSE Refused
              IN  IF r.rest = <<>> \/ r = Refused \/ Head(r.rest) = ")" THEN Refused
                  ELSE Expect(")", Parsed(Tree("CAST " \o Head(r.rest), <<r.tree>>), Tail(r.rest)))
         [] ts[1] \in Aggregate ->
              IF Starts(Tail(ts), <<"(", "*", ")">>) /\ ts[1] = "COUNT"
                THEN Parsed(Tree("COUNT", <<>>), After(ts, 4))
              ELSE IF ~Starts(Tail(ts), <<"(">>) THEN Refused
              ELSE LET word == IF Len(ts) > 2 THEN ts[3] ELSE ""
                       r == ParseLevel(Loosest, After(ts, IF word \in {"ALL", "DISTINCT"} THEN 3 ELSE 2))
                       func == IF word = "DISTINCT" THEN ts[1] \o " DISTINCT" ELSE ts[1]
                   IN  Expect(")", Parsed(Tree(func, <<r.tree>>), r.rest))
         [] OTHER -> Refused

\* parseUnary; unary plus leaves nothing behind.
ParseUnary(ts) ==
  CASE Starts(ts, <<"-">>) -> LET r == ParseLevel(UnaryLevel, Tail(ts))
                              IN  Parsed(Negated(r.tree), r.rest)
    [] Starts(ts, <<"+">>) -> ParseLevel(UnaryLevel, Tail(ts))
    [] OTHER -> ParsePrimary(ts)

\* parseInList, after its opening parenthesis: the items as one tree.
ParseList(ts) ==
  LET item == ParseLevel(Loosest, ts)
      more == ParseList(Tail(item.rest))
  IN  CASE Starts(item.rest, <<",">>) -> Parsed(Tree("list", <<item.tree>> \o more.tree.args), more.rest)
        [] OTHER -> Expect(")", Parsed(Tree("list", <<item.tree>>), item.rest))

\* One round of parseComparison: op stands where it ends, n tokens long.
Comparand(left, op, n, rest) ==
  LET right == ParseLevel(Additive, After(rest, n))
      low   == Expect("AND", right)
      high  == ParseLevel(Additive, low.rest)
      list  == IF Starts(After(rest, n), <<"(">>) THEN ParseList(After(rest, n + 1)) ELSE Refused
      escape == ParseLevel(Additive, Tail(right.rest))
  IN  CASE op \in {"IN", "NOT IN"} -> Parsed(Tree(op, <<left>> \o list.tree.args), list.rest)
        [] op \in {"BETWEEN", "NOT BETWEEN"} ->
             Parsed(Tree(op, <<left, right.tree, high.tree>>), high.rest)
        [] op \in {"LIKE", "NOT LIKE", "GLOB", "NOT GLOB"} /\ Starts(right.rest, <<"ESCAPE">>) ->
             Parsed(Tree(op, <<left, right.tree, escape.tree>>), escape.rest)
        [] OTHER -> Parsed(Tree(op, <<left, right.tree>>), right.rest)

\* The loops of parseOr, parseAnd, parseComparison, parseAdditive, parseMultiplicative.
Continue(k, r) ==
  LET first == IF r.rest = <<>> THEN "" ELSE Head(r.rest)
      both  == IF Len(r.rest) < 2 THEN "" ELSE first \o " " \o r.rest[2]
      right == ParseLevel(k + 1, Tail(r.rest))
  IN  IF k # Comparison
        THEN IF first \in Operators[k]
               THEN Continue(k, Parsed(Tree(first, <<r.tree, right.tree>>), right.rest)) ELSE r
      ELSE IF both \in {"IS NOT", "NOT IN", "NOT BETWEEN", "NOT LIKE", "NOT GLOB"}
        THEN Continue(k, Comparand(r.tree, both, 2, r.rest))
      ELSE IF first \in CompareOp \union {"IS", "IN", "BETWEEN", "LIKE", "GLOB"}
        THEN Continue(k, Comparand(r.tree, first, 1, r.rest))
      ELSE IF first = "NOT" THEN Refused ELSE r

ParseLevel(k, ts) ==
  IF k = UnaryLevel THEN ParseUnary(ts)
  ELSE IF k # NotLevel THEN Continue(k, ParseLevel(k + 1, ts))
  ELSE IF Starts(ts, <<"NOT">>)
    THEN LET r == ParseLevel(NotLevel, Tail(ts)) IN Parsed(Tree("NOT", <<r.tree>>), r.rest)
    ELSE ParseLevel(Comparison, ts)

\* A whole expression, as it stands in a CHECK.
Complete(r) == IF r.rest = <<>> THEN r.tree ELSE Refused.tree
Parse(ts) == Complete(ParseLevel(Loosest, ts))

\* parseDefaultValue: a literal, or an expression in parentheses.
ParseDefault_Slip(ts) ==
  CASE Starts(ts, <<"(">>) -> Complete(Expect(")", ParseLevel(Comparison, Tail(ts))))
    [] Len(ts) = 1 /\ ts[1] \in DOMAIN Printed \ BigInt -> Leaf(ts[1])
    [] OTHER -> Refused.tree
ParseDefault(ts) ==
  CASE Starts(ts, <<"(">>) -> Complete(Expect(")", ParseLevel(Loosest, Tail(ts))))
    [] Len(ts) = 1 /\ ts[1] \in DOMAIN Printed \ BigInt -> Leaf(ts[1])
    [] OTHER -> Refused.tree

-----------------------------------------------------------------------------
\* exprRender.  A type that is neither of the four is left out.
Words_Slip(op) == CASE op = "IS NOT" -> <<"IS", "NOT">> [] op = "NOT IN" -> <<"NOT", "IN">>
                    [] op = "NOT BETWEEN" -> <<"BETWEEN">> [] op = "NOT LIKE" -> <<"NOT", "LIKE">>
                    [] op = "NOT GLOB" -> <<"NOT", "GLOB">> [] OTHER -> <<op>>
Words(op) == CASE op = "IS NOT" -> <<"IS", "NOT">> [] op = "NOT IN" -> <<"NOT", "IN">>
               [] op = "NOT BETWEEN" -> <<"NOT", "BETWEEN">> [] op = "NOT LIKE" -> <<"NOT", "LIKE">>
               [] op = "NOT GLOB" -> <<"NOT", "GLOB">> [] OTHER -> <<op>>
Enclosed(ts) == <<"(">> \o ts \o <<")">>
Listed(texts) == FoldLeft(LAMBDA ts, t : ts \o <<",">> \o t, Head(texts), Tail(texts))

RECURSIVE Render(_)
Render(e) ==
  LET r(k) == Render(e.args[k])
      n == Len(e.args)
  IN  IF n = 0 THEN CASE e.op = "MinInt64" -> <<"-", "2^63">>
                      [] e.op = "COUNT" -> <<"COUNT", "(", "*", ")">>
                      [] e.op \in DOMAIN Printed -> <<Printed[e.op]>>
                      [] OTHER -> <<e.op>>
      ELSE CASE e.op = "neg" -> <<"-">> \o Enclosed(r(1))
        [] e.op = "NOT" -> <<"NOT">> \o Enclosed(r(1))
        [] e.op \in Casts ->
             <<"CAST">> \o Enclosed(r(1) \o <<"AS">> \o
               (IF e.op = "CAST NUMERIC" THEN <<>> ELSE <<CastType(e.op)>>))
        [] e.op \in Aggregate -> <<e.op>> \o Enclosed(r(1))
        [] e.op \in DOMAIN Distinct -> <<Distinct[e.op]>> \o Enclosed(<<"DISTINCT">> \o r(1))
        [] e.op \in {"IN", "NOT IN"} ->
             Enclosed(r(1) \o Words(e.op) \o Enclosed(Listed([k \in 1..(n - 1) |-> r(k + 1)])))
        [] e.op \in {"BETWEEN", "NOT BETWEEN"} ->
             Enclosed(r(1) \o Words(e.op) \o r(2) \o <<"AND">> \o r(3))
        [] OTHER -> Enclosed(r(1) \o Words(e.op) \o r(2) \o
                             (IF n = 3 THEN <<"ESCAPE">> \o r(3) ELSE <<>>))

-----------------------------------------------------------------------------
(* "SQLite's operator precedence (lowest to highest): OR, AND, NOT,         *)
(* comparison, additive, multiplicative, unary, primary" (expr.go), and     *)
(* binary operators group to the left: an expression with no parentheses    *)
(* but those that this needs.                                               *)
Precedence(e) ==
  IF e = Leaf("MinInt64") \/ e.op = "neg" THEN 7
  ELSE IF e.args = <<>> \/ e.op \in Aggregate \union DOMAIN Distinct \union Casts THEN 8
  ELSE CASE e.op = "OR" -> 1 [] e.op = "AND" -> 2 [] e.op = "NOT" -> 3
         [] e.op \in {"+", "-"} -> 5 [] e.op \in {"*", "/", "%"} -> 6
         [] OTHER -> 4

RECURSIVE Written(_, _)
Written(e, least) ==
  LET level == Precedence(e)
      p(k, l) == Written(e.args[k], l)
      n == Len(e.args)
      ts == CASE n = 0 \/ level = 8 -> CASE e.op \in Casts ->
                                           <<"CAST", "(">> \o p(1, 1) \o <<"AS", CastType(e.op), ")">>
                                        [] n = 1 /\ e.op \in Aggregate -> <<e.op>> \o Enclosed(p(1, 1))
                                        [] n = 1 /\ e.op \in DOMAIN Distinct ->
                                             <<Distinct[e.op], "(", "DISTINCT">> \o p(1, 1) \o <<")">>
                                        [] e = Leaf("COUNT") -> <<"COUNT", "(", "*", ")">>
                                        [] e = Leaf("MinInt64") -> <<"-", "2^63">>
                                        [] OTHER -> <<e.op>>
              [] e.op = "neg" -> <<"-">> \o p(1, 7)
              [] e.op = "NOT" -> <<"NOT">> \o p(1, 3)
              [] e.op \in {"IN", "NOT IN"} ->
                   p(1, 4) \o Words(e.op) \o Enclosed(Listed([k \in 1..(n - 1) |-> p(k + 1, 1)]))
              [] n = 3 /\ e.op \notin {"IN", "NOT IN"} ->
                   p(1, 4) \o Words(e.op) \o p(2, 5) \o
                          <<IF e.op \in {"BETWEEN", "NOT BETWEEN"} THEN "AND" ELSE "ESCAPE">> \o p(3, 5)
              [] OTHER -> p(1, level) \o Words(e.op) \o p(2, level + 1)
  IN  IF level < least THEN Enclosed(ts) ELSE ts

\* No column in it is named by a keyword.
RECURSIVE Plain(_)
Plain(e) == /\ e.args = <<>> => e.op \notin Keyword
            /\ \A k \in DOMAIN e.args : Plain(e.args[k])

(* What exprRender does not render well enough to be parsed again: a literal *)
(* that 15 digits do not hold, CAST AS NUMERIC, NOT as an operand that needs *)
(* parentheses.                                                             *)
Loose(e) == e.op = "NOT" /\ e.args # <<>>
RECURSIVE Fragile(_)
Fragile(e) == \/ e.args = <<>> /\ e.op \in DOMAIN Printed /\ Printed[e.op] # e.op
              \/ e.op = "CAST NUMERIC"
              \/ Precedence(e) \in 4..6 /\ \E k \in DOMAIN e.args :
                   Loose(e.args[k]) /\ ~(e.op \in {"IN", "NOT IN"} /\ k > 1)
              \/ \E k \in DOMAIN e.args : Fragile(e.args[k])

\* Of these exprRender makes a literal, or puts them in parentheses.
Closed(e) == IF e.args = <<>> THEN e.op \in DOMAIN Printed ELSE Precedence(e) \in {1, 2, 4, 5, 6}
=============================================================================
