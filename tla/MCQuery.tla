------------------------------- MODULE MCQuery -------------------------------
(* Integers of 8 bits, reals of 3, and the byte strings that render and      *)
(* resemble them: 128 is what 2^63 is to int64.                             *)
EXTENDS Select, Numerals, Expr

\* In byte order.
Strings == <<
  <<>>, <<"-", "1">>, <<"-", "1", ".", "0">>, <<"-", "1", "2", "8">>, <<"-", "1", "2", "8", ".", "0">>,
  <<"1">>, <<"1", ".", "0">>, <<"1", ".", "5">>, <<"1", "2", "7">>, <<"1", "2", "8">>,
  <<"1", "2", "8", ".", "0">>, <<"1", "2", "x">>, <<"8">>, <<"8", ".", "0">>, <<"9">>,
  <<"I", "n", "f">>, <<"N", "U", "L", "L">>>>
MCBytes == 0..(Len(Strings) - 1)
Str(s) == CHOOSE b \in MCBytes : Strings[b + 1] = s
MCNullText == Str(<<"N", "U", "L", "L">>)

\* What they are as numbers, written out for TLC and compared with the code.
MCInts == <<0, -1, -1, -128, -128, 1, 1, 1, 127, 127, 127, 12, 8, 8, 9, 0, 0>>
MCIntStatus == <<-1, 0, 1, 0, 1, 0, 1, 1, 0, 3, 3, 1, 0, 1, 0, -1, -1>>
MCReals == <<0, -2, -2, -256, -256, 2, 2, 3, 256, 256, 256, 0, 16, 16, 16, 0, 0>>
MCStatus == <<0, 1, 2, 1, 2, 1, 2, 2, 1, 1, 2, 0, 1, 2, 1, 0, 0>>
MCLeadingNumber(b) == [status |-> MCStatus[b + 1], real |-> MCReals[b + 1]]
MCLeadingInt(b) == [status |-> MCIntStatus[b + 1], int |-> MCInts[b + 1]]
ASSUME TablesAssumption == \A b \in MCBytes :
  /\ MCLeadingNumber(b) = ParseLeadingNumber(Strings[b + 1])
  /\ MCLeadingInt(b) = ParseLeadingInt(Strings[b + 1])

Whole(v) == IF v.kind = "Int" THEN v.n ELSE Quotient(v.n, 2)
Places(v) == IF v.kind = "Int" THEN <<>> ELSE <<".", IF v.n % 2 = 0 THEN "0" ELSE "5">>
MCShown(v) == Str(IF v = FloatV(Infinity) THEN <<"I", "n", "f">> ELSE FormatInt(Whole(v)) \o Places(v))

MCLiteral == {NullV} \union {IntV(i) : i \in {-128, -1, 1, 9, 127}}
  \union {FloatV(r) : r \in {-256, 2, 3, 16, 256, Infinity}}
  \union {TextV(Str(s)) : s \in {<<>>, <<"1">>, <<"1", "2", "x">>, <<"1", "2", "8">>}}
  \union {TextV(MCNullText), BlobV(Str(<<"1">>))}
MCSample == {NullV, IntV(1), FloatV(2), FloatV(3), TextV(Str(<<"1">>)), BlobV(Str(<<"1">>))}

MCAtom == {"a", "b", "1", "9", "'1'", "NULL"}
MCPrinted == [c \in MCAtom \ {"a", "b"} |-> c]
MCConstant == [c \in MCAtom \ {"a", "b"} |->
  CASE c = "1" -> IntV(1) [] c = "9" -> IntV(9) [] c = "'1'" -> TextV(Str(<<"1">>)) [] c = "NULL" -> NullV]

Conditions == {
  [is |-> <<"a", "=", "b">>, not |-> <<"a", "<>", "b">>],
  [is |-> <<"a", "<", "9">>, not |-> <<"a", ">=", "9">>],
  [is |-> <<"b", "IS", "a">>, not |-> <<"b", "IS", "NOT", "a">>],
  [is |-> <<"a", "IN", "(", "1", ",", "b", ",", "NULL", ")">>,
   not |-> <<"a", "NOT", "IN", "(", "1", ",", "b", ",", "NULL", ")">>],
  [is |-> <<"b", "BETWEEN", "'1'", "AND", "a">>, not |-> <<"b", "NOT", "BETWEEN", "'1'", "AND", "a">>],
  [is |-> <<"CAST", "(", "a", "AS", "INTEGER", ")", ">", "b">>,
   not |-> <<"CAST", "(", "a", "AS", "INTEGER", ")", "<=", "b">>],
  [is |-> <<"-", "a", "=", "-", "1", "OR", "b", "IS", "NULL">>,
   not |-> <<"-", "a", "!=", "-", "1", "AND", "b", "IS", "NOT", "NULL">>]}
MCCondition == {Parse(c.is) : c \in Conditions}
MCOpposite == [e \in MCCondition |-> Parse((CHOOSE c \in Conditions : Parse(c.is) = e).not)]

MCArgument == {Parse(ts) : ts \in {<<"a">>, <<"a", "+", "b">>, <<"CAST", "(", "b", "AS", "TEXT", ")">>}}
MCGroupList == {<<Leaf("a")>>, <<Leaf("b"), Leaf("a")>>}
MCSummary == {Parse(ts) : ts \in {
  <<"SUM", "(", "a", ")", "-", "COUNT", "(", "b", ")">>,
  <<"AVG", "(", "b", ")", ">", "MIN", "(", "a", ")">>,
  <<"COUNT", "(", "DISTINCT", "b", ")", "=", "COUNT", "(", "*", ")">>}}
=============================================================================
