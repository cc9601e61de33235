------------------------------- MODULE Values --------------------------------
(***************************************************************************)
(* Storage classes, affinity, arithmetic, comparison and three-valued logic  *)
(* (internal/engine/value.go and the evaluators of expr.go) over the numbers *)
(* of module Numbers.  How a string of bytes is written down, what           *)
(* parseLeadingNumber and parseLeadingInt make of it (module Numerals) and   *)
(* which string renders a number are parameters.                            *)
(***************************************************************************)
EXTENDS Numbers, Sequences, FiniteSets

CONSTANTS
  LeadingNumber(_),  \* bytes -> status and real of parseLeadingNumber
  LeadingInt(_),     \* bytes -> status and int of parseLeadingInt
  Shown(_)           \* number -> the bytes that render it

-----------------------------------------------------------------------------
NullV == [kind |-> "Null", n |-> 0]
IntV(i) == [kind |-> "Int", n |-> i]
FloatV(r) == IF r = NaN THEN NullV ELSE [kind |-> "Float", n |-> r]
TextV(t) == [kind |-> "Text", n |-> t]
BlobV(t) == [kind |-> "Blob", n |-> t]
BoolV(b) == IntV(IF b THEN 1 ELSE 0)
IsNull(v) == v.kind = "Null"
IsNumber(v) == v.kind \in {"Int", "Float"}

\* realToI64 saturates; the limit is the largest real below 2^(Bits-1).
Limit == CHOOSE r \in Float64 : /\ r < One * 2^(Bits - 1)
                                /\ \A q \in Float64 : r < q => q >= One * 2^(Bits - 1)
RealToI64(r) == IF Abs(r) <= Limit THEN Quotient(r, One) ELSE IF r < 0 THEN MinInt ELSE MaxInt

RealSameAsInt(r, i) == \/ r = 0
                       \/ r = ToFloat[i] /\ -(2^(Mantissa - 2)) <= i /\ i < 2^(Mantissa - 2)

\* The integer that a real is, extremes excepted.
ExactInt_Slip(r, i) == r = ToFloat[i]
ExactInt(r, i) == r = ToFloat[i] /\ MinInt < i /\ i < MaxInt

\* applyNumericAffinity
WholeOrReal(number, i, tryInt) ==
  IF \/ number.status = 1 /\ RealSameAsInt(number.real, i)
     \/ tryInt /\ ExactInt(number.real, i) THEN IntV(i) ELSE FloatV(number.real)
NumberRead(v, number, int, tryInt) ==
  IF number.status <= 0 THEN v
  ELSE IF number.status = 1 /\ int.status <= 1 THEN IntV(int.int)
  ELSE WholeOrReal(number, RealToI64(number.real), tryInt)
NumericAffinity(v, tryInt) == NumberRead(v, LeadingNumber(v.n), LeadingInt(v.n), tryInt)

AsText(v) == IF IsNumber(v) THEN TextV(Shown(v)) ELSE v
AsReal_Slip(v) == IF v.kind = "Int" THEN FloatV(One * v.n) ELSE v
AsReal(v) == IF v.kind = "Int" THEN FloatV(ToFloat[v.n]) ELSE v

\* applyAffinity: what a column may store for v.
Affinity == {"INTEGER", "NUMERIC", "REAL", "TEXT", "BLOB", "NONE"}
Numeric(aff) == aff \in {"INTEGER", "NUMERIC", "REAL"}
ApplyAffinity(v, aff) ==
  CASE aff \in {"INTEGER", "NUMERIC"} /\ v.kind = "Float" ->
         {IF ExactInt(v.n, i) THEN IntV(i) ELSE v : i \in Converted(v.n)}
    [] aff \in {"INTEGER", "NUMERIC"} /\ v.kind = "Text" -> {NumericAffinity(v, TRUE)}
    [] aff = "REAL" -> {AsReal(IF v.kind = "Text" THEN NumericAffinity(v, TRUE) ELSE v)}
    [] aff = "TEXT" -> {AsText(v)}
    [] OTHER -> {v}

\* numericTypeOf: the number that arithmetic takes a value for.
NumberTaken(number, int) == IF number.status = 0 \/ (number.status = 1 /\ int.status <= 1)
                              THEN IntV(int.int) ELSE FloatV(number.real)
NumericTypeOf(v) == IF v.kind \in {"Text", "Blob"}
                      THEN NumberTaken(LeadingNumber(v.n), LeadingInt(v.n)) ELSE v

RealValueOf(v) == CASE v.kind = "Int" -> ToFloat[v.n]
                    [] v.kind = "Float" -> v.n
                    [] v.kind \in {"Text", "Blob"} -> LeadingNumber(v.n).real
                    [] OTHER -> 0

IntValueOf(v) == CASE v.kind = "Int" -> v.n
                   [] v.kind = "Float" -> RealToI64(v.n)
                   [] v.kind \in {"Text", "Blob"} -> LeadingInt(v.n).int
                   [] OTHER -> 0

\* castValue, and numerify for NUMERIC.
Numerify(number, int) ==
  IF number.status \in {0, 1} /\ int.status <= 1 THEN IntV(int.int)
  ELSE WholeOrReal([number EXCEPT !.status = 1], RealToI64(number.real), FALSE)
CastValue(v, aff) ==
  IF IsNull(v) THEN v
  ELSE CASE aff = "BLOB" -> IF v.kind = "Text" THEN BlobV(v.n) ELSE v
         [] aff = "INTEGER" -> IntV(IntValueOf(v))
         [] aff = "REAL" -> FloatV(RealValueOf(v))
         [] aff = "TEXT" -> IF v.kind = "Blob" THEN TextV(v.n) ELSE AsText(v)
         [] OTHER -> IF IsNumber(v) THEN v ELSE Numerify(LeadingNumber(v.n), LeadingInt(v.n))

\* booleanValueOf: 2 is unknown.
BooleanValueOf(v) == IF IsNull(v) THEN 2 ELSE IF RealValueOf(v) # 0 THEN 1 ELSE 0

Logic(table, x, y) == <<IntV(0), IntV(1), NullV>>[table[x * 3 + y + 1] + 1]
AndValues_Slip(a, b) == Logic(<<0, 0, 2, 0, 1, 2, 2, 2, 2>>, BooleanValueOf(a), BooleanValueOf(b))
AndValues(a, b) == Logic(<<0, 0, 0, 0, 1, 2, 0, 2, 2>>, BooleanValueOf(a), BooleanValueOf(b))
OrValues(a, b) == Logic(<<0, 1, 2, 1, 1, 1, 2, 1, 2>>, BooleanValueOf(a), BooleanValueOf(b))
NotValue(a) == IF IsNull(a) THEN NullV ELSE BoolV(BooleanValueOf(a) = 0)

-----------------------------------------------------------------------------
Operator == {"+", "-", "*", "/", "%"}

\* intMath: an operation that overflows is done with reals.
RealMath(op, x, y) ==
  IF op = "/" /\ y = 0 THEN NullV
  ELSE FloatV(CASE op \in {"+", "-"} -> RealSum(x, IF op = "+" THEN y ELSE -y)
                [] op = "*" -> RealProduct(x, y)
                [] op = "/" -> RealQuotient(x, y))

Overflows_Slip(op, a, b) == op = "*" /\ b # 0 /\ Quotient(Wrap(a * b), b) # a
Overflows(op, a, b) ==
  CASE op = "+" -> \/ a > 0 /\ b > 0 /\ a > MaxInt - b
                   \/ a < 0 /\ b < 0 /\ a < MinInt - b
    [] op = "-" -> \/ b > 0 /\ a < MinInt + b
                   \/ b < 0 /\ a > MaxInt + b
    [] op = "*" -> /\ a # 0 /\ b # 0
                   /\ \/ a = MinInt /\ b = -1
                      \/ b = MinInt /\ a = -1
                      \/ Wrap(Quotient(Wrap(a * b), b)) # a
    [] op = "/" -> b = -1 /\ a = MinInt
    [] op = "%" -> FALSE

IntMath(op, a, b) ==
  IF op \in {"/", "%"} /\ b = 0 THEN NullV
  ELSE IF Overflows(op, a, b) THEN RealMath(op, ToFloat[a], ToFloat[b])
  ELSE IntV(Wrap(CASE op = "+" -> a + b
                   [] op = "-" -> a - b
                   [] op = "*" -> a * b
                   [] op = "/" -> Quotient(a, b)
                   [] op = "%" -> Remainder(a, IF b = -1 THEN 1 ELSE b)))

\* arith
RealRemainder(i, j) == IF j = 0 THEN NullV ELSE FloatV(ToFloat[Remainder(i, IF j = -1 THEN 1 ELSE j)])
Arith(op, a, b) ==
  IF IsNull(a) \/ IsNull(b) THEN NullV
  ELSE IF NumericTypeOf(a).kind = "Int" /\ NumericTypeOf(b).kind = "Int"
    THEN IntMath(op, NumericTypeOf(a).n, NumericTypeOf(b).n)
  ELSE IF op = "%" THEN RealRemainder(IntValueOf(a), IntValueOf(b))
  ELSE RealMath(op, RealValueOf(a), RealValueOf(b))

-----------------------------------------------------------------------------
\* intFloatCompare
IntFloatCompare_Slip(i, r) == Sign(ToFloat[i] - r)
IntFloatCompare(i, r) ==
  IF r < One * MinInt THEN 1
  ELSE IF r >= One * (MaxInt + 1) THEN -1
  ELSE IF i # Quotient(r, One) THEN Sign(i - Quotient(r, One)) ELSE Sign(ToFloat[i] - r)

(* compareValues: numbers before text before blobs.  NULL is meant to be    *)
(* kept away from it; it would be an empty text.                            *)
CompareValues(a, b) ==
  CASE a.kind = b.kind -> Sign(a.n - b.n)
    [] a.kind = "Int" /\ b.kind = "Float" -> IntFloatCompare(a.n, b.n)
    [] a.kind = "Float" /\ b.kind = "Int" -> -IntFloatCompare(b.n, a.n)
    [] IsNumber(a) /\ ~IsNumber(b) -> -1
    [] IsNumber(b) /\ ~IsNumber(a) -> 1
    [] a.kind = "Text" /\ b.kind = "Blob" -> -1
    [] a.kind = "Blob" /\ b.kind = "Text" -> 1
    [] OTHER -> Sign(a.n - b.n)

\* comparisonAffinity and applyComparisonAffinity: what an operand becomes.
ComparisonAffinity(la, ra) == IF la = "NONE" THEN ra
                              ELSE IF ra = "NONE" THEN la
                              ELSE IF Numeric(la) \/ Numeric(ra) THEN "NUMERIC" ELSE "BLOB"
Operand(v, aff) == IF Numeric(aff) /\ v.kind = "Text" THEN NumericAffinity(v, FALSE)
                   ELSE IF aff = "TEXT" THEN AsText(v) ELSE v

\* CompareExpr on operands of these affinities.
Holds(op, c) == CASE op \in {"=", "IS"} -> c = 0
                  [] op \in {"!=", "<>", "IS NOT"} -> c # 0
                  [] op = "<" -> c < 0
                  [] op = ">" -> c > 0
                  [] op = ">=" -> c >= 0
                  [] op = "<=" -> c <= 0
Compare(op, a, b, aff) ==
  IF ~IsNull(a) /\ ~IsNull(b) THEN BoolV(Holds(op, CompareValues(Operand(a, aff), Operand(b, aff))))
  ELSE IF op \notin {"IS", "IS NOT"} THEN NullV
  ELSE BoolV((op = "IS") = (IsNull(a) /\ IsNull(b)))

\* InExpr: every item comes with the affinity of its comparison.
In_Slip(a, list, affs) == BoolV(\E k \in DOMAIN list : Compare("=", a, list[k], affs[k]) = IntV(1))
In(a, list, affs) ==
  IF ~IsNull(a) /\ \E k \in DOMAIN list :
       ~IsNull(list[k]) /\ CompareValues(Operand(a, affs[k]), Operand(list[k], affs[k])) = 0
    THEN IntV(1)
    ELSE IF IsNull(a) \/ \E k \in DOMAIN list : IsNull(list[k]) THEN NullV ELSE IntV(0)

\* BetweenExpr
Between(a, low, high, affs) ==
  AndValues(Compare(">=", a, low, affs[1]), Compare("<=", a, high, affs[2]))

\* condTrue: only a non-zero integer lets a row through a WHERE.
CondTrue_Slip(v) == ~(v.kind = "Int" /\ v.n = 0)
CondTrue(v) == v.kind = "Int" /\ v.n # 0
=============================================================================
