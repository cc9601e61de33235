-------------------------------- MODULE Query --------------------------------
(***************************************************************************)
(* A column that values are inserted into, and what SELECT makes of it:     *)
(* WHERE expressions, ORDER BY, DISTINCT, GROUP BY and the aggregates        *)
(* (internal/engine/expr.go), over the values of module Values.             *)
(***************************************************************************)
EXTENDS Values, Functions, SequencesExt

CONSTANTS Bytes,    \* byte strings, by their place in byte order, 0 being the empty one
          NullText, \* the string NULL
          Literal,  \* the values that INSERT supplies
          MaxRows   \* bound: rows of the column

Value == [kind : {"Int"}, n : Int64] \union [kind : {"Float"}, n : Float64]
           \union [kind : {"Text", "Blob"}, n : Bytes] \union {NullV}

ASSUME BytesAssumption == {0, NullText} \subseteq Bytes /\ Bytes \subseteq Nat
ASSUME LiteralAssumption == Literal \subseteq Value /\ MaxRows \in Nat
\* What is read from bytes is an int64 and a float64, and numbers are shown as bytes.
ASSUME ReadingAssumption == \A t \in Bytes : LeadingInt(t).int \in Int64 /\ LeadingNumber(t).real \in Float64
ASSUME ShownAssumption == \A v \in Literal : IsNumber(v) => Shown(v) \in Bytes

VARIABLES affinity,  \* of the column
          given,     \* history: the values as they were supplied
          rows       \* the values as they are stored

vars == <<affinity, given, rows>>

Init == affinity \in Affinity \ {"NONE"} /\ given = <<>> /\ rows = <<>>

Insert(v) == /\ Len(rows) < MaxRows
             /\ \E stored \in ApplyAffinity(v, affinity) : rows' = Append(rows, stored)
             /\ given' = Append(given, v)
             /\ UNCHANGED affinity

Next == \E v \in Literal : Insert(v)

Spec == Init /\ [][Next]_vars

-----------------------------------------------------------------------------
\* orderCompare: NULL comes first, and last with DESC.
OrderCompare_Slip(a, b, desc) == IF desc THEN -CompareValues(a, b) ELSE CompareValues(a, b)
OrderCompare(a, b, desc) ==
  (IF desc THEN -1 ELSE 1) * (IF IsNull(a) THEN IF IsNull(b) THEN 0 ELSE -1
                              ELSE IF IsNull(b) THEN 1 ELSE CompareValues(a, b))

\* sort.SliceStable: every value goes behind those it does not precede.
OrderBy(s, desc) ==
  FoldLeft(LAMBDA sorted, v :
             LET k == Cardinality({j \in DOMAIN sorted : OrderCompare(v, sorted[j], desc) >= 0})
             IN  InsertAt(sorted, k + 1, v),
           <<>>, s)

\* valsEqual, on rows of one value; dedupRows, dedupValues.
ValsEqual(a, b) == IF IsNull(a) \/ IsNull(b) THEN IsNull(a) /\ IsNull(b)
                   ELSE CompareValues(a, b) = 0
Dedup_Slip(s) == FoldLeft(LAMBDA out, v :
  IF out # <<>> /\ ValsEqual(Last(out), v) THEN out ELSE Append(out, v), <<>>, s)
Dedup(s) == FoldLeft(LAMBDA out, v :
  IF \E k \in DOMAIN out : ValsEqual(out[k], v) THEN out ELSE Append(out, v), <<>>, s)

\* groupKeyString: a group is known by the text of its key, NULL by the word.
GroupKey(v) == IF IsNull(v) THEN NullText ELSE AsText(v).n
Groups(s) == {GroupKey(s[k]) : k \in DOMAIN s}

\* aggArgs and evalAgg.
AggArgs(s, distinct) ==
  LET vals == FoldLeft(LAMBDA out, v : IF IsNull(v) THEN out ELSE Append(out, v), <<>>, s)
  IN  IF distinct THEN Dedup(vals) ELSE vals
Best(s, sign) == FoldLeft(LAMBDA best, v : IF sign * CompareValues(v, best) > 0 THEN v ELSE best,
                          Head(s), Tail(s))
\* Infinities of both signs: the code makes a real of NaN, FloatV makes NULL.
Average(s) ==
  LET sum == FoldLeft(LAMBDA acc, v : RealSum(acc, RealValueOf(v)), 0, s)
  IN  FloatV(RealQuotient(sum, One * Len(s)))
Agg(func, s) ==
  IF func = "COUNT" THEN IntV(Len(s))
  ELSE IF s = <<>> THEN NullV
  ELSE CASE func = "SUM" -> FoldLeft(LAMBDA acc, v : Arith("+", acc, v), IntV(0), s)
         [] func = "AVG" -> Average(s)
         [] func = "MIN" -> Best(s, -1)
         [] func = "MAX" -> Best(s, 1)

-----------------------------------------------------------------------------
\* What is stored and what can be computed from it are values.
QueryTypeOK == /\ rows \in Seq(Value) /\ Len(rows) = Len(given)
               /\ Agg("SUM", AggArgs(rows, FALSE)) \in Value

\* The exact worth of a number.
Worth(v) == IF v.kind = "Int" THEN One * v.n ELSE v.n

(* A number keeps its worth in a column, but for the rounding of a REAL     *)
(* one, and what is stored does not depend on the processor: near the       *)
(* limits of int64 too, where the conversion of a real is not defined.      *)
NumbersKept == \A k \in DOMAIN rows : IsNumber(given[k]) /\ IsNumber(rows[k]) =>
  /\ Worth(rows[k]) = IF affinity = "REAL" THEN RealValueOf(given[k]) ELSE Worth(given[k])
  /\ Cardinality(ApplyAffinity(given[k], affinity)) = 1

(* "with exact int/float comparison" (value.go): compareValues is a total   *)
(* preorder of the values that are not NULL, and orders numbers by worth.   *)
Comparable == {k \in DOMAIN rows : ~IsNull(rows[k])}
ComparisonIsOrder ==
  /\ \A i, j \in Comparable :
       /\ CompareValues(rows[i], rows[j]) = -CompareValues(rows[j], rows[i])
       /\ IsNumber(rows[i]) /\ IsNumber(rows[j]) =>
            CompareValues(rows[i], rows[j]) = Sign(Worth(rows[i]) - Worth(rows[j]))
  /\ \A i, j, k \in Comparable :
       CompareValues(rows[i], rows[j]) <= 0 /\ CompareValues(rows[j], rows[k]) <= 0
         => CompareValues(rows[i], rows[k]) <= 0

(* "integer math with overflow promotion to REAL" (value.go): an operation  *)
(* on integers is exact, or its result is out of range and it is a real.    *)
Exact(op, a, b) == CASE op = "+" -> a + b
                     [] op = "-" -> a - b
                     [] op = "*" -> a * b
                     [] op = "/" -> Quotient(a, b)
                     [] op = "%" -> Remainder(a, b)
IntegersExact == \A i, j \in DOMAIN rows, op \in Operator :
  rows[i].kind = "Int" /\ rows[j].kind = "Int" =>
    LET a == rows[i].n
        b == rows[j].n
        r == Arith(op, rows[i], rows[j])
    IN  IF op \in {"/", "%"} /\ b = 0 THEN r = NullV
        ELSE IF Exact(op, a, b) \in Int64 THEN r = IntV(Exact(op, a, b))
        ELSE r.kind = "Float"

WithLiteral == ComparisonAffinity(affinity, "NONE")
\* "IN compares with the same affinity rules as =" (expr.go), NULLs included.
InIsDisjunction == \A i, j, k \in DOMAIN rows :
  In(rows[i], <<given[j], given[k]>>, <<WithLiteral, WithLiteral>>) =
    OrValues(Compare("=", rows[i], given[j], WithLiteral), Compare("=", rows[i], given[k], WithLiteral))

(* NULL propagation: AND, OR and NOT are the minimum, the maximum and the   *)
(* complement of false < unknown < true, NOT BETWEEN is the disjunction of  *)
(* its negated halves, IN that of its equalities, and WHERE x and WHERE NOT *)
(* x both leave out a row only when x is unknown.                           *)
Truth(v) == CASE BooleanValueOf(v) = 0 -> -1 [] BooleanValueOf(v) = 1 -> 1 [] OTHER -> 0
LogicIsKleene ==
  /\ InIsDisjunction
  /\ \A i, j \in DOMAIN rows :
       /\ Truth(AndValues(rows[i], rows[j])) = (CHOOSE t \in {Truth(rows[i]), Truth(rows[j])} :
                                                  t <= Truth(rows[i]) /\ t <= Truth(rows[j]))
       /\ OrValues(rows[i], rows[j]) = NotValue(AndValues(NotValue(rows[i]), NotValue(rows[j])))
  /\ \A i, j, k \in DOMAIN rows :
       LET between == Between(rows[i], given[j], given[k], <<WithLiteral, WithLiteral>>)
       IN  /\ NotValue(between) =
                OrValues(NotValue(Compare(">=", rows[i], given[j], WithLiteral)),
                         NotValue(Compare("<=", rows[i], given[k], WithLiteral)))
           /\ CondTrue(between) => ~CondTrue(NotValue(between))
           /\ IsNull(between) <=> ~CondTrue(between) /\ ~CondTrue(NotValue(between))

\* Those of a sequence that are equal to v, in their order.
EqualsOf(s, v) == FoldLeft(LAMBDA out, u : IF ValsEqual(u, v) THEN Append(out, u) ELSE out, <<>>, s)

(* ORDER BY yields the stored rows in order, stably, DESC the other way     *)
(* round, and MIN and MAX are the ends of it.                               *)
OrderIsOrder ==
  LET asc  == OrderBy(rows, FALSE)
      desc == OrderBy(rows, TRUE)
      vals == AggArgs(asc, FALSE)
  IN  /\ \A v \in Range(rows) : EqualsOf(asc, v) = EqualsOf(rows, v)
      /\ \A j, k \in DOMAIN asc : j < k => /\ OrderCompare(asc[j], asc[k], FALSE) <= 0
                                           /\ OrderCompare(desc[j], desc[k], FALSE) >= 0
      /\ \A j \in DOMAIN asc : ValsEqual(asc[j], desc[Len(desc) + 1 - j])
      /\ vals # <<>> => /\ ValsEqual(Agg("MIN", AggArgs(rows, FALSE)), Head(vals))
                        /\ ValsEqual(Agg("MAX", AggArgs(rows, FALSE)), Last(vals))

(* DISTINCT keeps one of every class of equal values, NULL being one of     *)
(* them, whatever the order of the rows.                                    *)
DistinctIsExact ==
  /\ \A k \in DOMAIN rows : \E j \in DOMAIN Dedup(rows) : ValsEqual(Dedup(rows)[j], rows[k])
  /\ \A j, k \in DOMAIN Dedup(rows) : j # k => ~ValsEqual(Dedup(rows)[j], Dedup(rows)[k])

(* "Rows whose key columns are equal (including NULL == NULL) share a       *)
(* group" (expr.go): GROUP BY has as many groups as DISTINCT has rows.      *)
GroupsAreClasses == Cardinality(Groups(rows)) = Len(Dedup(rows))
=============================================================================
