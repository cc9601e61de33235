----------------------------- MODULE SelectProofs -----------------------------
(***************************************************************************)
(* Proofs about module Select: WHERE, GROUP BY, HAVING and the aggregates of *)
(* lists, for tables of any length and expressions of any depth, ORDER BY    *)
(* and LIMIT for tables of any length.  Evaluation and the replacement of    *)
(* aggregates are recursive functions over expressions, of which it is first *)
(* shown that they exist.                                                   *)
(***************************************************************************)
EXTENDS Select, QueryProofs

\* A level of the trees, as a function of the level below.
LevelsTo(m, f) == f = [n \in 0..m |-> Node(IF n = 0 THEN {} ELSE f[n - 1])]

\* The trees of every depth exist, and are what their definition says.
LEMMA Levels == \A n \in 0..MaxDepth : Nested[n] = Node(IF n = 0 THEN {} ELSE Nested[n - 1])
<1> DEFINE S == {m \in 0..MaxDepth : \E f : LevelsTo(m, f)}
<1>1. 0 \in S
  <2>1. LevelsTo(0, [n \in 0..0 |-> Node({})])
    BY DEF LevelsTo
  <2>2. QED
    BY <2>1, DepthAssumption
<1>2. ASSUME NEW m \in 1..MaxDepth, m - 1 \in S PROVE m \in S
  <2>1. PICK f : LevelsTo(m - 1, f)
    BY <1>2
  <2> DEFINE g == [n \in 0..m |-> Node(IF n = 0 THEN {} ELSE f[n - 1])]
  <2>2. \A n \in 0..(m - 1) : f[n] = g[n]
    BY <2>1 DEF LevelsTo
  <2>3. \A n \in 0..m : g[n] = Node(IF n = 0 THEN {} ELSE g[n - 1])
    BY <2>2
  <2>4. LevelsTo(m, g)
    <3> HIDE DEF g
    <3>1. g = [n \in 0..m |-> g[n]]
      BY DEF g
    <3>2. QED
      BY <2>3, <3>1 DEF LevelsTo
  <2>5. QED
    BY <2>4
<1>3. MaxDepth \in S
  <2> HIDE DEF S
  <2>1. QED
    BY <1>1, <1>2, UpTo, DepthAssumption
<1>4. LevelsTo(MaxDepth, Nested)
  <2>1. PICK f : LevelsTo(MaxDepth, f)
    BY <1>3
  <2>2. QED
    BY <2>1 DEF LevelsTo, Nested
<1>5. QED
  BY <1>4 DEF LevelsTo

\* An operand is a level below what it is an operand of.
LEMMA Operands ==
  /\ \A n \in 1..MaxDepth : Nested[n - 1] \subseteq Nested[n]
  /\ \A n \in 0..MaxDepth : /\ Nested[n] \subseteq Expression
                           /\ \A x \in Nested[n] : \A k \in DOMAIN x.args : n > 0 /\ x.args[k] \in Nested[n - 1]
<1>1. ASSUME NEW S, NEW T, S \subseteq T PROVE Node(S) \subseteq Node(T)
  BY <1>1 DEF Node
<1>2. \A n \in 0..MaxDepth : \A x \in Nested[n] : \A k \in DOMAIN x.args : n > 0 /\ x.args[k] \in Nested[n - 1]
  BY Levels, DepthAssumption DEF Node
<1> DEFINE U == {m \in 0..MaxDepth : m = 0 \/ Nested[m - 1] \subseteq Nested[m]}
<1>3. 0 \in U
  BY DepthAssumption
<1>4. ASSUME NEW m \in 1..MaxDepth, m - 1 \in U PROVE m \in U
  <2>1. CASE m = 1
    <3>1. Nested[0] = Node({}) /\ Nested[1] = Node(Nested[0])
      BY Levels, DepthAssumption, <2>1
    <3>2. QED
      BY <3>1, <1>1, <2>1, DepthAssumption
  <2>2. CASE m # 1
    <3>1. Nested[m - 1] = Node(Nested[m - 2]) /\ Nested[m] = Node(Nested[m - 1])
      BY Levels, DepthAssumption, <2>2
    <3>2. Nested[m - 2] \subseteq Nested[m - 1]
      BY <1>4, <2>2
    <3>3. QED
      BY <3>1, <3>2, <1>1
  <2>3. QED
    BY <2>1, <2>2
<1>5. \A n \in 1..MaxDepth : Nested[n - 1] \subseteq Nested[n]
  <2>1. 0..MaxDepth \subseteq U
    <3> HIDE DEF U
    <3>1. QED
      BY <1>3, <1>4, UpTo, DepthAssumption
  <2>2. QED
    BY <2>1
<1> DEFINE V == {m \in 0..MaxDepth : Nested[MaxDepth - m] \subseteq Nested[MaxDepth]}
<1>6. 0 \in V
  BY DepthAssumption
<1>7. ASSUME NEW m \in 1..MaxDepth, m - 1 \in V PROVE m \in V
  <2>1. MaxDepth - (m - 1) \in 1..MaxDepth /\ (MaxDepth - (m - 1)) - 1 = MaxDepth - m
    BY DepthAssumption
  <2>2. QED
    BY <2>1, <1>5, <1>7
<1>8. \A n \in 0..MaxDepth : Nested[n] \subseteq Expression
  <2>1. 0..MaxDepth \subseteq V
    <3> HIDE DEF V
    <3>1. QED
      BY <1>6, <1>7, UpTo, DepthAssumption
  <2>2. \A n \in 0..MaxDepth : MaxDepth - n \in 0..MaxDepth /\ MaxDepth - (MaxDepth - n) = n
    BY DepthAssumption
  <2>3. QED
    BY <2>1, <2>2 DEF Expression
<1>9. QED
  BY <1>2, <1>5, <1>8

\* What an expression is evaluated to, given what its operands are.
EvalStep(aff, row, f, x) ==
  IF x.op = "slot" THEN row[Cardinality(DOMAIN Column) + x.slot]
  ELSE IF x.op \in DOMAIN Column THEN row[Column[x.op]]
  ELSE IF x.op \in DOMAIN Constant THEN Constant[x.op]
  ELSE Apply(x.op, [k \in DOMAIN x.args |-> f[x.args[k]]], Affinities(x, aff))
EvalsOn(S, aff, row, f) == f = [x \in S |-> EvalStep(aff, row, f, x)]

\* Evaluation is defined for every expression, and does what its definition says.
LEMMA Evaluation ==
  ASSUME NEW aff, NEW row
  PROVE  \A e \in Expression :
           EvalIn(aff, e, row) = EvalStep(aff, row, [x \in Expression |-> EvalIn(aff, x, row)], e)
<1> DEFINE S == {m \in 0..MaxDepth : \E f : EvalsOn(Nested[m], aff, row, f)}
<1>0. ASSUME NEW f, NEW g, NEW x, \A k \in DOMAIN x.args : f[x.args[k]] = g[x.args[k]]
      PROVE  EvalStep(aff, row, f, x) = EvalStep(aff, row, g, x)
  <2>1. [k \in DOMAIN x.args |-> f[x.args[k]]] = [k \in DOMAIN x.args |-> g[x.args[k]]]
    BY <1>0
  <2>2. QED
    BY <2>1 DEF EvalStep
<1>1. 0 \in S
  <2> DEFINE g == [x \in Nested[0] |-> EvalStep(aff, row, <<>>, x)]
  <2>1. \A x \in Nested[0] : g[x] = EvalStep(aff, row, g, x)
    BY <1>0, Operands, DepthAssumption
  <2>2. EvalsOn(Nested[0], aff, row, g)
    <3> HIDE DEF g
    <3>1. g = [x \in Nested[0] |-> g[x]]
      BY DEF g
    <3>2. QED
      BY <2>1, <3>1 DEF EvalsOn
  <2>3. QED
    BY <2>2, DepthAssumption
<1>2. ASSUME NEW m \in 1..MaxDepth, m - 1 \in S PROVE m \in S
  <2>1. PICK f : EvalsOn(Nested[m - 1], aff, row, f)
    BY <1>2
  <2> DEFINE g == [x \in Nested[m] |-> EvalStep(aff, row, f, x)]
  <2>2. \A y \in Nested[m - 1] : g[y] = f[y]
    BY <2>1, Operands DEF EvalsOn
  <2>3. \A x \in Nested[m] : g[x] = EvalStep(aff, row, g, x)
    <3>1. \A x \in Nested[m] : \A k \in DOMAIN x.args : f[x.args[k]] = g[x.args[k]]
      BY <2>2, Operands
    <3>2. QED
      BY <3>1, <1>0
  <2>4. EvalsOn(Nested[m], aff, row, g)
    <3> HIDE DEF g
    <3>1. g = [x \in Nested[m] |-> g[x]]
      BY DEF g
    <3>2. QED
      BY <2>3, <3>1 DEF EvalsOn
  <2>5. QED
    BY <2>4
<1>3. \E f : EvalsOn(Expression, aff, row, f)
  <2> HIDE DEF S
  <2>1. MaxDepth \in S
    BY <1>1, <1>2, UpTo, DepthAssumption
  <2>2. QED
    BY <2>1 DEF S, Expression
<1> DEFINE E == CHOOSE f : EvalsOn(Expression, aff, row, f)
<1>4. EvalsOn(Expression, aff, row, E)
  BY <1>3
<1>5. \A e : EvalIn(aff, e, row) = E[e]
  BY DEF EvalIn, EvalsOn, EvalStep
<1> HIDE DEF E
<1>6. E = [x \in Expression |-> EvalIn(aff, x, row)]
  <2>1. E = [x \in Expression |-> E[x]]
    BY <1>4 DEF EvalsOn
  <2>2. QED
    BY <2>1, <1>5
<1>7. \A e \in Expression : E[e] = EvalStep(aff, row, E, e)
  BY <1>4 DEF EvalsOn
<1>8. QED
  BY <1>5, <1>6, <1>7

\* The parts of an expression outside of aggregates, given those of its operands.
OutsideStep(f, x) == {x} \union (IF IsAggregate(x) THEN {} ELSE UNION {f[x.args[k]] : k \in DOMAIN x.args})
OutsideOn(S, f) == f = [x \in S |-> OutsideStep(f, x)]

\* The parts of an expression are defined for every expression.
LEMMA Visiting == \A e \in Expression :
  Outside(e) = {e} \union (IF IsAggregate(e) THEN {} ELSE UNION {Outside(e.args[k]) : k \in DOMAIN e.args})
<1> DEFINE S == {m \in 0..MaxDepth : \E f : OutsideOn(Nested[m], f)}
<1>0. ASSUME NEW f, NEW g, NEW x, \A k \in DOMAIN x.args : f[x.args[k]] = g[x.args[k]]
      PROVE  OutsideStep(f, x) = OutsideStep(g, x)
  <2>1. [k \in DOMAIN x.args |-> f[x.args[k]]] = [k \in DOMAIN x.args |-> g[x.args[k]]]
    BY <1>0
  <2>2. QED
    BY <2>1 DEF OutsideStep
<1>1. 0 \in S
  <2> DEFINE g == [x \in Nested[0] |-> OutsideStep(<<>>, x)]
  <2>1. \A x \in Nested[0] : g[x] = OutsideStep(g, x)
    BY <1>0, Operands, DepthAssumption
  <2>2. OutsideOn(Nested[0], g)
    <3> HIDE DEF g
    <3>1. g = [x \in Nested[0] |-> g[x]]
      BY DEF g
    <3>2. QED
      BY <2>1, <3>1 DEF OutsideOn
  <2>3. QED
    BY <2>2, DepthAssumption
<1>2. ASSUME NEW m \in 1..MaxDepth, m - 1 \in S PROVE m \in S
  <2>1. PICK f : OutsideOn(Nested[m - 1], f)
    BY <1>2
  <2> DEFINE g == [x \in Nested[m] |-> OutsideStep(f, x)]
  <2>2. \A y \in Nested[m - 1] : g[y] = f[y]
    BY <2>1, Operands DEF OutsideOn
  <2>3. \A x \in Nested[m] : g[x] = OutsideStep(g, x)
    <3>1. \A x \in Nested[m] : \A k \in DOMAIN x.args : f[x.args[k]] = g[x.args[k]]
      BY <2>2, Operands
    <3>2. QED
      BY <3>1, <1>0
  <2>4. OutsideOn(Nested[m], g)
    <3> HIDE DEF g
    <3>1. g = [x \in Nested[m] |-> g[x]]
      BY DEF g
    <3>2. QED
      BY <2>3, <3>1 DEF OutsideOn
  <2>5. QED
    BY <2>4
<1>3. \E f : OutsideOn(Expression, f)
  <2> HIDE DEF S
  <2>1. MaxDepth \in S
    BY <1>1, <1>2, UpTo, DepthAssumption
  <2>2. QED
    BY <2>1 DEF S, Expression
<1> DEFINE E == CHOOSE f : OutsideOn(Expression, f)
<1>4. OutsideOn(Expression, E)
  BY <1>3
<1>5. \A e : Outside(e) = E[e]
  BY DEF Outside, OutsideOn, OutsideStep
<1> HIDE DEF E
<1>6. E = [x \in Expression |-> Outside(x)]
  <2>1. E = [x \in Expression |-> E[x]]
    BY <1>4 DEF OutsideOn
  <2>2. QED
    BY <2>1, <1>5
<1>7. \A e \in Expression : E[e] = OutsideStep(E, e)
  BY <1>4 DEF OutsideOn
<1>8. \A e \in Expression : \A k \in DOMAIN e.args : E[e.args[k]] = Outside(e.args[k])
  BY <1>5
<1>9. QED
  BY <1>5, <1>7, <1>8 DEF OutsideStep

-----------------------------------------------------------------------------
\* The tokens of the operators are none of the literals and no columns.
LEMMA Tokens ==
  /\ DOMAIN Column = {"a", "b"} /\ Column["a"] = 1 /\ Column["b"] = 2 /\ Cardinality(DOMAIN Column) = 2
  /\ \A op \in Functional : op # "slot" /\ op \notin DOMAIN Column \union DOMAIN Constant
  /\ {"a", "b", "absent", "NULL"} \union Functional \union Aggregate \union DOMAIN Distinct \subseteq Symbol
  /\ {"slot", "a", "b", "absent"} \intersect DOMAIN Constant = {}
<1>1. DOMAIN Column = {"a", "b"} /\ Column["a"] = 1 /\ Column["b"] = 2
  BY DEF Column
<1>2. Cardinality({"a", "b"}) = 2
  <2>1. IsFiniteSet({}) /\ Cardinality({}) = 0
    BY FS_EmptySet
  <2>2. IsFiniteSet({"a"}) /\ Cardinality({"a"}) = 1
    BY FS_Singleton
  <2>3. QED
    BY <2>2, FS_AddElement, {"a"} \union {"b"} = {"a", "b"}
<1>3. \A op \in Functional : op # "slot" /\ op \notin {"a", "b"}
  BY DEF Functional, Casts, Operator, CompareOp
<1>4. QED
  BY <1>1, <1>2, <1>3, TokenAssumption DEF Symbol

\* What expressions are made of.
LEMMA Making ==
  /\ \A op \in Symbol : Leaf(op) \in Nested[MaxDepth - 1]
  /\ \A op \in Symbol, args \in Seq(Nested[MaxDepth - 1]) : Tree(op, args) \in Expression
  /\ Nested[MaxDepth - 1] \subseteq Expression
<1>1. 0 \in 0..MaxDepth /\ MaxDepth - 1 \in 0..MaxDepth /\ MaxDepth \in 0..MaxDepth /\ MaxDepth # 0
  BY DepthAssumption
<1>2. ASSUME NEW S, NEW op \in Symbol PROVE Leaf(op) \in Node(S) /\ \A args \in Seq(S) : Tree(op, args) \in Node(S)
  BY DEF Node, Tree, Leaf
<1>3. \A op \in Symbol : Leaf(op) \in Nested[MaxDepth - 1]
  <2>1. PICK S : Nested[MaxDepth - 1] = Node(S)
    BY <1>1, Levels
  <2>2. QED
    BY <2>1, <1>2
<1>4. \A op \in Symbol, args \in Seq(Nested[MaxDepth - 1]) : Tree(op, args) \in Expression
  <2>1. Expression = Node(Nested[MaxDepth - 1])
    BY <1>1, Levels DEF Expression
  <2>2. QED
    BY <2>1, <1>2
<1>5. QED
  BY <1>1, <1>3, <1>4, Operands

\* An operator is applied to the values of its operands.
LEMMA Applied ==
  ASSUME NEW aff, NEW row, NEW e \in Expression, e.op \in Functional
  PROVE  EvalIn(aff, e, row) =
           Apply(e.op, [k \in DOMAIN e.args |-> EvalIn(aff, e.args[k], row)], Affinities(e, aff))
<1>1. \A k \in DOMAIN e.args : e.args[k] \in Expression
  BY Operands, DepthAssumption DEF Expression
<1>2. [k \in DOMAIN e.args |-> [x \in Expression |-> EvalIn(aff, x, row)][e.args[k]]]
        = [k \in DOMAIN e.args |-> EvalIn(aff, e.args[k], row)]
  BY <1>1
<1>3. QED
  BY <1>2, Evaluation, Tokens DEF EvalStep

\* What is not inside of an operator.
LEMMA Atoms ==
  ASSUME NEW aff, NEW row
  PROVE  /\ EvalIn(aff, Leaf("a"), row) = row[1] /\ EvalIn(aff, Leaf("b"), row) = row[2]
         /\ EvalIn(aff, Leaf("NULL"), row) = NullV
<1>1. Leaf("a") \in Expression /\ Leaf("b") \in Expression /\ Leaf("NULL") \in Expression
  BY Making, Tokens
<1>2. Leaf("a").op = "a" /\ Leaf("b").op = "b" /\ Leaf("NULL").op = "NULL"
  BY DEF Leaf, Tree
<1>3. \A x \in Expression : EvalIn(aff, x, row) = EvalStep(aff, row, [y \in Expression |-> EvalIn(aff, y, row)], x)
  BY Evaluation
<1>4. \A x \in Expression : x.op \in DOMAIN Column => EvalIn(aff, x, row) = row[Column[x.op]]
  BY <1>3, Tokens, "slot" \notin {"a", "b"} DEF EvalStep
<1>5. \A x \in Expression : x.op \in DOMAIN Constant => EvalIn(aff, x, row) = Constant[x.op]
  BY <1>3, Tokens, TokenAssumption DEF EvalStep
<1>6. "NULL" \in DOMAIN Constant /\ Constant["NULL"] = NullV
  BY TokenAssumption
<1>7. QED
  BY <1>1, <1>2, <1>4, <1>5, <1>6, Tokens

-----------------------------------------------------------------------------
\* The operators that answer true, false or unknown.
Logical == CompareOp \union {"IS", "IS NOT", "IN", "NOT IN", "BETWEEN", "NOT BETWEEN", "AND", "OR", "NOT"}

\* What those operators compute.
LEMMA LogicalIs ==
  ASSUME NEW v, NEW with
  PROVE  /\ Apply("AND", v, with) = AndValues(v[1], v[2])
         /\ Apply("OR", v, with) = OrValues(v[1], v[2])
         /\ Apply("NOT", v, with) = NotValue(v[1])
         /\ \A op \in CompareOp \union {"IS", "IS NOT"} : Apply(op, v, with) = Compare(op, v[1], v[2], with[1])
         /\ Apply("IN", v, with) = In(v[1], Tail(v), with)
         /\ Apply("NOT IN", v, with) = NotValue(In(v[1], Tail(v), with))
         /\ Apply("BETWEEN", v, with) = Between(v[1], v[2], v[3], with)
         /\ Apply("NOT BETWEEN", v, with) = NotValue(Between(v[1], v[2], v[3], with))
BY DEF Apply, Casts, Operator, CompareOp

\* So they do, whatever their operands are.
LEMMA LogicalAnswers ==
  ASSUME NEW op \in Logical, NEW v, NEW with
  PROVE  Apply(op, v, with) \in Bool3
<1>1. \A b \in BOOLEAN : BoolV(b) \in Bool3
  BY DEF BoolV, Bool3
<1>2. \A o, x, y, aff : Compare(o, x, y, aff) \in Bool3
  BY DEF Compare, Bool3, BoolV
<1>3. \A x, list, affs : In(x, list, affs) \in Bool3
  BY DEF In, Bool3
<1>4. /\ \A x, y, z, affs : Between(x, y, z, affs) \in Bool3
      /\ \A x : NotValue(x) \in Bool3
  BY DeMorgan, Zenon DEF Between
<1>5. CASE op \in CompareOp \union {"IS", "IS NOT"}
  <2>1. Apply(op, v, with) = Compare(op, v[1], v[2], with[1])
    BY <1>5, LogicalIs, Zenon
  <2>2. QED
    BY <1>2, <2>1
<1>6. CASE op \in {"IN", "NOT IN", "BETWEEN", "NOT BETWEEN"}
  <2>1. /\ Apply("IN", v, with) = In(v[1], Tail(v), with)
        /\ Apply("NOT IN", v, with) = NotValue(In(v[1], Tail(v), with))
        /\ Apply("BETWEEN", v, with) = Between(v[1], v[2], v[3], with)
        /\ Apply("NOT BETWEEN", v, with) = NotValue(Between(v[1], v[2], v[3], with))
    BY LogicalIs
  <2>2. QED
    BY <1>3, <1>4, <1>6, <2>1
<1>7. CASE op \in {"AND", "OR", "NOT"}
  <2>1. /\ Apply("AND", v, with) = AndValues(v[1], v[2])
        /\ Apply("OR", v, with) = OrValues(v[1], v[2])
        /\ Apply("NOT", v, with) = NotValue(v[1])
    BY LogicalIs
  <2>2. QED
    BY <1>7, <2>1, DeMorgan
<1>8. QED
  BY <1>5, <1>6, <1>7 DEF Logical

\* The operator that negates another one answers the opposite.
LEMMA NegationNegates ==
  ASSUME NEW op, NEW neg, <<op, neg>> \in Negation, NEW v, NEW with
  PROVE  /\ op \in Logical /\ neg \in Logical
         /\ Apply(neg, v, with) = NotValue(Apply(op, v, with))
         /\ Apply(op, v, with) = NotValue(Apply(neg, v, with))
<1>1. op \in Logical /\ neg \in Logical
  BY DEF Negation, Logical, CompareOp
<1>2. \A x : Sign(x) \in {-1, 0, 1}
  BY DEF Sign
<1>3. \A x, y : CompareValues(x, y) \in {-1, 0, 1}
  <2>1. \A i, r : IntFloatCompare(i, r) \in {-1, 0, 1}
    BY <1>2 DEF IntFloatCompare
  <2>2. QED
    BY <1>2, <2>1 DEF CompareValues
<1>4. NotValue(NullV) = NullV /\ \A b \in BOOLEAN : NotValue(BoolV(b)) = BoolV(~b)
  BY Booleans, Connectives DEF BoolV
<1>5. \A b \in Bool3 : NotValue(NotValue(b)) = b
  BY TruthAnswers, Booleans DEF Bool3
<1>6. Apply(neg, v, with) = NotValue(Apply(op, v, with))
  <2>1. CASE op \in {"=", "<", ">", "IS"}
    <3>1. /\ Apply(op, v, with) = Compare(op, v[1], v[2], with[1])
          /\ Apply(neg, v, with) = Compare(neg, v[1], v[2], with[1])
      BY <2>1, LogicalIs, Zenon DEF Negation, CompareOp
    <3>2. \/ op = "=" /\ neg \in {"<>", "!="}
          \/ op = "<" /\ neg = ">="
          \/ op = ">" /\ neg = "<="
          \/ op = "IS" /\ neg = "IS NOT"
      BY <2>1 DEF Negation
    <3>3. ASSUME NEW c \in {-1, 0, 1} PROVE Holds(neg, c) <=> ~Holds(op, c)
      <4>1. CASE op = "=" /\ neg \in {"<>", "!="}
        BY <4>1 DEF Holds
      <4>2. CASE op = "<" /\ neg = ">="
        BY <4>2 DEF Holds
      <4>3. CASE op = ">" /\ neg = "<="
        BY <4>3 DEF Holds
      <4>4. CASE op = "IS" /\ neg = "IS NOT"
        BY <4>4 DEF Holds
      <4>5. QED
        BY <3>2, <4>1, <4>2, <4>3, <4>4
    <3>4. \A x, y, aff : Compare(neg, x, y, aff) = NotValue(Compare(op, x, y, aff))
      <4>1. SUFFICES ASSUME NEW x, NEW y, NEW aff
                     PROVE  Compare(neg, x, y, aff) = NotValue(Compare(op, x, y, aff))
        OBVIOUS
      <4>2. CASE ~IsNull(x) /\ ~IsNull(y)
        <5> DEFINE c == CompareValues(Operand(x, aff), Operand(y, aff))
        <5>1. /\ Compare(neg, x, y, aff) = BoolV(Holds(neg, c))
              /\ Compare(op, x, y, aff) = BoolV(Holds(op, c))
          BY <4>2 DEF Compare
        <5>2. Holds(neg, c) <=> ~Holds(op, c)
          BY <1>3, <3>3
        <5> HIDE DEF c
        <5>3. QED
          BY <5>1, <5>2, <1>4 DEF BoolV
      <4>3. CASE IsNull(x) \/ IsNull(y)
        BY <4>3, <3>2, <1>4 DEF Compare, BoolV
      <4>4. QED
        BY <4>2, <4>3
    <3>5. QED
      BY <3>1, <3>4
  <2>2. CASE op = "IN" /\ neg = "NOT IN"
    BY <2>2, LogicalIs
  <2>3. CASE op = "BETWEEN" /\ neg = "NOT BETWEEN"
    BY <2>3, LogicalIs
  <2>4. QED
    BY <2>1, <2>2, <2>3 DEF Negation
<1>7. QED
  BY <1>1, <1>5, <1>6, LogicalAnswers

-----------------------------------------------------------------------------
\* Those of a sequence that are in a set, step by step.
ChosenStep(these, out, v) == IF v \in these THEN Append(out, v) ELSE out
Selections(these, E) == [x \in Seq(E) \X E |-> ChosenStep(these, x[1], x[2])]

\* As FoldLeft computes it.
LEMMA ChosenFold == ASSUME NEW these, NEW E, NEW s \in Seq(E) PROVE Chosen(s, these) = Folded(Seq(E), <<>>, Selections(these, E), s)
<1> DEFINE Recursive(iter) == iter = [t \in SUBSET (DOMAIN s) |->
             IF t = {} THEN <<>> ELSE ChosenStep(these, iter[t \ {Max(t)}], s[Max(t)])]
<1>1. /\ Len(s) \in Nat /\ DOMAIN s = 1..Len(s)
      /\ <<>> \in Seq(E) /\ Selections(these, E) \in [Seq(E) \X E -> Seq(E)]
  BY DEF Selections, ChosenStep
<1>2. Chosen(s, these) = (CHOOSE iter : Recursive(iter))[DOMAIN s]
  BY Zenon DEF Chosen, ChosenStep, FoldLeft, MapThenFoldSet
<1>3. PICK iter \in [SUBSET (1..Len(s)) -> Seq(E)] : IsFold(iter, <<>>, Selections(these, E), s)
  BY <1>1, FoldExists
<1>4. \A t \in SUBSET (1..Len(s)) : iter[t] =
        IF t = {} THEN <<>> ELSE ChosenStep(these, iter[t \ {Max(t)}], s[Max(t)])
  BY <1>1, <1>3, FoldMeets DEF IsFold, Selections
<1>5. Recursive(iter)
  BY <1>1, <1>3, <1>4
<1>6. PICK fold : Recursive(fold) /\ Chosen(s, these) = fold[1..Len(s)]
  BY <1>1, <1>2, <1>5
<1>7. fold[{}] = <<>>
  BY <1>6
<1>8. ASSUME NEW m \in 1..Len(s), NEW x \in Seq(E), fold[1..(m - 1)] = x
      PROVE  fold[1..m] = Selections(these, E)[<<x, s[m]>>]
  <2>1. fold[1..m] = ChosenStep(these, fold[(1..m) \ {Max(1..m)}], s[Max(1..m)])
    BY <1>1, <1>6, PositionsBefore
  <2>2. fold[1..m] = ChosenStep(these, x, s[m])
    BY <1>1, <1>8, <2>1, PositionsBefore
  <2>3. s[m] \in E
    BY <1>1
  <2>4. QED
    BY <2>2, <2>3 DEF Selections
<1>9. StepsBy(fold, Seq(E), <<>>, Selections(these, E), s)
  BY <1>7, <1>8 DEF StepsBy
<1>10. OnAll(fold, s) = Folded(Seq(E), <<>>, Selections(these, E), s)
  <2>1. ASSUME NEW D, NEW G, D = Seq(E), G = Selections(these, E) PROVE OnAll(fold, s) = Folded(D, <<>>, G, s)
    <3>1. <<>> \in D /\ G \in [D \X E -> D] /\ s \in Seq(E) /\ StepsBy(fold, D, <<>>, G, s)
      BY <2>1, <1>1, <1>9
    <3>2. QED
      BY ONLY <3>1, FoldComesTo, ZenonT(60)
  <2>2. QED
    BY <2>1
<1>11. QED
  BY <1>6, <1>10 DEF OnAll

\* Value after value.
LEMMA ChosenSteps ==
  ASSUME NEW these, NEW E
  PROVE  /\ Chosen(<<>>, these) = <<>>
         /\ \A s \in Seq(E), v \in E :
              Chosen(s, these) \in Seq(E) /\ Chosen(Append(s, v), these) = ChosenStep(these, Chosen(s, these), v)
<1>1. <<>> \in Seq(E) /\ <<>> \in Seq(E) /\ Selections(these, E) \in [Seq(E) \X E -> Seq(E)] /\ Steps(Seq(E), E, <<>>, Selections(these, E))
  BY DEF Selections, ChosenStep, Steps
<1>2. Chosen(<<>>, these) = <<>>
  <2>1. Folded(Seq(E), <<>>, Selections(these, E), <<>>) = <<>>
    BY <1>1, FoldedEmpty
  <2>2. QED
    BY <1>1, <2>1, ChosenFold
<1>3. ASSUME NEW s \in Seq(E), NEW v \in E
      PROVE  Chosen(s, these) \in Seq(E) /\ Chosen(Append(s, v), these) = ChosenStep(these, Chosen(s, these), v)
  <2>1. Append(s, v) \in Seq(E)
    OBVIOUS
  <2>2. Folded(Seq(E), <<>>, Selections(these, E), s) \in Seq(E)
    BY <1>1, <2>1, FoldedIs
  <2>3. Folded(Seq(E), <<>>, Selections(these, E), Append(s, v)) = Selections(these, E)[<<Folded(Seq(E), <<>>, Selections(these, E), s), v>>]
    BY <1>1, <2>1, FoldedStep
  <2>4. Chosen(s, these) = Folded(Seq(E), <<>>, Selections(these, E), s) /\ Chosen(Append(s, v), these) = Folded(Seq(E), <<>>, Selections(these, E), Append(s, v))
    BY <2>1, ChosenFold
  <2>5. QED
    BY <2>2, <2>3, <2>4 DEF Selections
<1>4. QED
  BY <1>2, <1>3


\* They are those of the sequence that are in the set.
LEMMA ChosenRange ==
  ASSUME NEW these, NEW E, NEW s \in Seq(E)
  PROVE  Chosen(s, these) \in Seq(E) /\ Range(Chosen(s, these)) = Range(s) \intersect these
<1> DEFINE S == {t \in Seq(E) : Range(Chosen(t, these)) = Range(t) \intersect these}
<1>1. <<>> \in S
  <2>1. Chosen(<<>>, these) = <<>> /\ <<>> \in Seq(E)
    BY ChosenSteps
  <2>2. Range(<<>>) = {}
    BY DEF Range
  <2>3. QED
    BY <2>1, <2>2
<1>2. ASSUME NEW t \in Seq(E), NEW v \in E, t \in S PROVE Append(t, v) \in S
  <2>1. Chosen(t, these) \in Seq(E) /\ Chosen(Append(t, v), these) = ChosenStep(these, Chosen(t, these), v)
    BY ChosenSteps
  <2>2. Range(Append(t, v)) = Range(t) \union {v} /\ Append(t, v) \in Seq(E)
    BY RangeAppended
  <2>3. Range(Append(Chosen(t, these), v)) = Range(Chosen(t, these)) \union {v}
    BY <2>1, RangeAppended
  <2>4. QED
    BY <1>2, <2>1, <2>2, <2>3 DEF ChosenStep
<1>3. Seq(E) \subseteq S
  <2> HIDE DEF S
  <2>1. QED
    BY <1>1, <1>2, ByAppend
<1>4. Chosen(s, these) \in Seq(E)
  <2>1. E = {} => s = <<>>
    OBVIOUS
  <2>2. CASE E # {}
    <3>1. PICK v : v \in E
      BY <2>2
    <3>2. QED
      BY <3>1, ChosenSteps
  <2>3. QED
    BY <2>1, <2>2, ChosenSteps
<1>5. QED
  BY <1>3, <1>4

-----------------------------------------------------------------------------
\* The rows of the table: a stored value and a supplied one.
Pairs == Value \X Value

\* One such row for every stored one.
LEMMA TableRows ==
  ASSUME StoredInv
  PROVE  /\ Table \in Seq(Pairs) /\ Len(Table) = Len(rows)
         /\ \A k \in DOMAIN rows : Table[k][1] = rows[k] /\ Table[k][2] \in Range(given)
<1>1. \A k \in DOMAIN rows : (k % Len(rows)) + 1 \in 1..Len(rows)
  BY DEF StoredInv
<1>2. \A k \in DOMAIN rows : given[(k % Len(rows)) + 1] \in Value /\ given[(k % Len(rows)) + 1] \in Range(given)
  <2>1. \A j \in 1..Len(rows) : given[j] \in Literal /\ given[j] \in Range(given)
    BY DEF StoredInv, Range
  <2>2. QED
    BY <1>1, <2>1, LiteralAssumption
<1>3. rows \in Seq(Value) /\ DOMAIN rows = 1..Len(rows) /\ Len(rows) \in Nat
  BY DEF StoredInv
<1>4. QED
  BY <1>2, <1>3 DEF Table, Pairs

\* A plain query has no clause that groups.
LEMMA Plain ==
  /\ ~HasAggregate(Leaf("a")) /\ ~HasAggregate(Leaf("b")) /\ ~HasAggregate(Absent)
  /\ HasAggregate(Leaf("COUNT"))
<1>1. \A op \in {"a", "b", "absent", "COUNT"} : Leaf(op) \in Expression
  BY Making, Tokens DEF Aggregate
<1>2. \A op \in {"a", "b", "absent"} : ~IsAggregate(Leaf(op))
  BY DEF IsAggregate, Leaf, Tree, Aggregate, Distinct
<1>3. IsAggregate(Leaf("COUNT"))
  BY DEF IsAggregate, Leaf, Tree, Aggregate
<1>4. \A op \in {"a", "b", "absent"} : Outside(Leaf(op)) = {Leaf(op)}
  BY <1>1, Visiting DEF Leaf, Tree
<1>5. Leaf("COUNT") \in Outside(Leaf("COUNT"))
  BY <1>1, Visiting
<1>6. QED
  BY <1>2, <1>3, <1>4, <1>5 DEF HasAggregate, Absent

\* SELECT a, b with WHERE alone returns the rows that meet the condition.
LEMMA WhereFilters ==
  ASSUME StoredInv, NEW e, e # Absent
  PROVE  Answer(Where(e), Table) = Chosen(Table, {row \in Range(Table) : CondTrue(Eval(e, row))})
<1> DEFINE q == Where(e)
           F == Chosen(Table, {row \in Range(Table) : CondTrue(Eval(e, row))})
<1>1. /\ q.items = <<Leaf("a"), Leaf("b")>> /\ q.where = e /\ q.keys = <<>> /\ q.having = Absent
      /\ q.distinct = FALSE /\ q.order = <<>> /\ q.limit = <<>>
  BY DEF Where, SelectList
<1>2. ~Grouped(q) /\ ~Refuses(q)
  BY <1>1, Plain DEF Grouped, Refuses, Range
<1>3. Filter(Table, e) = F
  BY DEF Filter
<1>4. F \in Seq(Pairs)
  BY TableRows, ChosenRange
<1>5. Items(<<Leaf("a"), Leaf("b")>>, F) = F
  <2> HIDE DEF F
  <2>1. DOMAIN F = 1..Len(F) /\ \A r \in DOMAIN F : F[r] \in Pairs
    BY <1>4
  <2>2. \A p \in Pairs : [k \in DOMAIN <<Leaf("a"), Leaf("b")>> |-> Eval(<<Leaf("a"), Leaf("b")>>[k], p)] = p
    BY Atoms DEF Eval, Pairs
  <2>3. QED
    BY <1>4, <2>1, <2>2 DEF Items
<1>6. QED
  BY <1>1, <1>2, <1>3, <1>5 DEF Answer, Output, Deduped, Ordered, Paged

\* A condition is true, false or unknown, and its opposite is what NOT makes of it.
LEMMA Opposites ==
  ASSUME NEW e \in Condition, NEW row
  PROVE  Eval(e, row) \in Bool3 /\ Eval(Opposite[e], row) = NotValue(Eval(e, row))
<1>1. e \in Expression /\ Opposite[e] \in Expression
  BY ConditionAssumption, DepthAssumption, Making
<1>2. \A x \in Expression : x.op \in Logical =>
        Eval(x, row) = Apply(x.op, [k \in DOMAIN x.args |-> Eval(x.args[k], row)], Affinities(x, affinity))
  BY Applied DEF Eval, Logical, Functional
<1>3. ASSUME NEW x \in Expression, NEW y \in Expression, Negates(x, y)
      PROVE  Eval(x, row) \in Bool3 /\ Eval(y, row) = NotValue(Eval(x, row))
  <2> DEFINE v == [k \in DOMAIN x.args |-> Eval(x.args[k], row)]
             with == Affinities(x, affinity)
  <2>1. x.args = y.args /\ Affinities(y, affinity) = with
    BY <1>3 DEF Negates, Affinities
  <2>2. <<x.op, y.op>> \in Negation \/ <<y.op, x.op>> \in Negation
    BY <1>3 DEF Negates
  <2>3. x.op \in Logical /\ y.op \in Logical /\ Apply(y.op, v, with) = NotValue(Apply(x.op, v, with))
    <3> HIDE DEF v, with
    <3>1. QED
      BY <2>2, NegationNegates
  <2>4. Eval(x, row) = Apply(x.op, v, with) /\ Eval(y, row) = Apply(y.op, v, with)
    BY <1>2, <2>1, <2>3
  <2>5. QED
    BY <2>3, <2>4, LogicalAnswers
<1> DEFINE f == Opposite[e]
<1>4. CASE Negates(e, f)
  BY <1>1, <1>3, <1>4
<1>5. CASE /\ {e.op, f.op} = {"AND", "OR"} /\ Len(e.args) = 2 /\ Len(f.args) = 2
           /\ \A k \in 1..2 : Negates(e.args[k], f.args[k])
  <2> DEFINE u == Eval(e.args[1], row)
             w == Eval(e.args[2], row)
  <2>1. DOMAIN e.args = 1..2 /\ DOMAIN f.args = 1..2
    <3>1. \A x \in Expression : \E S : x.args \in Seq(S)
      <4>1. ASSUME NEW T, NEW x \in Node(T) PROVE x.args \in Seq(T)
        <5>1. <<>> \in Seq(T)
          OBVIOUS
        <5>2. QED
          BY <4>1, <5>1 DEF Node
      <4>2. QED
        BY <4>1, Levels, DepthAssumption DEF Expression
    <3>2. QED
      BY <1>1, <1>5, <3>1
  <2>2. \A k \in 1..2 : e.args[k] \in Expression /\ f.args[k] \in Expression
    BY <1>1, <2>1, Operands, DepthAssumption DEF Expression
  <2>3. Eval(f.args[1], row) = NotValue(u) /\ Eval(f.args[2], row) = NotValue(w)
    BY <1>3, <1>5, <2>2
  <2>4. \A x \in {e, f} : /\ x.op = "AND" => Eval(x, row) = AndValues(Eval(x.args[1], row), Eval(x.args[2], row))
                          /\ x.op = "OR" => Eval(x, row) = OrValues(Eval(x.args[1], row), Eval(x.args[2], row))
    <3>1. ASSUME NEW x \in {e, f}, x.op \in {"AND", "OR"}
          PROVE  Eval(x, row) = IF x.op = "AND" THEN AndValues(Eval(x.args[1], row), Eval(x.args[2], row))
                                ELSE OrValues(Eval(x.args[1], row), Eval(x.args[2], row))
      <4> DEFINE v == [k \in DOMAIN x.args |-> Eval(x.args[k], row)]
                 with == Affinities(x, affinity)
      <4>1. Eval(x, row) = Apply(x.op, v, with)
        BY <1>1, <1>2, <3>1 DEF Logical
      <4>2. v[1] = Eval(x.args[1], row) /\ v[2] = Eval(x.args[2], row)
        BY <2>1, <3>1
      <4> HIDE DEF v, with
      <4>3. Apply("AND", v, with) = AndValues(v[1], v[2]) /\ Apply("OR", v, with) = OrValues(v[1], v[2])
        BY LogicalIs
      <4>4. QED
        BY <3>1, <4>1, <4>2, <4>3
    <3>2. QED
      BY <3>1
  <2>5. \/ e.op = "AND" /\ f.op = "OR"
        \/ e.op = "OR" /\ f.op = "AND"
    BY <1>5
  <2>6. \A b \in Bool3 : NotValue(NotValue(b)) = b
    BY TruthAnswers, Booleans DEF Bool3
  <2> HIDE DEF u, w
  <2>7. /\ AndValues(u, w) \in Bool3 /\ OrValues(u, w) \in Bool3 /\ AndValues(NotValue(u), NotValue(w)) \in Bool3
        /\ OrValues(u, w) = NotValue(AndValues(NotValue(u), NotValue(w)))
        /\ NotValue(AndValues(u, w)) = OrValues(NotValue(u), NotValue(w))
    BY DeMorgan
  <2>8. QED
    BY <2>3, <2>4, <2>5, <2>6, <2>7 DEF u, w
<1>6. QED
  BY <1>4, <1>5, ConditionAssumption

(* WHERE e, WHERE NOT e and WHERE e IS NULL share out the rows of every table, *)
(* and the operator that negates e returns what NOT returns.                *)
THEOREM WhereShares == Spec => []WherePartitions
<1>1. ASSUME StoredInv, NEW e \in Condition
      PROVE  Parted(e, Answers({Where(e), Where(Not(e)), Where(Unknown(e)), Where(Opposite[e])}))
  <2> DEFINE asked == {Where(e), Where(Not(e)), Where(Unknown(e)), Where(Opposite[e])}
             rowsOf(x) == {row \in Range(Table) : CondTrue(Eval(x, row))}
  <2>1. /\ e \in Expression /\ Not(e) \in Expression /\ Unknown(e) \in Expression /\ Opposite[e] \in Expression
        /\ e # Absent /\ Not(e) # Absent /\ Unknown(e) # Absent /\ Opposite[e] # Absent
    <3>1. e \in Nested[MaxDepth - 1] /\ Leaf("NULL") \in Nested[MaxDepth - 1]
      BY DepthAssumption, Making, Tokens
    <3>2. <<e>> \in Seq(Nested[MaxDepth - 1]) /\ <<e, Leaf("NULL")>> \in Seq(Nested[MaxDepth - 1])
      <4>1. ASSUME NEW S, e \in S, NEW x \in S PROVE <<e>> \in Seq(S) /\ <<e, x>> \in Seq(S)
        BY <4>1
      <4>2. QED
        BY <3>1, <4>1
    <3>3. "NOT" \in Symbol /\ "IS" \in Symbol
      BY DEF Symbol, Functional
    <3>4. Not(e) \in Expression /\ Unknown(e) \in Expression
      BY <3>2, <3>3, Making DEF Not, Unknown
    <3>5. \A x, y : Negates(x, y) => x.op # "absent" /\ y.op # "absent"
      BY DEF Negates, Negation
    <3>6. e.op # "absent" /\ Opposite[e].op # "absent"
      BY <3>5, ConditionAssumption
    <3>7. Not(e).op = "NOT" /\ Unknown(e).op = "IS" /\ Absent.op = "absent"
      BY DEF Not, Unknown, Absent, Leaf, Tree
    <3>8. QED
      BY <3>1, <3>4, <3>6, <3>7, Making, ConditionAssumption
  <2>2. \A row : /\ Eval(Not(e), row) = NotValue(Eval(e, row))
                 /\ \E aff : Eval(Unknown(e), row) = Compare("IS", Eval(e, row), NullV, aff)
    <3>1. SUFFICES ASSUME NEW row
                   PROVE  /\ Eval(Not(e), row) = NotValue(Eval(e, row))
                          /\ \E aff : Eval(Unknown(e), row) = Compare("IS", Eval(e, row), NullV, aff)
      OBVIOUS
    <3>2. /\ Not(e).op = "NOT" /\ Not(e).args = <<e>>
          /\ Unknown(e).op = "IS" /\ Unknown(e).args = <<e, Leaf("NULL")>>
          /\ "NOT" \in Functional /\ "IS" \in Functional
      BY DEF Not, Unknown, Tree, Functional
    <3> DEFINE v == [k \in DOMAIN <<e>> |-> Eval(<<e>>[k], row)]
               u == [k \in DOMAIN <<e, Leaf("NULL")>> |-> Eval(<<e, Leaf("NULL")>>[k], row)]
    <3>3. /\ Eval(Not(e), row) = Apply("NOT", v, Affinities(Not(e), affinity))
          /\ Eval(Unknown(e), row) = Apply("IS", u, Affinities(Unknown(e), affinity))
      BY <2>1, <3>2, Applied DEF Eval
    <3>4. v[1] = Eval(e, row) /\ u[1] = Eval(e, row) /\ u[2] = NullV
      BY Atoms DEF Eval
    <3> HIDE DEF v, u
    <3>5. Apply("NOT", v, Affinities(Not(e), affinity)) = NotValue(v[1])
      BY LogicalIs, Zenon
    <3>6. \E aff : Apply("IS", u, Affinities(Unknown(e), affinity)) = Compare("IS", u[1], u[2], aff)
      BY LogicalIs, Zenon
    <3>7. QED
      BY <3>3, <3>4, <3>5, <3>6
  <2>3. \A x \in {e, Not(e), Unknown(e), Opposite[e]} :
           Answers(asked)[Where(x)] = Chosen(Table, rowsOf(x))
    BY <1>1, <2>1, WhereFilters DEF Answers
  <2>4. \A x \in {e, Not(e), Unknown(e), Opposite[e]} :
           Range(Answers(asked)[Where(x)]) = rowsOf(x)
    <3>1. \A x : Range(Chosen(Table, rowsOf(x))) = rowsOf(x)
      BY <1>1, TableRows, ChosenRange
    <3>2. QED
      BY <2>3, <3>1
  <2>5. /\ rowsOf(e) \union rowsOf(Not(e)) \union rowsOf(Unknown(e)) = Range(Table)
        /\ rowsOf(e) \intersect rowsOf(Not(e)) = {}
        /\ rowsOf(e) \intersect rowsOf(Unknown(e)) = {}
        /\ rowsOf(Not(e)) \intersect rowsOf(Unknown(e)) = {}
    <3>1. ASSUME NEW row
          PROVE  /\ CondTrue(Eval(e, row)) <=> Eval(e, row) = IntV(1)
                 /\ CondTrue(Eval(Not(e), row)) <=> Eval(e, row) = IntV(0)
                 /\ CondTrue(Eval(Unknown(e), row)) <=> Eval(e, row) = NullV
      <4>1. Eval(e, row) \in Bool3
        BY <1>1, Opposites
      <4>2. \A aff : Compare("IS", Eval(e, row), NullV, aff) = BoolV(Eval(e, row) = NullV)
        BY <4>1 DEF Compare, IsNull, Bool3, NullV, IntV
      <4>3. Eval(Unknown(e), row) = BoolV(Eval(e, row) = NullV)
        BY <2>2, <4>2
      <4>4. CondTrue(BoolV(TRUE)) /\ ~CondTrue(BoolV(FALSE))
        BY DEF CondTrue, BoolV, IntV
      <4>5. QED
        BY <2>2, <4>1, <4>3, <4>4, TruthAnswers, Booleans DEF Bool3
    <3>2. \A row : Eval(e, row) \in Bool3
      BY <1>1, Opposites
    <3>3. QED
      BY <3>1, <3>2, Booleans DEF Bool3
  <2>6. rowsOf(Opposite[e]) = rowsOf(Not(e))
    BY <1>1, <2>2, Opposites
  <2>7. Shares([k \in 1..3 |-> Range(Answers(asked)[Where(<<e, Not(e), Unknown(e)>>[k])])], Range(Table))
    <3> DEFINE parts == [k \in 1..3 |-> Range(Answers(asked)[Where(<<e, Not(e), Unknown(e)>>[k])])]
    <3>1. parts[1] = rowsOf(e) /\ parts[2] = rowsOf(Not(e)) /\ parts[3] = rowsOf(Unknown(e)) /\ DOMAIN parts = 1..3
      <4>1. /\ <<e, Not(e), Unknown(e)>>[1] = e /\ <<e, Not(e), Unknown(e)>>[2] = Not(e)
            /\ <<e, Not(e), Unknown(e)>>[3] = Unknown(e)
        OBVIOUS
      <4> HIDE DEF asked, rowsOf
      <4>2. QED
        BY <2>4, <4>1
    <3> HIDE DEF parts, rowsOf
    <3>2. UNION Range(parts) = parts[1] \union parts[2] \union parts[3]
      BY <3>1 DEF Range
    <3>3. \A j, k \in 1..3 : j # k => parts[j] \intersect parts[k] = {}
      BY <2>5, <3>1
    <3>4. Shares(parts, Range(Table))
      BY <2>5, <3>1, <3>2, <3>3 DEF Shares
    <3>5. QED
      BY <3>4 DEF parts
  <2>8. QED
    BY <2>3, <2>6, <2>7 DEF Parted
<1>2. StoredInv => WherePartitions
  BY <1>1 DEF WherePartitions
<1>3. QED
  BY <1>2, Stored, PTL

-----------------------------------------------------------------------------
\* Those of two sequences, one behind the other.
LEMMA ChosenBehind ==
  ASSUME NEW these, NEW E, NEW a \in Seq(E), NEW b \in Seq(E)
  PROVE  Chosen(a \o b, these) = Chosen(a, these) \o Chosen(b, these)
<1> DEFINE S == {c \in Seq(E) : Chosen(a \o c, these) = Chosen(a, these) \o Chosen(c, these)}
<1>1. \A c \in Seq(E) : Chosen(c, these) \in Seq(E)
  BY ChosenRange
<1>2. <<>> \in S
  <2>1. a \o <<>> = a /\ Chosen(a, these) \o <<>> = Chosen(a, these)
    BY <1>1, ConcatEmptySeq
  <2>2. Chosen(<<>>, these) = <<>>
    BY ChosenSteps
  <2>3. Chosen(a \o <<>>, these) = Chosen(a, these) /\ Chosen(a, these) \o Chosen(<<>>, these) = Chosen(a, these)
    BY <2>1, <2>2
  <2>4. <<>> \in Seq(E)
    OBVIOUS
  <2>5. QED
    BY <2>3, <2>4
<1>3. ASSUME NEW c \in Seq(E), NEW u \in E, c \in S PROVE Append(c, u) \in S
  <2>1. /\ a \o Append(c, u) = Append(a \o c, u) /\ a \o c \in Seq(E) /\ Append(c, u) \in Seq(E)
        /\ Chosen(a, these) \o Append(Chosen(c, these), u) = Append(Chosen(a, these) \o Chosen(c, these), u)
    BY <1>1, AppendBehind
  <2>2. /\ Chosen(Append(a \o c, u), these) = ChosenStep(these, Chosen(a \o c, these), u)
        /\ Chosen(Append(c, u), these) = ChosenStep(these, Chosen(c, these), u)
    BY <2>1, ChosenSteps
  <2>3. Chosen(a \o c, these) = Chosen(a, these) \o Chosen(c, these)
    BY <1>3
  <2>4. ChosenStep(these, Chosen(a, these) \o Chosen(c, these), u) = Chosen(a, these) \o ChosenStep(these, Chosen(c, these), u)
    BY <2>1 DEF ChosenStep
  <2>5. QED
    BY <2>1, <2>2, <2>3, <2>4
<1>4. Seq(E) \subseteq S
  <2> HIDE DEF S
  <2>1. QED
    BY <1>2, <1>3, ByAppend
<1>5. QED
  BY <1>4

\* Two sets that share the values of a sequence choose the same of them.
LEMMA ChosenSame ==
  ASSUME NEW E, NEW s \in Seq(E), NEW these, NEW those, \A v \in Range(s) : v \in these <=> v \in those
  PROVE  Chosen(s, these) = Chosen(s, those)
<1> DEFINE S == {t \in Seq(E) : (\A v \in Range(t) : v \in these <=> v \in those) => Chosen(t, these) = Chosen(t, those)}
<1>1. <<>> \in S
  <2>1. Chosen(<<>>, these) = <<>> /\ Chosen(<<>>, those) = <<>> /\ <<>> \in Seq(E)
    BY ChosenSteps
  <2>2. QED
    BY <2>1
<1>2. ASSUME NEW t \in Seq(E), NEW u \in E, t \in S PROVE Append(t, u) \in S
  <2>1. Append(t, u) \in Seq(E) /\ Range(Append(t, u)) = Range(t) \union {u}
    BY RangeAppended
  <2>2. /\ Chosen(Append(t, u), these) = ChosenStep(these, Chosen(t, these), u)
        /\ Chosen(Append(t, u), those) = ChosenStep(those, Chosen(t, those), u)
    BY ChosenSteps
  <2>3. QED
    BY <1>2, <2>1, <2>2 DEF ChosenStep
<1>3. Seq(E) \subseteq S
  <2> HIDE DEF S
  <2>1. QED
    BY <1>1, <1>2, ByAppend
<1>4. QED
  BY <1>3

\* All, and none.
LEMMA ChosenAll ==
  ASSUME NEW E, NEW s \in Seq(E), NEW these
  PROVE  /\ Range(s) \subseteq these => Chosen(s, these) = s
         /\ Range(s) \intersect these = {} => Chosen(s, these) = <<>>
<1> DEFINE S == {t \in Seq(E) : /\ Range(t) \subseteq these => Chosen(t, these) = t
                                /\ Range(t) \intersect these = {} => Chosen(t, these) = <<>>}
<1>1. <<>> \in S
  <2>1. Chosen(<<>>, these) = <<>> /\ <<>> \in Seq(E)
    BY ChosenSteps
  <2>2. QED
    BY <2>1
<1>2. ASSUME NEW t \in Seq(E), NEW u \in E, t \in S PROVE Append(t, u) \in S
  <2>1. Append(t, u) \in Seq(E) /\ Range(Append(t, u)) = Range(t) \union {u}
    BY RangeAppended
  <2>2. Chosen(Append(t, u), these) = ChosenStep(these, Chosen(t, these), u)
    BY ChosenSteps
  <2>3. QED
    BY <1>2, <2>1, <2>2 DEF ChosenStep
<1>3. Seq(E) \subseteq S
  <2> HIDE DEF S
  <2>1. QED
    BY <1>1, <1>2, ByAppend
<1>4. QED
  BY <1>3

\* Where a value is inserted, a sequence is cut.
LEMMA CutAt ==
  ASSUME NEW E, NEW s \in Seq(E), NEW v \in E, NEW k \in 0..Len(s)
  PROVE  /\ InsertAt(s, k + 1, v) = Append(SubSeq(s, 1, k), v) \o SubSeq(s, k + 1, Len(s))
         /\ s = SubSeq(s, 1, k) \o SubSeq(s, k + 1, Len(s))
<1>1. /\ InsertAt(s, k + 1, v) \in Seq(E)
      /\ Len(InsertAt(s, k + 1, v)) = Len(s) + 1
      /\ \A j \in 1..(Len(s) + 1) : InsertAt(s, k + 1, v)[j] =
           IF j <= k THEN s[j] ELSE IF j = k + 1 THEN v ELSE s[j - 1]
      /\ InsertAt(s, k + 1, v) = Append(SubSeq(s, 1, k), v) \o SubSeq(s, k + 1, Len(s))
      /\ s = SubSeq(s, 1, k) \o SubSeq(s, k + 1, Len(s))
  BY InsertedIn, Zenon
<1>2. QED
  BY <1>1

(* Stability, for any order: a value goes behind all that may stand before  *)
(* it, and so behind those of its class.                                    *)
LEMMA StableIn ==
  ASSUME NEW E, NEW R, TotalPreorder(R, E), NEW a \in Seq(E), InOrder(R, a), NEW v \in E,
         NEW these, \A u, w \in these : <<u, w>> \in R
  PROVE  Chosen(InsertAt(a, Place(R, a, v) + 1, v), these) = ChosenStep(these, Chosen(a, these), v)
<1> DEFINE k == Place(R, a, v)
           p == SubSeq(a, 1, k)
           q == SubSeq(a, k + 1, Len(a))
<1>1. /\ Len(a) \in Nat /\ k \in 0..Len(a) /\ \A j \in 1..Len(a) : a[j] \in E
      /\ \A j \in 1..Len(a) : j <= k <=> <<a[j], v>> \in R
  <2>1. k \in 0..Len(a) /\ \A j \in 1..Len(a) : j <= k <=> <<a[j], v>> \in R
    BY PlacesIn
  <2>2. QED
    BY <2>1
<1>2. InsertAt(a, k + 1, v) = Append(p, v) \o q /\ a = p \o q
  <2> HIDE DEF k
  <2>1. QED
    BY <1>1, CutAt
<1>3. /\ p \in Seq(E) /\ q \in Seq(E) /\ Append(p, v) \in Seq(E)
      /\ \A j \in 1..Len(q) : j + k \in 1..Len(a) /\ j + k > k /\ q[j] = a[j + k]
      /\ Len(q) \in Nat /\ DOMAIN q = 1..Len(q)
  <2> HIDE DEF k
  <2>1. QED
    BY <1>1
<1> HIDE DEF k, p, q
<1>4. /\ Chosen(Append(p, v), these) = ChosenStep(these, Chosen(p, these), v)
      /\ Chosen(Append(p, v) \o q, these) = Chosen(Append(p, v), these) \o Chosen(q, these)
      /\ Chosen(p \o q, these) = Chosen(p, these) \o Chosen(q, these)
      /\ Chosen(p, these) \in Seq(E) /\ Chosen(q, these) \in Seq(E)
  <2>1. Chosen(Append(p, v), these) = ChosenStep(these, Chosen(p, these), v)
    BY <1>3, ChosenSteps
  <2>2. /\ Chosen(Append(p, v) \o q, these) = Chosen(Append(p, v), these) \o Chosen(q, these)
        /\ Chosen(p \o q, these) = Chosen(p, these) \o Chosen(q, these)
    BY <1>3, ChosenBehind
  <2>3. Chosen(p, these) \in Seq(E) /\ Chosen(q, these) \in Seq(E)
    BY <1>3, ChosenRange
  <2>4. QED
    BY <2>1, <2>2, <2>3
<1>5. CASE v \notin these
  BY <1>2, <1>4, <1>5 DEF ChosenStep, k
<1>6. CASE v \in these
  <2>1. Range(q) \intersect these = {}
    <3>1. SUFFICES ASSUME NEW j \in 1..Len(q), q[j] \in these PROVE FALSE
      BY <1>3 DEF Range
    <3>2. <<q[j], v>> \in R
      BY <1>6, <3>1
    <3>3. j + k \in 1..Len(a) /\ j + k > k /\ q[j] = a[j + k]
      BY <1>3, <3>1
    <3>4. ~(j + k <= k)
      BY <1>1, <3>1
    <3>5. QED
      BY <1>1, <3>2, <3>3, <3>4
  <2>2. Chosen(q, these) = <<>>
    BY <1>3, <2>1, ChosenAll
  <2>3. Append(Chosen(p, these), v) \in Seq(E)
    BY <1>4
  <2>4. \A s \in Seq(E) : s \o <<>> = s
    BY ConcatEmptySeq
  <2>5. Chosen(p, these) \o Chosen(q, these) = Chosen(p, these)
    BY <1>4, <2>2, <2>4
  <2>6. ChosenStep(these, Chosen(p, these), v) = Append(Chosen(p, these), v)
    BY <1>6 DEF ChosenStep
  <2>7. Chosen(Append(p, v), these) \o Chosen(q, these) = Append(Chosen(p, these), v)
    BY <1>4, <2>2, <2>3, <2>4, <2>6
  <2>8. QED
    BY <1>2, <1>4, <1>6, <2>5, <2>6, <2>7 DEF ChosenStep, k
<1>7. QED
  BY <1>5, <1>6

-----------------------------------------------------------------------------
\* orderCompare is a number.
LEMMA Compared == \A u, v \in Value, desc \in BOOLEAN : OrderCompare(u, v, desc) \in Int
<1>1. SUFFICES ASSUME NEW u \in Value, NEW v \in Value, NEW desc \in BOOLEAN PROVE OrderCompare(u, v, desc) \in Int
  OBVIOUS
<1>2. ~IsNull(u) /\ ~IsNull(v) => CompareValues(u, v) \in Int
  BY ComparedByKey DEF Sign
<1>3. QED
  BY <1>2 DEF OrderCompare

\* sortRowsByKeys compares two rows key by key.
SortKey == [position : 1..2, desc : BOOLEAN]
KeyStep(p, q, c, key) == IF c # 0 THEN c ELSE OrderCompare(p[key.position], q[key.position], key.desc)
KeySteps(p, q) == [x \in Int \X SortKey |-> KeyStep(p, q, x[1], x[2])]

\* They are numbers.
LEMMA KeyTypes == ASSUME NEW p \in Pairs, NEW q \in Pairs
                  PROVE  0 \in Int /\ KeySteps(p, q) \in [Int \X SortKey -> Int]
<1>1. \A c \in Int, key \in SortKey : KeyStep(p, q, c, key) \in Int
  <2>1. ASSUME NEW c \in Int, NEW key \in SortKey PROVE KeyStep(p, q, c, key) \in Int
    <3>1. p[key.position] \in Value /\ q[key.position] \in Value /\ key.desc \in BOOLEAN
      BY DEF SortKey, Pairs
    <3>2. QED
      BY <3>1, Compared DEF KeyStep
  <2>2. QED
    BY <2>1
<1>2. QED
  BY <1>1 DEF KeySteps

\* As FoldLeft computes it.
LEMMA KeysFold == ASSUME NEW p \in Pairs, NEW q \in Pairs, NEW s \in Seq(SortKey) PROVE CompareRows(p, q, s) = Folded(Int, 0, KeySteps(p, q), s)
<1> DEFINE Recursive(iter) == iter = [t \in SUBSET (DOMAIN s) |->
             IF t = {} THEN 0 ELSE KeyStep(p, q, iter[t \ {Max(t)}], s[Max(t)])]
<1>1. /\ Len(s) \in Nat /\ DOMAIN s = 1..Len(s)
      /\ 0 \in Int /\ KeySteps(p, q) \in [Int \X SortKey -> Int]
  <2>1. 0 \in Int /\ KeySteps(p, q) \in [Int \X SortKey -> Int]
    BY KeyTypes, Zenon
  <2>2. QED
    BY <2>1
<1>2. CompareRows(p, q, s) = (CHOOSE iter : Recursive(iter))[DOMAIN s]
  BY Zenon DEF CompareRows, KeyStep, FoldLeft, MapThenFoldSet
<1>3. PICK iter \in [SUBSET (1..Len(s)) -> Int] : IsFold(iter, 0, KeySteps(p, q), s)
  BY <1>1, FoldExists
<1>4. \A t \in SUBSET (1..Len(s)) : iter[t] =
        IF t = {} THEN 0 ELSE KeyStep(p, q, iter[t \ {Max(t)}], s[Max(t)])
  BY <1>1, <1>3, FoldMeets DEF IsFold, KeySteps
<1>5. Recursive(iter)
  BY <1>1, <1>3, <1>4
<1>6. PICK fold : Recursive(fold) /\ CompareRows(p, q, s) = fold[1..Len(s)]
  BY <1>1, <1>2, <1>5
<1>7. fold[{}] = 0
  BY <1>6
<1>8. ASSUME NEW m \in 1..Len(s), NEW x \in Int, fold[1..(m - 1)] = x
      PROVE  fold[1..m] = KeySteps(p, q)[<<x, s[m]>>]
  <2>1. fold[1..m] = KeyStep(p, q, fold[(1..m) \ {Max(1..m)}], s[Max(1..m)])
    BY <1>1, <1>6, PositionsBefore
  <2>2. fold[1..m] = KeyStep(p, q, x, s[m])
    BY <1>1, <1>8, <2>1, PositionsBefore
  <2>3. s[m] \in SortKey
    BY <1>1
  <2>4. QED
    BY <2>2, <2>3 DEF KeySteps
<1>9. StepsBy(fold, Int, 0, KeySteps(p, q), s)
  BY <1>7, <1>8 DEF StepsBy
<1>10. OnAll(fold, s) = Folded(Int, 0, KeySteps(p, q), s)
  <2>1. ASSUME NEW D, NEW G, D = Int, G = KeySteps(p, q) PROVE OnAll(fold, s) = Folded(D, 0, G, s)
    <3>1. 0 \in D /\ G \in [D \X SortKey -> D] /\ s \in Seq(SortKey) /\ StepsBy(fold, D, 0, G, s)
      BY <2>1, <1>1, <1>9
    <3>2. QED
      BY ONLY <3>1, FoldComesTo, ZenonT(60)
  <2>2. QED
    BY <2>1
<1>11. QED
  BY <1>6, <1>10 DEF OnAll

\* Key after key.
LEMMA KeysSteps ==
  ASSUME NEW p \in Pairs, NEW q \in Pairs
  PROVE  /\ CompareRows(p, q, <<>>) = 0
         /\ \A s \in Seq(SortKey), v \in SortKey :
              CompareRows(p, q, s) \in Int /\ CompareRows(p, q, Append(s, v)) = KeyStep(p, q, CompareRows(p, q, s), v)
<1>1. <<>> \in Seq(SortKey) /\ 0 \in Int /\ KeySteps(p, q) \in [Int \X SortKey -> Int] /\ Steps(Int, SortKey, 0, KeySteps(p, q))
  <2>1. 0 \in Int /\ KeySteps(p, q) \in [Int \X SortKey -> Int]
    BY KeyTypes, Zenon
  <2>2. <<>> \in Seq(SortKey)
    OBVIOUS
  <2>3. QED
    BY <2>1, <2>2 DEF Steps
<1>2. CompareRows(p, q, <<>>) = 0
  <2>1. Folded(Int, 0, KeySteps(p, q), <<>>) = 0
    BY <1>1, FoldedEmpty
  <2>2. QED
    BY <1>1, <2>1, KeysFold
<1>3. ASSUME NEW s \in Seq(SortKey), NEW v \in SortKey
      PROVE  CompareRows(p, q, s) \in Int /\ CompareRows(p, q, Append(s, v)) = KeyStep(p, q, CompareRows(p, q, s), v)
  <2>1. Append(s, v) \in Seq(SortKey)
    OBVIOUS
  <2>2. Folded(Int, 0, KeySteps(p, q), s) \in Int
    BY <1>1, <2>1, FoldedIs
  <2>3. Folded(Int, 0, KeySteps(p, q), Append(s, v)) = KeySteps(p, q)[<<Folded(Int, 0, KeySteps(p, q), s), v>>]
    BY <1>1, <2>1, FoldedStep
  <2>4. CompareRows(p, q, s) = Folded(Int, 0, KeySteps(p, q), s) /\ CompareRows(p, q, Append(s, v)) = Folded(Int, 0, KeySteps(p, q), Append(s, v))
    BY <2>1, KeysFold
  <2>5. QED
    BY <2>2, <2>3, <2>4 DEF KeySteps
<1>4. QED
  BY <1>2, <1>3

-----------------------------------------------------------------------------
\* The order of ORDER BY in one direction.
Toward(desc, u, v) == IF desc THEN Leq(v, u) ELSE Leq(u, v)

\* It is what orderCompare says, and a total preorder.
LEMMA TowardIs ==
  ASSUME NEW desc \in BOOLEAN
  PROVE  /\ \A u, v \in Value : /\ OrderCompare(u, v, desc) \in Int
                                /\ OrderCompare(u, v, desc) <= 0 <=> Toward(desc, u, v)
                                /\ OrderCompare(u, v, desc) >= 0 <=> Toward(desc, v, u)
                                /\ ValsEqual(u, v) <=> Toward(desc, u, v) /\ Toward(desc, v, u)
         /\ \A u, v, w \in Value : /\ Toward(desc, u, u)
                                   /\ Toward(desc, u, v) \/ Toward(desc, v, u)
                                   /\ Toward(desc, u, v) /\ Toward(desc, v, w) => Toward(desc, u, w)
<1>1. ASSUME NEW u \in Value, NEW v \in Value
      PROVE  /\ OrderCompare(u, v, desc) \in Int
             /\ OrderCompare(u, v, desc) <= 0 <=> Toward(desc, u, v)
             /\ OrderCompare(u, v, desc) >= 0 <=> Toward(desc, v, u)
             /\ ValsEqual(u, v) <=> Toward(desc, u, v) /\ Toward(desc, v, u)
  <2>1. OrderCompare(u, v, desc) \in Int
    BY Compared
  <2>2. CASE desc = TRUE
    BY <2>1, <2>2, KeysOrder DEF Toward, Desc
  <2>3. CASE desc = FALSE
    BY <2>1, <2>3, KeysOrder DEF Toward, Asc
  <2>4. QED
    BY <2>2, <2>3
<1>2. ASSUME NEW u \in Value, NEW v \in Value, NEW w \in Value
      PROVE  /\ Toward(desc, u, u)
             /\ Toward(desc, u, v) \/ Toward(desc, v, u)
             /\ Toward(desc, u, v) /\ Toward(desc, v, w) => Toward(desc, u, w)
  <2>1. \A x, y, z \in Value : /\ Leq(x, x)
                               /\ Leq(x, y) \/ Leq(y, x)
                               /\ Leq(x, y) /\ Leq(y, z) => Leq(x, z)
    BY Preorder
  <2>2. QED
    BY <2>1 DEF Toward
<1>3. QED
  BY <1>1, <1>2

\* The keys of a query that sorts by both columns of its rows.
BothKeys(desc) == <<[position |-> 1, desc |-> desc], [position |-> 2, desc |-> ~desc]>>

\* sortRowsByKeys compares rows by the first, and by the second where they are equal in the first.
LEMMA RowsCompared ==
  ASSUME NEW desc \in BOOLEAN, NEW p \in Pairs, NEW q \in Pairs
  PROVE  CompareRows(p, q, BothKeys(desc)) >= 0 <=> Precedes(q, p, desc)
<1> DEFINE k1 == [position |-> 1, desc |-> desc]
           k2 == [position |-> 2, desc |-> ~desc]
           c == OrderCompare(p[1], q[1], desc)
           d == OrderCompare(p[2], q[2], ~desc)
<1>1. k1 \in SortKey /\ k2 \in SortKey /\ <<>> \in Seq(SortKey)
  BY DEF SortKey
<1>2. <<k1>> \in Seq(SortKey) /\ <<k1>> = Append(<<>>, k1) /\ BothKeys(desc) = Append(<<k1>>, k2)
  BY <1>1 DEF BothKeys
<1>3. CompareRows(p, q, <<>>) = 0
  BY KeysSteps
<1>4. CompareRows(p, q, <<k1>>) = KeyStep(p, q, 0, k1)
  <2> HIDE DEF k1
  <2>1. \A s \in Seq(SortKey), v \in SortKey :
           CompareRows(p, q, Append(s, v)) = KeyStep(p, q, CompareRows(p, q, s), v)
    BY KeysSteps
  <2>2. CompareRows(p, q, Append(<<>>, k1)) = KeyStep(p, q, CompareRows(p, q, <<>>), k1)
    BY <1>1, <2>1
  <2>3. QED
    BY <1>2, <1>3, <2>2
<1>5. CompareRows(p, q, BothKeys(desc)) = KeyStep(p, q, CompareRows(p, q, <<k1>>), k2)
  <2> HIDE DEF k1, k2
  <2>1. QED
    BY <1>1, <1>2, KeysSteps
<1>6. CompareRows(p, q, BothKeys(desc)) = IF c # 0 THEN c ELSE d
  BY <1>4, <1>5 DEF KeyStep
<1>7. p[1] \in Value /\ p[2] \in Value /\ q[1] \in Value /\ q[2] \in Value /\ (~desc) \in BOOLEAN
  BY DEF Pairs
<1> DEFINE e == OrderCompare(q[1], p[1], desc)
           f == OrderCompare(q[2], p[2], ~desc)
<1>8. /\ c \in Int /\ e \in Int /\ (c <= 0 <=> e >= 0) /\ (c >= 0 <=> e <= 0)
      /\ d \in Int /\ f \in Int /\ (d >= 0 <=> f <= 0)
  <2>1. /\ c \in Int /\ e \in Int /\ (c <= 0 <=> Toward(desc, p[1], q[1])) /\ (c >= 0 <=> Toward(desc, q[1], p[1]))
        /\ (e <= 0 <=> Toward(desc, q[1], p[1])) /\ (e >= 0 <=> Toward(desc, p[1], q[1]))
    BY <1>7, TowardIs
  <2>2. /\ d \in Int /\ f \in Int /\ (d >= 0 <=> Toward(~desc, q[2], p[2]))
        /\ (f <= 0 <=> Toward(~desc, q[2], p[2]))
    BY <1>7, TowardIs
  <2>3. QED
    BY <2>1, <2>2
<1>9. Precedes(q, p, desc) <=> e < 0 \/ (e = 0 /\ f <= 0)
  BY DEF Precedes
<1> HIDE DEF c, d, e, f
<1>10. QED
  BY <1>6, <1>8, <1>9

\* The order of rows as a relation.
PairOrder(desc) == {x \in Pairs \X Pairs : Precedes(x[1], x[2], desc)}

\* It is a total preorder, in which equal rows are not told apart.
LEMMA PairPreorder ==
  ASSUME NEW desc \in BOOLEAN
  PROVE  /\ \A p, q \in Pairs : <<p, q>> \in PairOrder(desc) <=> Precedes(p, q, desc)
         /\ TotalPreorder(PairOrder(desc), Pairs)
         /\ \A p, q \in Pairs : ValsEqual(p[1], q[1]) /\ ValsEqual(p[2], q[2]) => <<p, q>> \in PairOrder(desc)
<1>1. \A p, q \in Pairs : <<p, q>> \in PairOrder(desc) <=> Precedes(p, q, desc)
  BY DEF PairOrder
<1>2. \A p \in Pairs : p[1] \in Value /\ p[2] \in Value
  BY DEF Pairs
<1>3. (~desc) \in BOOLEAN
  OBVIOUS
<1>4. ASSUME NEW p \in Pairs, NEW q \in Pairs
      PROVE  Precedes(p, q, desc) <=> \/ ~Toward(desc, q[1], p[1])
                                      \/ /\ Toward(desc, p[1], q[1]) /\ Toward(desc, q[1], p[1])
                                         /\ Toward(~desc, p[2], q[2])
  <2> DEFINE c == OrderCompare(p[1], q[1], desc)
             d == OrderCompare(p[2], q[2], ~desc)
  <2>1. /\ c \in Int /\ (c <= 0 <=> Toward(desc, p[1], q[1])) /\ (c >= 0 <=> Toward(desc, q[1], p[1]))
        /\ (d <= 0 <=> Toward(~desc, p[2], q[2]))
    BY <1>2, <1>3, TowardIs
  <2>2. Precedes(p, q, desc) <=> c < 0 \/ (c = 0 /\ d <= 0)
    BY DEF Precedes
  <2> HIDE DEF c, d
  <2>3. QED
    BY <2>1, <2>2
<1>5. TotalPreorder(PairOrder(desc), Pairs)
  <2>1. SUFFICES ASSUME NEW p \in Pairs, NEW q \in Pairs, NEW r \in Pairs
                 PROVE  /\ Precedes(p, p, desc)
                        /\ Precedes(p, q, desc) \/ Precedes(q, p, desc)
                        /\ Precedes(p, q, desc) /\ Precedes(q, r, desc) => Precedes(p, r, desc)
    BY <1>1 DEF TotalPreorder
  <2>2. /\ p[1] \in Value /\ q[1] \in Value /\ r[1] \in Value
        /\ p[2] \in Value /\ q[2] \in Value /\ r[2] \in Value
    BY <1>2
  <2>3. \A u, v, w \in Value : /\ Toward(desc, u, u)
                               /\ Toward(desc, u, v) \/ Toward(desc, v, u)
                               /\ Toward(desc, u, v) /\ Toward(desc, v, w) => Toward(desc, u, w)
    BY TowardIs
  <2>4. \A u, v, w \in Value : /\ Toward(~desc, u, u)
                               /\ Toward(~desc, u, v) \/ Toward(~desc, v, u)
                               /\ Toward(~desc, u, v) /\ Toward(~desc, v, w) => Toward(~desc, u, w)
    BY <1>3, TowardIs
  <2>5. Precedes(p, p, desc) /\ (Precedes(p, q, desc) \/ Precedes(q, p, desc))
    BY <1>4, <2>2, <2>3, <2>4
  <2>6. ASSUME Precedes(p, q, desc), Precedes(q, r, desc) PROVE Precedes(p, r, desc)
    <3>1. Toward(desc, p[1], q[1]) /\ Toward(desc, q[1], r[1]) /\ Toward(desc, p[1], r[1])
      BY <1>4, <2>2, <2>3, <2>6
    <3>2. CASE Toward(desc, r[1], p[1])
      <4>1. Toward(desc, q[1], p[1]) /\ Toward(desc, r[1], q[1])
        BY <2>2, <2>3, <3>1, <3>2
      <4>2. Toward(~desc, p[2], q[2]) /\ Toward(~desc, q[2], r[2])
        BY <1>4, <2>6, <4>1
      <4>3. QED
        BY <1>4, <2>2, <2>4, <3>1, <3>2, <4>2
    <3>3. CASE ~Toward(desc, r[1], p[1])
      BY <1>4, <3>3
    <3>4. QED
      BY <3>2, <3>3
  <2>7. QED
    BY <2>5, <2>6
<1>6. ASSUME NEW p \in Pairs, NEW q \in Pairs, ValsEqual(p[1], q[1]), ValsEqual(p[2], q[2])
      PROVE  <<p, q>> \in PairOrder(desc)
  <2>1. Toward(desc, p[1], q[1]) /\ Toward(desc, q[1], p[1]) /\ Toward(~desc, p[2], q[2])
    BY <1>2, <1>3, <1>6, TowardIs
  <2>2. QED
    BY <1>1, <1>4, <2>1
<1>7. QED
  BY <1>1, <1>5, <1>6

-----------------------------------------------------------------------------
\* ORDER BY with both keys, row by row.
SortPlace(desc, sorted, r) == Cardinality({j \in DOMAIN sorted : CompareRows(r, sorted[j], BothKeys(desc)) >= 0})
SortStep(desc, sorted, r) == InsertAt(sorted, SortPlace(desc, sorted, r) + 1, r)
Sortings(desc) == [x \in Seq(Pairs) \X Pairs |-> SortStep(desc, x[1], x[2])]
SortBoth(desc, s) == SortRowsByKeys(s, BothKeys(desc))

\* A row goes behind those that it does not precede, and the rows stay rows.
LEMMA SortTypes ==
  ASSUME NEW desc \in BOOLEAN
  PROVE  /\ <<>> \in Seq(Pairs) /\ Sortings(desc) \in [Seq(Pairs) \X Pairs -> Seq(Pairs)]
         /\ Steps(Seq(Pairs), Pairs, <<>>, Sortings(desc))
         /\ \A s \in Seq(Pairs), r \in Pairs : SortPlace(desc, s, r) = Place(PairOrder(desc), s, r)
<1>1. ASSUME NEW s \in Seq(Pairs), NEW r \in Pairs
      PROVE  SortPlace(desc, s, r) = Place(PairOrder(desc), s, r) /\ SortPlace(desc, s, r) \in 0..Len(s)
  <2> DEFINE T == {j \in DOMAIN s : CompareRows(r, s[j], BothKeys(desc)) >= 0}
  <2>1. Len(s) \in Nat /\ DOMAIN s = 1..Len(s) /\ \A j \in 1..Len(s) : s[j] \in Pairs
    OBVIOUS
  <2>2. \A p \in Pairs : CompareRows(r, p, BothKeys(desc)) >= 0 <=> <<p, r>> \in PairOrder(desc)
    BY RowsCompared, PairPreorder
  <2>3. T = {j \in 1..Len(s) : <<s[j], r>> \in PairOrder(desc)}
    BY <2>1, <2>2
  <2>4. T \in SUBSET (1..Len(s))
    BY <2>1
  <2>5. SortPlace(desc, s, r) = Cardinality(T)
    BY DEF SortPlace
  <2> HIDE DEF T
  <2>6. IsFiniteSet(1..Len(s)) /\ Cardinality(1..Len(s)) = Len(s)
    BY <2>1, FS_Interval
  <2>7. IsFiniteSet(T) /\ Cardinality(T) <= Len(s)
    BY <2>4, <2>6, FS_Subset
  <2>8. Cardinality(T) \in Nat
    BY <2>7, FS_CardinalityType
  <2>9. QED
    BY <2>1, <2>3, <2>5, <2>7, <2>8 DEF Place
<1>2. ASSUME NEW s \in Seq(Pairs), NEW r \in Pairs PROVE SortStep(desc, s, r) \in Seq(Pairs)
  <2>1. SortPlace(desc, s, r) \in 0..Len(s)
    BY <1>1
  <2>2. \A k \in 0..Len(s) : InsertAt(s, k + 1, r) \in Seq(Pairs)
    BY InsertedIn
  <2>3. QED
    BY <2>1, <2>2 DEF SortStep
<1>3. <<>> \in Seq(Pairs)
  OBVIOUS
<1>4. QED
  BY <1>1, <1>2, <1>3 DEF Sortings, Steps

\* As FoldLeft computes it.
LEMMA SortFold == ASSUME NEW desc \in BOOLEAN, NEW s \in Seq(Pairs) PROVE SortBoth(desc, s) = Folded(Seq(Pairs), <<>>, Sortings(desc), s)
<1> DEFINE Recursive(iter) == iter = [t \in SUBSET (DOMAIN s) |->
             IF t = {} THEN <<>> ELSE SortStep(desc, iter[t \ {Max(t)}], s[Max(t)])]
<1>1. /\ Len(s) \in Nat /\ DOMAIN s = 1..Len(s)
      /\ <<>> \in Seq(Pairs) /\ Sortings(desc) \in [Seq(Pairs) \X Pairs -> Seq(Pairs)]
  <2>1. Sortings(desc) \in [Seq(Pairs) \X Pairs -> Seq(Pairs)]
    BY SortTypes, Zenon
  <2>2. QED
    BY <2>1
<1>2. SortBoth(desc, s) = (CHOOSE iter : Recursive(iter))[DOMAIN s]
  BY Zenon DEF SortBoth, SortRowsByKeys, SortStep, SortPlace, FoldLeft, MapThenFoldSet
<1>3. PICK iter \in [SUBSET (1..Len(s)) -> Seq(Pairs)] : IsFold(iter, <<>>, Sortings(desc), s)
  BY <1>1, FoldExists
<1>4. \A t \in SUBSET (1..Len(s)) : iter[t] =
        IF t = {} THEN <<>> ELSE SortStep(desc, iter[t \ {Max(t)}], s[Max(t)])
  BY <1>1, <1>3, FoldMeets DEF IsFold, Sortings
<1>5. Recursive(iter)
  BY <1>1, <1>3, <1>4
<1>6. PICK fold : Recursive(fold) /\ SortBoth(desc, s) = fold[1..Len(s)]
  BY <1>1, <1>2, <1>5
<1>7. fold[{}] = <<>>
  BY <1>6
<1>8. ASSUME NEW m \in 1..Len(s), NEW x \in Seq(Pairs), fold[1..(m - 1)] = x
      PROVE  fold[1..m] = Sortings(desc)[<<x, s[m]>>]
  <2>1. fold[1..m] = SortStep(desc, fold[(1..m) \ {Max(1..m)}], s[Max(1..m)])
    BY <1>1, <1>6, PositionsBefore
  <2>2. fold[1..m] = SortStep(desc, x, s[m])
    BY <1>1, <1>8, <2>1, PositionsBefore
  <2>3. s[m] \in Pairs
    BY <1>1
  <2>4. QED
    BY <2>2, <2>3 DEF Sortings
<1>9. StepsBy(fold, Seq(Pairs), <<>>, Sortings(desc), s)
  BY <1>7, <1>8 DEF StepsBy
<1>10. OnAll(fold, s) = Folded(Seq(Pairs), <<>>, Sortings(desc), s)
  <2>1. ASSUME NEW D, NEW G, D = Seq(Pairs), G = Sortings(desc) PROVE OnAll(fold, s) = Folded(D, <<>>, G, s)
    <3>1. <<>> \in D /\ G \in [D \X Pairs -> D] /\ s \in Seq(Pairs) /\ StepsBy(fold, D, <<>>, G, s)
      BY <2>1, <1>1, <1>9
    <3>2. QED
      BY ONLY <3>1, FoldComesTo, ZenonT(60)
  <2>2. QED
    BY <2>1
<1>11. QED
  BY <1>6, <1>10 DEF OnAll

\* Row after row.
LEMMA SortSteps ==
  ASSUME NEW desc \in BOOLEAN
  PROVE  /\ SortBoth(desc, <<>>) = <<>>
         /\ \A s \in Seq(Pairs), v \in Pairs :
              SortBoth(desc, s) \in Seq(Pairs) /\ SortBoth(desc, Append(s, v)) = SortStep(desc, SortBoth(desc, s), v)
<1>1. <<>> \in Seq(Pairs) /\ <<>> \in Seq(Pairs) /\ Sortings(desc) \in [Seq(Pairs) \X Pairs -> Seq(Pairs)] /\ Steps(Seq(Pairs), Pairs, <<>>, Sortings(desc))
  BY SortTypes
<1>2. SortBoth(desc, <<>>) = <<>>
  <2>1. Folded(Seq(Pairs), <<>>, Sortings(desc), <<>>) = <<>>
    BY <1>1, FoldedEmpty
  <2>2. QED
    BY <1>1, <2>1, SortFold
<1>3. ASSUME NEW s \in Seq(Pairs), NEW v \in Pairs
      PROVE  SortBoth(desc, s) \in Seq(Pairs) /\ SortBoth(desc, Append(s, v)) = SortStep(desc, SortBoth(desc, s), v)
  <2>1. Append(s, v) \in Seq(Pairs)
    OBVIOUS
  <2>2. Folded(Seq(Pairs), <<>>, Sortings(desc), s) \in Seq(Pairs)
    BY <1>1, <2>1, FoldedIs
  <2>3. Folded(Seq(Pairs), <<>>, Sortings(desc), Append(s, v)) = Sortings(desc)[<<Folded(Seq(Pairs), <<>>, Sortings(desc), s), v>>]
    BY <1>1, <2>1, FoldedStep
  <2>4. SortBoth(desc, s) = Folded(Seq(Pairs), <<>>, Sortings(desc), s) /\ SortBoth(desc, Append(s, v)) = Folded(Seq(Pairs), <<>>, Sortings(desc), Append(s, v))
    BY <2>1, SortFold
  <2>5. QED
    BY <2>2, <2>3, <2>4 DEF Sortings
<1>4. QED
  BY <1>2, <1>3

\* Rows that belong together: equal to the row r in every column.
Class2(r) == {p \in Pairs : ValsEqual(p[1], r[1]) /\ ValsEqual(p[2], r[2])}

\* What ORDER BY makes of rows of two columns: they are in order, and stably so.
Settled(desc, s) ==
  /\ SortBoth(desc, s) \in Seq(Pairs) /\ Len(SortBoth(desc, s)) = Len(s)
  /\ InOrder(PairOrder(desc), SortBoth(desc, s))
  /\ \A r \in Pairs : Chosen(SortBoth(desc, s), Class2(r)) = Chosen(s, Class2(r))

\* Rows equal to the same row are equal, and so in order.
LEMMA Classes ==
  ASSUME NEW desc \in BOOLEAN, NEW r \in Pairs
  PROVE  \A p, q \in Class2(r) : <<p, q>> \in PairOrder(desc)
<1>1. SUFFICES ASSUME NEW p \in Class2(r), NEW q \in Class2(r) PROVE <<p, q>> \in PairOrder(desc)
  OBVIOUS
<1>2. /\ p \in Pairs /\ ValsEqual(p[1], r[1]) /\ ValsEqual(p[2], r[2])
      /\ q \in Pairs /\ ValsEqual(q[1], r[1]) /\ ValsEqual(q[2], r[2])
  BY DEF Class2
<1>3. \A x \in Pairs : x[1] \in Value /\ x[2] \in Value
  BY DEF Pairs
<1>4. \A u, v, w \in Value : ValsEqual(u, w) /\ ValsEqual(v, w) => ValsEqual(u, v)
  <2>1. SUFFICES ASSUME NEW u \in Value, NEW v \in Value, NEW w \in Value, ValsEqual(u, w), ValsEqual(v, w)
                 PROVE  ValsEqual(u, v)
    OBVIOUS
  <2>2. Leq(u, w) /\ Leq(w, u) /\ Leq(v, w) /\ Leq(w, v)
    BY <2>1, KeysOrder
  <2>3. Leq(u, v) /\ Leq(v, u)
    BY <2>2, Preorder
  <2>4. QED
    BY <2>3, KeysOrder
<1>5. ValsEqual(p[1], q[1]) /\ ValsEqual(p[2], q[2])
  BY <1>2, <1>3, <1>4
<1>6. QED
  BY <1>2, <1>5, PairPreorder

\* One row more.
LEMMA SettledStep ==
  ASSUME NEW desc \in BOOLEAN, NEW s \in Seq(Pairs), NEW r \in Pairs, Settled(desc, s)
  PROVE  Settled(desc, Append(s, r))
<1> DEFINE a == SortBoth(desc, s)
           R == PairOrder(desc)
<1>1. /\ a \in Seq(Pairs) /\ Len(a) = Len(s) /\ Len(s) \in Nat /\ InOrder(R, a)
      /\ Append(s, r) \in Seq(Pairs) /\ Len(Append(s, r)) = Len(s) + 1
      /\ \A q \in Pairs : Chosen(a, Class2(q)) = Chosen(s, Class2(q))
  BY DEF Settled
<1>2. SortBoth(desc, Append(s, r)) = SortStep(desc, a, r) /\ TotalPreorder(R, Pairs)
  BY SortSteps, PairPreorder
<1>3. SortStep(desc, a, r) = InsertAt(a, Place(R, a, r) + 1, r)
  BY <1>1, SortTypes DEF SortStep
<1> HIDE DEF a, R
<1>4. /\ InOrder(R, InsertAt(a, Place(R, a, r) + 1, r))
      /\ Len(InsertAt(a, Place(R, a, r) + 1, r)) = Len(a) + 1
  BY <1>1, <1>2, InOrderStepIn
<1>5. InsertAt(a, Place(R, a, r) + 1, r) \in Seq(Pairs)
  <2>1. Place(R, a, r) \in 0..Len(a)
    BY <1>1, <1>2, PlacesIn
  <2>2. \A k \in 0..Len(a) : InsertAt(a, k + 1, r) \in Seq(Pairs)
    BY <1>1, InsertedIn
  <2>3. QED
    BY <2>1, <2>2
<1>6. ASSUME NEW q \in Pairs
      PROVE  Chosen(InsertAt(a, Place(R, a, r) + 1, r), Class2(q)) = Chosen(Append(s, r), Class2(q))
  <2>1. \A u, w \in Class2(q) : <<u, w>> \in R
    BY Classes DEF R
  <2>2. Chosen(InsertAt(a, Place(R, a, r) + 1, r), Class2(q)) = ChosenStep(Class2(q), Chosen(a, Class2(q)), r)
    BY <1>1, <1>2, <2>1, StableIn
  <2>3. Chosen(Append(s, r), Class2(q)) = ChosenStep(Class2(q), Chosen(s, Class2(q)), r)
    BY ChosenSteps
  <2>4. QED
    BY <1>1, <2>2, <2>3
<1>7. QED
  BY <1>1, <1>2, <1>3, <1>4, <1>5, <1>6 DEF Settled, R

\* For any rows.
LEMMA AlwaysSettled == ASSUME NEW desc \in BOOLEAN, NEW s \in Seq(Pairs) PROVE Settled(desc, s)
<1> DEFINE S == {t \in Seq(Pairs) : Settled(desc, t)}
<1>1. <<>> \in S
  <2>1. SortBoth(desc, <<>>) = <<>> /\ <<>> \in Seq(Pairs)
    BY SortSteps
  <2>2. InOrder(PairOrder(desc), <<>>)
    BY DEF InOrder
  <2>3. QED
    BY <2>1, <2>2 DEF Settled
<1>2. \A t \in Seq(Pairs), r \in Pairs : t \in S => Append(t, r) \in S
  BY SettledStep
<1>3. Seq(Pairs) \subseteq S
  <2> HIDE DEF S
  <2>1. QED
    BY <1>1, <1>2, ByAppend
<1>4. QED
  BY <1>3

-----------------------------------------------------------------------------
\* DISTINCT on rows, row by row.
DedupRowStep(kept, r) ==
  IF \E j \in DOMAIN kept : \A k \in DOMAIN r : ValsEqual(kept[j][k], r[k]) THEN kept ELSE Append(kept, r)
DedupRowSteps == [x \in Seq(Pairs) \X Pairs |-> DedupRowStep(x[1], x[2])]

\* The rows stay rows.
LEMMA DedupRowTypes == /\ <<>> \in Seq(Pairs) /\ DedupRowSteps \in [Seq(Pairs) \X Pairs -> Seq(Pairs)]
                       /\ Steps(Seq(Pairs), Pairs, <<>>, DedupRowSteps)
<1>1. ASSUME NEW s \in Seq(Pairs), NEW r \in Pairs PROVE DedupRowStep(s, r) \in Seq(Pairs)
  BY DEF DedupRowStep
<1>2. <<>> \in Seq(Pairs)
  OBVIOUS
<1>3. QED
  BY <1>1, <1>2 DEF DedupRowSteps, Steps

\* As FoldLeft computes it.
LEMMA DedupRowFold == ASSUME NEW s \in Seq(Pairs) PROVE DedupRows(s) = Folded(Seq(Pairs), <<>>, DedupRowSteps, s)
<1> DEFINE Recursive(iter) == iter = [t \in SUBSET (DOMAIN s) |->
             IF t = {} THEN <<>> ELSE DedupRowStep(iter[t \ {Max(t)}], s[Max(t)])]
<1>1. /\ Len(s) \in Nat /\ DOMAIN s = 1..Len(s)
      /\ <<>> \in Seq(Pairs) /\ DedupRowSteps \in [Seq(Pairs) \X Pairs -> Seq(Pairs)]
  BY DedupRowTypes
<1>2. DedupRows(s) = (CHOOSE iter : Recursive(iter))[DOMAIN s]
  BY Zenon DEF DedupRows, DedupRowStep, FoldLeft, MapThenFoldSet
<1>3. PICK iter \in [SUBSET (1..Len(s)) -> Seq(Pairs)] : IsFold(iter, <<>>, DedupRowSteps, s)
  BY <1>1, FoldExists
<1>4. \A t \in SUBSET (1..Len(s)) : iter[t] =
        IF t = {} THEN <<>> ELSE DedupRowStep(iter[t \ {Max(t)}], s[Max(t)])
  BY <1>1, <1>3, FoldMeets DEF IsFold, DedupRowSteps
<1>5. Recursive(iter)
  BY <1>1, <1>3, <1>4
<1>6. PICK fold : Recursive(fold) /\ DedupRows(s) = fold[1..Len(s)]
  BY <1>1, <1>2, <1>5
<1>7. fold[{}] = <<>>
  BY <1>6
<1>8. ASSUME NEW m \in 1..Len(s), NEW x \in Seq(Pairs), fold[1..(m - 1)] = x
      PROVE  fold[1..m] = DedupRowSteps[<<x, s[m]>>]
  <2>1. fold[1..m] = DedupRowStep(fold[(1..m) \ {Max(1..m)}], s[Max(1..m)])
    BY <1>1, <1>6, PositionsBefore
  <2>2. fold[1..m] = DedupRowStep(x, s[m])
    BY <1>1, <1>8, <2>1, PositionsBefore
  <2>3. s[m] \in Pairs
    BY <1>1
  <2>4. QED
    BY <2>2, <2>3 DEF DedupRowSteps
<1>9. StepsBy(fold, Seq(Pairs), <<>>, DedupRowSteps, s)
  BY <1>7, <1>8 DEF StepsBy
<1>10. OnAll(fold, s) = Folded(Seq(Pairs), <<>>, DedupRowSteps, s)
  <2>1. ASSUME NEW D, NEW G, D = Seq(Pairs), G = DedupRowSteps PROVE OnAll(fold, s) = Folded(D, <<>>, G, s)
    <3>1. <<>> \in D /\ G \in [D \X Pairs -> D] /\ s \in Seq(Pairs) /\ StepsBy(fold, D, <<>>, G, s)
      BY <2>1, <1>1, <1>9
    <3>2. QED
      BY ONLY <3>1, FoldComesTo, ZenonT(60)
  <2>2. QED
    BY <2>1
<1>11. QED
  BY <1>6, <1>10 DEF OnAll

\* Row after row.
LEMMA DedupRowByRow ==
  /\ DedupRows(<<>>) = <<>>
  /\ \A s \in Seq(Pairs), v \in Pairs :
       DedupRows(s) \in Seq(Pairs) /\ DedupRows(Append(s, v)) = DedupRowStep(DedupRows(s), v)
<1>1. <<>> \in Seq(Pairs) /\ <<>> \in Seq(Pairs) /\ DedupRowSteps \in [Seq(Pairs) \X Pairs -> Seq(Pairs)] /\ Steps(Seq(Pairs), Pairs, <<>>, DedupRowSteps)
  BY DedupRowTypes
<1>2. DedupRows(<<>>) = <<>>
  <2>1. Folded(Seq(Pairs), <<>>, DedupRowSteps, <<>>) = <<>>
    BY <1>1, FoldedEmpty
  <2>2. QED
    BY <1>1, <2>1, DedupRowFold
<1>3. ASSUME NEW s \in Seq(Pairs), NEW v \in Pairs
      PROVE  DedupRows(s) \in Seq(Pairs) /\ DedupRows(Append(s, v)) = DedupRowStep(DedupRows(s), v)
  <2>1. Append(s, v) \in Seq(Pairs)
    OBVIOUS
  <2>2. Folded(Seq(Pairs), <<>>, DedupRowSteps, s) \in Seq(Pairs)
    BY <1>1, <2>1, FoldedIs
  <2>3. Folded(Seq(Pairs), <<>>, DedupRowSteps, Append(s, v)) = DedupRowSteps[<<Folded(Seq(Pairs), <<>>, DedupRowSteps, s), v>>]
    BY <1>1, <2>1, FoldedStep
  <2>4. DedupRows(s) = Folded(Seq(Pairs), <<>>, DedupRowSteps, s) /\ DedupRows(Append(s, v)) = Folded(Seq(Pairs), <<>>, DedupRowSteps, Append(s, v))
    BY <2>1, DedupRowFold
  <2>5. QED
    BY <2>2, <2>3, <2>4 DEF DedupRowSteps
<1>4. QED
  BY <1>2, <1>3

\* DISTINCT makes no rows.
LEMMA Fewer == ASSUME NEW s \in Seq(Pairs) PROVE DedupRows(s) \in Seq(Pairs) /\ Len(DedupRows(s)) <= Len(s)
<1> DEFINE S == {t \in Seq(Pairs) : DedupRows(t) \in Seq(Pairs) /\ Len(DedupRows(t)) <= Len(t)}
<1>1. <<>> \in S
  <2>1. DedupRows(<<>>) = <<>> /\ <<>> \in Seq(Pairs)
    BY DedupRowByRow
  <2>2. Len(<<>>) <= Len(<<>>)
    OBVIOUS
  <2>3. QED
    BY <2>1, <2>2
<1>2. ASSUME NEW t \in Seq(Pairs), NEW r \in Pairs, t \in S PROVE Append(t, r) \in S
  <2>1. DedupRows(Append(t, r)) = DedupRowStep(DedupRows(t), r)
    BY DedupRowByRow
  <2>2. Append(t, r) \in Seq(Pairs) /\ Len(Append(t, r)) = Len(t) + 1 /\ Len(t) \in Nat
    OBVIOUS
  <2>3. \/ DedupRows(Append(t, r)) = DedupRows(t)
        \/ DedupRows(Append(t, r)) = Append(DedupRows(t), r)
    BY <2>1 DEF DedupRowStep
  <2>4. DedupRows(t) \in Seq(Pairs) /\ Len(DedupRows(t)) <= Len(t)
    BY <1>2
  <2>5. \A u \in Seq(Pairs) : Append(u, r) \in Seq(Pairs) /\ Len(Append(u, r)) = Len(u) + 1 /\ Len(u) \in Nat
    OBVIOUS
  <2>6. DedupRows(Append(t, r)) \in Seq(Pairs) /\ Len(DedupRows(Append(t, r))) <= Len(t) + 1
    <3>1. CASE DedupRows(Append(t, r)) = DedupRows(t)
      <4>1. DedupRows(Append(t, r)) \in Seq(Pairs) /\ Len(DedupRows(Append(t, r))) <= Len(t)
        BY <2>4, <3>1
      <4>2. QED
        BY <2>2, <2>5, <4>1
    <3>2. CASE DedupRows(Append(t, r)) = Append(DedupRows(t), r)
      <4>1. /\ DedupRows(Append(t, r)) \in Seq(Pairs) /\ Len(DedupRows(t)) \in Nat
            /\ Len(DedupRows(Append(t, r))) = Len(DedupRows(t)) + 1
        BY <2>4, <2>5, <3>2
      <4>2. QED
        BY <2>2, <2>4, <4>1
    <3>3. QED
      BY <2>3, <3>1, <3>2
  <2>7. QED
    BY <2>2, <2>6
<1>3. Seq(Pairs) \subseteq S
  <2> HIDE DEF S
  <2>1. QED
    BY <1>1, <1>2, ByAppend
<1>4. QED
  BY <1>3

-----------------------------------------------------------------------------
\* Pages one behind the other, page by page.
JoinStep(whole, part) == whole \o part
JoinSteps(E) == [x \in Seq(E) \X Seq(E) |-> JoinStep(x[1], x[2])]

\* Sequences of rows are put behind each other.
LEMMA JoinTypes == ASSUME NEW E
                   PROVE  /\ <<>> \in Seq(E) /\ JoinSteps(E) \in [Seq(E) \X Seq(E) -> Seq(E)]
                          /\ Steps(Seq(E), Seq(E), <<>>, JoinSteps(E))
<1>1. ASSUME NEW a \in Seq(E), NEW b \in Seq(E) PROVE JoinStep(a, b) \in Seq(E)
  BY ConcatProperties DEF JoinStep
<1>2. <<>> \in Seq(E)
  OBVIOUS
<1>3. QED
  BY <1>1, <1>2 DEF JoinSteps, Steps

\* As FoldLeft computes it.
LEMMA JoinFold == ASSUME NEW E, NEW s \in Seq(Seq(E)) PROVE Joined(s) = Folded(Seq(E), <<>>, JoinSteps(E), s)
<1> DEFINE Recursive(iter) == iter = [t \in SUBSET (DOMAIN s) |->
             IF t = {} THEN <<>> ELSE JoinStep(iter[t \ {Max(t)}], s[Max(t)])]
<1>1. /\ Len(s) \in Nat /\ DOMAIN s = 1..Len(s)
      /\ <<>> \in Seq(E) /\ JoinSteps(E) \in [Seq(E) \X Seq(E) -> Seq(E)]
  <2>1. JoinSteps(E) \in [Seq(E) \X Seq(E) -> Seq(E)]
    BY JoinTypes, Zenon
  <2>2. QED
    BY <2>1
<1>2. Joined(s) = (CHOOSE iter : Recursive(iter))[DOMAIN s]
  BY Zenon DEF Joined, JoinStep, FoldLeft, MapThenFoldSet
<1>3. PICK iter \in [SUBSET (1..Len(s)) -> Seq(E)] : IsFold(iter, <<>>, JoinSteps(E), s)
  BY <1>1, FoldExists
<1>4. \A t \in SUBSET (1..Len(s)) : iter[t] =
        IF t = {} THEN <<>> ELSE JoinStep(iter[t \ {Max(t)}], s[Max(t)])
  BY <1>1, <1>3, FoldMeets DEF IsFold, JoinSteps
<1>5. Recursive(iter)
  BY <1>1, <1>3, <1>4
<1>6. PICK fold : Recursive(fold) /\ Joined(s) = fold[1..Len(s)]
  BY <1>1, <1>2, <1>5
<1>7. fold[{}] = <<>>
  BY <1>6
<1>8. ASSUME NEW m \in 1..Len(s), NEW x \in Seq(E), fold[1..(m - 1)] = x
      PROVE  fold[1..m] = JoinSteps(E)[<<x, s[m]>>]
  <2>1. fold[1..m] = JoinStep(fold[(1..m) \ {Max(1..m)}], s[Max(1..m)])
    BY <1>1, <1>6, PositionsBefore
  <2>2. fold[1..m] = JoinStep(x, s[m])
    BY <1>1, <1>8, <2>1, PositionsBefore
  <2>3. s[m] \in Seq(E)
    BY <1>1
  <2>4. QED
    BY <2>2, <2>3 DEF JoinSteps
<1>9. StepsBy(fold, Seq(E), <<>>, JoinSteps(E), s)
  BY <1>7, <1>8 DEF StepsBy
<1>10. OnAll(fold, s) = Folded(Seq(E), <<>>, JoinSteps(E), s)
  <2>1. ASSUME NEW D, NEW G, D = Seq(E), G = JoinSteps(E) PROVE OnAll(fold, s) = Folded(D, <<>>, G, s)
    <3>1. <<>> \in D /\ G \in [D \X Seq(E) -> D] /\ s \in Seq(Seq(E)) /\ StepsBy(fold, D, <<>>, G, s)
      BY <2>1, <1>1, <1>9
    <3>2. QED
      BY ONLY <3>1, FoldComesTo, ZenonT(60)
  <2>2. QED
    BY <2>1
<1>11. QED
  BY <1>6, <1>10 DEF OnAll

\* Page after page.
LEMMA JoinByPage ==
  ASSUME NEW E
  PROVE  /\ Joined(<<>>) = <<>>
         /\ \A s \in Seq(Seq(E)), v \in Seq(E) :
              Joined(s) \in Seq(E) /\ Joined(Append(s, v)) = JoinStep(Joined(s), v)
<1>1. <<>> \in Seq(Seq(E)) /\ <<>> \in Seq(E) /\ JoinSteps(E) \in [Seq(E) \X Seq(E) -> Seq(E)] /\ Steps(Seq(E), Seq(E), <<>>, JoinSteps(E))
  BY JoinTypes
<1>2. Joined(<<>>) = <<>>
  <2>1. Folded(Seq(E), <<>>, JoinSteps(E), <<>>) = <<>>
    BY <1>1, FoldedEmpty
  <2>2. QED
    BY <1>1, <2>1, JoinFold
<1>3. ASSUME NEW s \in Seq(Seq(E)), NEW v \in Seq(E)
      PROVE  Joined(s) \in Seq(E) /\ Joined(Append(s, v)) = JoinStep(Joined(s), v)
  <2>1. Append(s, v) \in Seq(Seq(E))
    OBVIOUS
  <2>2. Folded(Seq(E), <<>>, JoinSteps(E), s) \in Seq(E)
    BY <1>1, <2>1, FoldedIs
  <2>3. Folded(Seq(E), <<>>, JoinSteps(E), Append(s, v)) = JoinSteps(E)[<<Folded(Seq(E), <<>>, JoinSteps(E), s), v>>]
    BY <1>1, <2>1, FoldedStep
  <2>4. Joined(s) = Folded(Seq(E), <<>>, JoinSteps(E), s) /\ Joined(Append(s, v)) = Folded(Seq(E), <<>>, JoinSteps(E), Append(s, v))
    BY <2>1, JoinFold
  <2>5. QED
    BY <2>2, <2>3, <2>4 DEF JoinSteps
<1>4. QED
  BY <1>2, <1>3

\* Where rows end that are fewer than m.
Cut(w, m) == IF m < Len(w) THEN m ELSE Len(w)

\* A page goes on where the rows before it end.
LEMMA NextPage ==
  ASSUME NEW E, NEW w \in Seq(E), NEW n \in Nat \ {0}, NEW a \in Nat
  PROVE  /\ Page(w, n, a) \in Seq(E)
         /\ SubSeq(w, 1, Cut(w, a)) \o Page(w, n, a) = SubSeq(w, 1, Cut(w, a + n))
<1> DEFINE L == Len(w)
           rest == SubSeq(w, a + 1, L)
           before == SubSeq(w, 1, Cut(w, a))
           after == SubSeq(w, 1, Cut(w, a + n))
           size == Cut(w, a + n) - Cut(w, a)
           page == Page(w, n, a)
<1>1. L \in Nat /\ \A j \in 1..L : w[j] \in E
  OBVIOUS
<1>2. Cut(w, a) \in 0..L /\ Cut(w, a + n) \in 0..L /\ size \in Nat
  BY <1>1 DEF Cut
<1>3. page = IF n < Len(rest) THEN SubSeq(rest, 1, n) ELSE rest
  <2>1. ~(a < 0) /\ n >= 0
    OBVIOUS
  <2>2. QED
    BY <2>1 DEF Page
<1>4. /\ rest \in Seq(E) /\ Len(rest) = L - Cut(w, a)
      /\ \A j \in 1..(L - Cut(w, a)) : rest[j] = w[a + j]
  <2>1. CASE a < L
    <3>1. Cut(w, a) = a
      BY <1>1, <2>1 DEF Cut
    <3>2. rest \in Seq(E) /\ Len(rest) = L - a /\ \A j \in 1..(L - a) : rest[j] = w[a + j]
      <4>1. \A k \in 0..L : /\ SubSeq(w, k + 1, L) \in Seq(E) /\ Len(SubSeq(w, k + 1, L)) = L - k
                            /\ \A j \in 1..(L - k) : SubSeq(w, k + 1, L)[j] = w[k + j]
        BY <1>1
      <4>2. a \in 0..L
        BY <1>1, <2>1
      <4>3. QED
        BY <4>1, <4>2
    <3>3. QED
      BY <3>1, <3>2
  <2>2. CASE ~(a < L)
    <3>1. Cut(w, a) = L
      BY <2>2 DEF Cut
    <3>2. rest = <<>>
      BY <1>1, <2>2
    <3>3. rest \in Seq(E) /\ Len(rest) = 0
      <4> HIDE DEF rest
      <4>1. QED
        BY <3>2
    <3>4. L - Cut(w, a) = 0
      BY <1>1, <3>1
    <3>5. QED
      BY <3>3, <3>4
  <2>3. QED
    BY <2>1, <2>2
<1> HIDE DEF rest, page
<1>5. page \in Seq(E) /\ Len(page) = size /\ \A j \in 1..size : page[j] = w[Cut(w, a) + j]
  <2>1. CASE n < Len(rest)
    <3>1. L - Cut(w, a) > n /\ n > 0 /\ n \in Nat
      BY <1>4, <2>1
    <3>2. a < L /\ Cut(w, a) = a
      BY <1>1, <3>1 DEF Cut
    <3>3. a + n < L /\ Cut(w, a + n) = a + n /\ size = n
      BY <1>1, <3>1, <3>2 DEF Cut
    <3>4. page = SubSeq(rest, 1, n)
      BY <1>3, <2>1
    <3>5. page \in Seq(E) /\ Len(page) = n /\ \A j \in 1..n : page[j] = rest[j]
      BY <1>4, <2>1, <3>4
    <3>6. \A j \in 1..n : j \in 1..(L - Cut(w, a))
      BY <1>1, <1>2, <3>1
    <3>7. QED
      BY <1>4, <3>2, <3>3, <3>5, <3>6
  <2>2. CASE ~(n < Len(rest))
    <3>1. page = rest
      BY <1>3, <2>2
    <3>2. Cut(w, a + n) = L
      BY <1>1, <1>2, <1>4, <2>2 DEF Cut
    <3>3. size = L - Cut(w, a)
      BY <3>2
    <3>4. size > 0 => Cut(w, a) = a
      <4>1. Cut(w, a) = a \/ Cut(w, a) = L
        BY DEF Cut
      <4>2. Cut(w, a) = L => size = 0
        BY <1>1, <3>3
      <4>3. QED
        BY <4>1, <4>2
    <3>5. QED
      BY <1>2, <1>4, <3>1, <3>3, <3>4
  <2>3. QED
    BY <2>1, <2>2
<1>6. /\ before \in Seq(E) /\ Len(before) = Cut(w, a) /\ \A j \in 1..Cut(w, a) : before[j] = w[j]
      /\ after \in Seq(E) /\ Len(after) = Cut(w, a + n) /\ \A j \in 1..Cut(w, a + n) : after[j] = w[j]
  <2>1. \A m \in 0..L : /\ SubSeq(w, 1, m) \in Seq(E) /\ Len(SubSeq(w, 1, m)) = m
                        /\ \A j \in 1..m : SubSeq(w, 1, m)[j] = w[j]
    BY <1>1
  <2>2. QED
    BY <1>2, <2>1
<1> DEFINE c == Cut(w, a)
           d == Cut(w, a + n)
<1>7. c \in Nat /\ d \in Nat /\ d = c + size /\ size \in Nat
  BY <1>1, <1>2
<1> HIDE DEF before, after, size
<1>8. before \o page = after
  <2>1. Len(before) = c /\ Len(after) = d
    BY <1>6
  <2>2. /\ \A j \in 1..c : before[j] = w[j]
        /\ \A j \in 1..d : after[j] = w[j]
        /\ Len(page) = size /\ \A j \in 1..size : page[j] = w[c + j]
    BY <1>5, <1>6
  <2> HIDE DEF c, d
  <2>3. before \o page \in Seq(E) /\ Len(before \o page) = d
    <3>1. \A x, y \in Seq(E) : x \o y \in Seq(E) /\ Len(x \o y) = Len(x) + Len(y)
      BY ConcatProperties
    <3>2. QED
      BY <1>5, <1>6, <1>7, <2>1, <2>2, <3>1
  <2>4. ASSUME NEW j \in 1..d PROVE (before \o page)[j] = after[j]
    <3>1. CASE j <= c
      <4>1. (before \o page)[j] = before[j] /\ j \in 1..c
        BY <1>5, <1>6, <1>7, <2>1, <2>4, <3>1
      <4>2. QED
        BY <2>2, <4>1
    <3>2. CASE j > c
      <4>1. j - c \in 1..size /\ j = c + (j - c)
        BY <1>7, <2>4, <3>2
      <4>2. PICK i \in 1..size : j = c + i
        BY <4>1
      <4>3. (before \o page)[c + i] = page[i]
        <5>1. ASSUME NEW x \in Seq(E), NEW y \in Seq(E), NEW k \in 1..Len(y) PROVE (x \o y)[Len(x) + k] = y[k]
          OBVIOUS
        <5>2. QED
          BY <1>5, <1>6, <2>1, <2>2, <5>1
      <4>4. page[i] = w[j]
        BY <2>2, <4>2
      <4>5. after[j] = w[j]
        BY <2>2, <2>4
      <4>6. QED
        BY <4>2, <4>3, <4>4, <4>5, Zenon
    <3>3. j <= c \/ j > c
      BY <1>7, <2>4
    <3>4. QED
      BY <3>1, <3>2, <3>3, Zenon
  <2>5. QED
    BY <1>6, <2>1, <2>3, <2>4, SeqEqual
<1>9. QED
  BY <1>5, <1>8 DEF before, after, page

\* Pages of any size make up the whole, which may have fewer rows than there are pages.
LEMMA PagesJoin ==
  ASSUME NEW E, NEW w \in Seq(E), NEW n \in Nat \ {0}, NEW K \in Nat, Len(w) <= K
  PROVE  Joined([k \in 1..K |-> Page(w, n, n * (k - 1))]) = w
<1> DEFINE P(k) == Page(w, n, n * (k - 1))
           upTo(m) == [k \in 1..m |-> P(k)]
           S == {m \in 0..K : Joined(upTo(m)) = SubSeq(w, 1, Cut(w, n * m))}
<1>1. Len(w) \in Nat
  OBVIOUS
<1>2. \A m \in 1..K : n * (m - 1) \in Nat /\ n * m = n * (m - 1) + n
  OBVIOUS
<1>3. \A m \in 1..K : /\ P(m) \in Seq(E)
                      /\ SubSeq(w, 1, Cut(w, n * (m - 1))) \o P(m) = SubSeq(w, 1, Cut(w, n * m))
  <2>1. SUFFICES ASSUME NEW m \in 1..K
                 PROVE  /\ P(m) \in Seq(E)
                        /\ SubSeq(w, 1, Cut(w, n * (m - 1))) \o P(m) = SubSeq(w, 1, Cut(w, n * m))
    OBVIOUS
  <2>2. ASSUME NEW a \in Nat
        PROVE  /\ Page(w, n, a) \in Seq(E)
               /\ SubSeq(w, 1, Cut(w, a)) \o Page(w, n, a) = SubSeq(w, 1, Cut(w, a + n))
    BY NextPage
  <2>3. QED
    BY <1>2, <2>2
<1> HIDE DEF P
<1>4. 0 \in S
  <2>1. upTo(0) = <<>>
    OBVIOUS
  <2>2. Joined(upTo(0)) = <<>>
    BY <2>1, JoinByPage
  <2>3. n * 0 = 0 /\ Cut(w, 0) = 0
    BY <1>1 DEF Cut
  <2>4. SubSeq(w, 1, 0) = <<>>
    OBVIOUS
  <2>5. Joined(upTo(0)) = SubSeq(w, 1, Cut(w, n * 0))
    BY <2>2, <2>3, <2>4
  <2>6. QED
    BY <2>5
<1>5. ASSUME NEW m \in 1..K, m - 1 \in S PROVE m \in S
  <2>1. upTo(m - 1) \in Seq(Seq(E)) /\ P(m) \in Seq(E)
    BY <1>3
  <2>2. upTo(m) = Append(upTo(m - 1), P(m))
    <3>1. m - 1 \in Nat /\ (m - 1) + 1 = m /\ Len(upTo(m - 1)) = m - 1
      BY <2>1
    <3>2. upTo(m) \in Seq(Seq(E)) /\ Len(upTo(m)) = m
      BY <1>3
    <3>3. Append(upTo(m - 1), P(m)) \in Seq(Seq(E)) /\ Len(Append(upTo(m - 1), P(m))) = m
      BY <2>1, <3>1
    <3>4. \A k \in 1..m : upTo(m)[k] = Append(upTo(m - 1), P(m))[k]
      BY <2>1, <3>1
    <3> HIDE DEF upTo
    <3>5. QED
      BY <3>2, <3>3, <3>4, SeqEqual
  <2> HIDE DEF upTo
  <2>3. Joined(upTo(m)) = JoinStep(Joined(upTo(m - 1)), P(m))
    BY <2>1, <2>2, JoinByPage
  <2>4. Joined(upTo(m - 1)) = SubSeq(w, 1, Cut(w, n * (m - 1)))
    BY <1>5
  <2>5. Joined(upTo(m)) = SubSeq(w, 1, Cut(w, n * m))
    BY <1>3, <2>3, <2>4 DEF JoinStep
  <2>6. QED
    BY <2>5
<1>6. K \in S
  <2> HIDE DEF S
  <2>1. QED
    BY <1>4, <1>5, UpTo
<1>7. Cut(w, n * K) = Len(w)
  <2>1. n * K >= K /\ n * K \in Nat
    OBVIOUS
  <2>2. QED
    BY <1>1, <2>1 DEF Cut
<1>8. SubSeq(w, 1, Len(w)) = w
  OBVIOUS
<1>9. QED
  BY <1>6, <1>7, <1>8 DEF P

\* A negative limit is none, and no offset is negative; a limit of 0 leaves nothing.
LEMMA PageEnds == ASSUME NEW E, NEW w \in Seq(E) PROVE Page(w, -1, -1) = w /\ Page(w, 0, 0) = <<>>
<1>1. SubSeq(w, 1, Len(w)) = w /\ Len(w) \in Nat /\ SubSeq(w, 1, 0) = <<>>
  OBVIOUS
<1>2. Page(w, -1, -1) = w
  BY <1>1 DEF Page
<1>3. Page(w, 0, 0) = <<>>
  <2>1. Len(w) = 0 => w = <<>>
    OBVIOUS
  <2>2. QED
    BY <1>1, <2>1 DEF Page
<1>4. QED
  BY <1>2, <1>3

-----------------------------------------------------------------------------
\* An argument in every row of the table.
ValueIn(x) == [row \in Range(Table) |-> Eval(x, row)]
With(x) == {row \in Range(Table) : ValueIn(x)[row] \in Present}

\* It has one.
LEMMA ArgumentValues ==
  ASSUME StoredInv, Sampled, NEW x \in Argument
  PROVE  ValueIn(x) \in [Range(Table) -> Value]
<1>1. /\ Table \in Seq(Pairs) /\ Len(Table) = Len(rows) /\ Len(rows) \in Nat
      /\ \A k \in DOMAIN rows : Table[k][1] = rows[k] /\ Table[k][2] \in Range(given)
  BY TableRows
<1>2. DOMAIN rows = 1..Len(rows) /\ DOMAIN given = 1..Len(rows) /\ affinity \in Affinity
  BY DEF StoredInv
<1>3. ASSUME NEW row \in Range(Table) PROVE Eval(x, row) \in Value
  <2>1. PICK r \in 1..Len(rows) : row = Table[r]
    BY <1>1 DEF Range
  <2>2. row \in Pairs /\ row[1] = rows[r] /\ row[2] \in Sample
    BY <1>1, <1>2, <2>1 DEF Sampled
  <2>3. row = <<rows[r], row[2]>>
    BY <2>2 DEF Pairs
  <2>4. given[r] \in Sample /\ rows[r] \in ApplyAffinity(given[r], affinity)
    BY <1>2 DEF Sampled, Range, StoredInv
  <2>5. rows[r] \in UNION {ApplyAffinity(u, affinity) : u \in Sample}
    BY <2>4
  <2>6. EvalIn(affinity, x, <<rows[r], row[2]>>) \in Value
    BY <1>2, <2>2, <2>5, ArgumentAssumption
  <2>7. QED
    BY <2>3, <2>6 DEF Eval
<1>4. QED
  BY <1>3 DEF ValueIn

\* The rows of a list.
Listing(x) == Items(<<x, Leaf("b")>>, Table)

\* A list that is not grouped is made of the rows of the table, all of them.
LEMMA Listed ==
  ASSUME StoredInv, Sampled, NEW x \in Argument
  PROVE  Listing(x) \in Seq(Pairs) /\ Len(Listing(x)) = Len(rows)
<1>1. /\ Table \in Seq(Pairs) /\ Len(Table) = Len(rows) /\ Len(rows) \in Nat
      /\ \A k \in DOMAIN rows : Table[k][1] = rows[k] /\ Table[k][2] \in Range(given)
  BY TableRows
<1>2. \A r \in 1..Len(rows) : Eval(x, Table[r]) \in Value /\ Table[r][2] \in Value
  <2>1. \A r \in 1..Len(rows) : Table[r] \in Range(Table) /\ Table[r] \in Pairs
    BY <1>1 DEF Range
  <2>2. \A row \in Range(Table) : Eval(x, row) \in Value
    BY ArgumentValues DEF ValueIn
  <2>3. QED
    BY <2>1, <2>2 DEF Pairs
<1> DEFINE es == <<x, Leaf("b")>>
           row(r) == [k \in DOMAIN es |-> Eval(es[k], Table[r])]
<1>3. \A r \in 1..Len(rows) : row(r) \in Pairs
  <2>1. SUFFICES ASSUME NEW r \in 1..Len(rows) PROVE row(r) \in Pairs
    OBVIOUS
  <2>2. Eval(Leaf("b"), Table[r]) = Table[r][2]
    BY Atoms DEF Eval
  <2>3. row(r) = <<Eval(x, Table[r]), Table[r][2]>>
    <3>1. DOMAIN es = 1..2 /\ es[1] = x /\ es[2] = Leaf("b")
      OBVIOUS
    <3> HIDE DEF es
    <3>2. QED
      BY <2>2, <3>1
  <2>4. QED
    BY <1>2, <2>3 DEF Pairs
<1>4. Listing(x) = [r \in 1..Len(rows) |-> row(r)]
  BY <1>1 DEF Listing, Items
<1> HIDE DEF row
<1>5. QED
  BY <1>1, <1>3, <1>4

\* What such a query answers.
LEMMA ListAnswered ==
  ASSUME StoredInv, NEW x \in Argument, NEW q, q.items = <<x, Leaf("b")>>, q.where = Absent, q.keys = <<>>,
         q.having = Absent, NEW desc \in BOOLEAN, q.order \in {<<>>, BothKeys(desc)}
  PROVE  Answer(q, Table) = Paged(q, Ordered(q, Deduped(q, Listing(x))))
<1>1. ~HasAggregate(x) /\ ~HasAggregate(Leaf("b")) /\ ~HasAggregate(Absent)
  BY ArgumentAssumption, Plain
<1>2. \A e \in Range(q.items) \union {q.having} : ~HasAggregate(e)
  <2>1. Range(q.items) = {x, Leaf("b")}
    BY DEF Range
  <2>2. QED
    BY <1>1, <2>1
<1>3. ~Grouped(q)
  BY <1>2 DEF Grouped
<1>4. \A k \in DOMAIN q.order : ~(q.order[k].position > Len(q.items))
  BY DEF BothKeys
<1>5. ~Refuses(q)
  BY <1>4 DEF Refuses
<1>6. Filter(Table, q.where) = Table
  <2>1. Table \in Seq(Pairs)
    BY TableRows
  <2>2. {row \in Range(Table) : q.where = Absent \/ CondTrue(Eval(q.where, row))} = Range(Table)
    OBVIOUS
  <2>3. Chosen(Table, Range(Table)) = Table
    BY <2>1, ChosenAll
  <2>4. QED
    BY <2>2, <2>3 DEF Filter
<1>7. QED
  BY <1>3, <1>5, <1>6 DEF Answer, Output, Listing

(* ORDER BY with two keys orders stably by the first and, where it is equal, *)
(* by the second, on tables of any length; LIMIT with OFFSET cuts the rows   *)
(* into pages of any size that make up the whole.                           *)
THEOREM PagesMakeUpTheWhole == Spec => []PagesCover
<1>1. ASSUME StoredInv, Sampled, NEW x \in Argument, NEW distinct \in BOOLEAN, NEW plain, NEW all, NEW asked,
             plain = Unsorted(x, distinct), all = ByBoth(plain), asked = {plain, all} \union Pages(all)
      PROVE  Cover(Answers(asked), all, plain, ~distinct)
  <2> DEFINE desc == ~distinct
             out == Deduped(plain, Listing(x))
             sorted == SortBoth(desc, out)
  <2>1. desc \in BOOLEAN /\ all.order = BothKeys(desc)
    BY <1>1 DEF BothKeys, SelectList, Unsorted, ByBoth
  <2>2. /\ plain.items = <<x, Leaf("b")>> /\ plain.where = Absent /\ plain.keys = <<>> /\ plain.having = Absent
        /\ plain.distinct = distinct /\ plain.order = <<>> /\ plain.limit = <<>>
        /\ all.items = <<x, Leaf("b")>> /\ all.where = Absent /\ all.keys = <<>> /\ all.having = Absent
        /\ all.distinct = distinct /\ all.limit = <<>>
    BY <1>1 DEF SelectList, Unsorted, ByBoth
  <2>3. \A n, k : LET q == PageOf(all, n, k)
                  IN  /\ q.items = <<x, Leaf("b")>> /\ q.where = Absent /\ q.keys = <<>> /\ q.having = Absent
                      /\ q.distinct = distinct /\ q.order = all.order /\ q.limit = <<IntV(n), IntV(n * (k - 1))>>
    BY <1>1 DEF SelectList, PageOf, Unsorted, ByBoth
  <2>4. out \in Seq(Pairs) /\ Len(out) <= Len(rows) /\ Len(rows) \in Nat /\ DOMAIN rows = 1..Len(rows)
    <3>1. Listing(x) \in Seq(Pairs) /\ Len(Listing(x)) = Len(rows)
      BY <1>1, Listed
    <3>2. DedupRows(Listing(x)) \in Seq(Pairs) /\ Len(DedupRows(Listing(x))) <= Len(Listing(x))
      BY <3>1, Fewer
    <3>3. Len(rows) \in Nat /\ DOMAIN rows = 1..Len(rows)
      BY <1>1 DEF StoredInv
    <3>4. QED
      BY <3>1, <3>2, <3>3 DEF Deduped
  <2> HIDE DEF desc
  <2>5. \A q : q.distinct = distinct => Deduped(q, Listing(x)) = out
    BY <2>2 DEF Deduped
  <2>6. Answer(plain, Table) = out
    <3>1. Answer(plain, Table) = Paged(plain, Ordered(plain, Deduped(plain, Listing(x))))
      BY <1>1, <2>1, <2>2, ListAnswered
    <3>2. QED
      BY <2>2, <3>1 DEF Ordered, Paged
  <2>7. BothKeys(desc) # <<>>
    BY DEF BothKeys
  <2> HIDE DEF out
  <2>8. \A q : /\ q.items = <<x, Leaf("b")>> /\ q.where = Absent /\ q.keys = <<>> /\ q.having = Absent
               /\ q.distinct = distinct /\ q.order = BothKeys(desc)
               => Answer(q, Table) = Paged(q, sorted)
    <3>1. SUFFICES ASSUME NEW q, q.items = <<x, Leaf("b")>>, q.where = Absent, q.keys = <<>>, q.having = Absent,
                          q.distinct = distinct, q.order = BothKeys(desc)
                   PROVE  Answer(q, Table) = Paged(q, sorted)
      OBVIOUS
    <3>2. Answer(q, Table) = Paged(q, Ordered(q, Deduped(q, Listing(x))))
      BY <1>1, <2>1, <3>1, ListAnswered
    <3>3. Ordered(q, out) = sorted
      BY <2>7, <3>1 DEF Ordered, SortBoth
    <3>4. QED
      BY <2>5, <3>1, <3>2, <3>3
  <2>9. Answer(all, Table) = sorted
    BY <2>1, <2>2, <2>8 DEF Paged
  <2>10. \A n, k : Answer(PageOf(all, n, k), Table) = Page(sorted, n, n * (k - 1))
    <3>1. \A n : IntValueOf(IntV(n)) = n
      BY DEF IntValueOf, IntV
    <3>2. SUFFICES ASSUME NEW n, NEW k PROVE Answer(PageOf(all, n, k), Table) = Page(sorted, n, n * (k - 1))
      OBVIOUS
    <3> DEFINE q == PageOf(all, n, k)
    <3>3. q.limit # <<>> /\ q.limit[1] = IntV(n) /\ q.limit[2] = IntV(n * (k - 1))
      BY <2>3
    <3>4. Answer(q, Table) = Paged(q, sorted)
      BY <2>1, <2>3, <2>8
    <3> HIDE DEF q
    <3>5. QED
      BY <3>1, <3>3, <3>4 DEF Paged, q
  <2>11. Settled(desc, out)
    BY <2>1, <2>4, AlwaysSettled
  <2>12. sorted \in Seq(Pairs) /\ Len(sorted) = Len(out) /\ InOrder(PairOrder(desc), sorted)
    BY <2>11 DEF Settled
  <2>13. /\ \A q \in asked : Answers(asked)[q] = Answer(q, Table)
         /\ plain \in asked /\ all \in asked /\ PageOf(all, -1, 2) \in asked /\ PageOf(all, 0, 1) \in asked
         /\ \A n, k \in DOMAIN rows : PageOf(all, n, k) \in asked
    BY <1>1 DEF Answers, Pages
  <2> HIDE DEF sorted
  <2>14. Arranged(sorted, out, desc)
    <3>1. \A j, k \in DOMAIN sorted : j < k => Precedes(sorted[j], sorted[k], desc)
      <4>1. DOMAIN sorted = 1..Len(sorted) /\ \A j \in 1..Len(sorted) : sorted[j] \in Pairs
        BY <2>12
      <4>2. \A p, q \in Pairs : <<p, q>> \in PairOrder(desc) <=> Precedes(p, q, desc)
        BY <2>1, PairPreorder
      <4>3. QED
        BY <2>12, <4>1, <4>2 DEF InOrder
    <3> DEFINE equalTo(r, s) == Chosen(s, {p \in Range(s) : \A k \in DOMAIN r : ValsEqual(p[k], r[k])})
    <3>2. ASSUME NEW r \in Pairs, NEW s \in Seq(Pairs) PROVE equalTo(r, s) = Chosen(s, Class2(r))
      <4>1. Range(s) \subseteq Pairs
        BY DEF Range
      <4>2. DOMAIN r = {1, 2}
        BY DEF Pairs
      <4>3. \A p \in Range(s) : p \in {u \in Range(s) : \A k \in DOMAIN r : ValsEqual(u[k], r[k])} <=> p \in Class2(r)
        BY <4>1, <4>2 DEF Class2
      <4>4. QED
        BY <4>3, ChosenSame
    <3>3. Range(out) \subseteq Pairs
      BY <2>4 DEF Range
    <3>4. \A r \in Pairs : Chosen(sorted, Class2(r)) = Chosen(out, Class2(r))
      BY <2>11 DEF Settled, sorted
    <3>5. \A r \in Range(out) : equalTo(r, sorted) = equalTo(r, out)
      <4> HIDE DEF equalTo
      <4>1. QED
        BY <2>4, <2>12, <3>2, <3>3, <3>4
    <3>6. QED
      BY <3>1, <3>5 DEF Arranged
  <2>15. \A n \in DOMAIN rows : sorted = Joined([k \in DOMAIN rows |-> Answers(asked)[PageOf(all, n, k)]])
    <3>1. SUFFICES ASSUME NEW n \in 1..Len(rows)
                   PROVE  sorted = Joined([k \in DOMAIN rows |-> Answers(asked)[PageOf(all, n, k)]])
      BY <2>4
    <3>2. [k \in DOMAIN rows |-> Answers(asked)[PageOf(all, n, k)]] = [k \in 1..Len(rows) |-> Page(sorted, n, n * (k - 1))]
      BY <2>4, <2>10, <2>13
    <3>3. n \in Nat \ {0} /\ Len(sorted) <= Len(rows)
      BY <2>4, <2>12
    <3>4. Joined([k \in 1..Len(rows) |-> Page(sorted, n, n * (k - 1))]) = sorted
      BY <2>4, <2>12, <3>3, PagesJoin
    <3>5. QED
      BY <3>2, <3>4
  <2>16. Answers(asked)[PageOf(all, -1, 2)] = sorted /\ Answers(asked)[PageOf(all, 0, 1)] = <<>>
    <3>1. Page(sorted, -1, -1) = sorted /\ Page(sorted, 0, 0) = <<>>
      BY <2>12, PageEnds
    <3>2. -1 * (2 - 1) = -1 /\ 0 * (1 - 1) = 0
      OBVIOUS
    <3>3. /\ Answer(PageOf(all, -1, 2), Table) = Page(sorted, -1, -1 * (2 - 1))
          /\ Answer(PageOf(all, 0, 1), Table) = Page(sorted, 0, 0 * (1 - 1))
      BY <2>10
    <3>4. QED
      BY <2>13, <3>1, <3>2, <3>3
  <2>17. Answers(asked)[all] = sorted /\ Answers(asked)[plain] = out
    BY <2>6, <2>9, <2>13
  <2>18. QED
    BY <2>14, <2>15, <2>16, <2>17 DEF Cover, desc
<1>2. StoredInv => PagesCover
  <2>1. SUFFICES ASSUME StoredInv, Sampled, NEW x \in Argument, NEW distinct \in BOOLEAN
                 PROVE  Cover(Answers({Unsorted(x, distinct), ByBoth(Unsorted(x, distinct))}
                                        \union Pages(ByBoth(Unsorted(x, distinct)))),
                              ByBoth(Unsorted(x, distinct)), Unsorted(x, distinct), ~distinct)
    BY Zenon DEF PagesCover
  <2>2. QED
    BY <1>1, <2>1, Zenon
<1>3. QED
  BY <1>2, Stored, PTL

-----------------------------------------------------------------------------
\* What an expression is replaced by, given what its operands are.
ReplaceStep(f, x) == [before \in Seq(Expression) |->
  IF IsAggregate(x) THEN Slotted(Slot(Len(before) + 1), Append(before, x))
  ELSE WithOperands(Slotted(Leaf(x.op), before), [k \in DOMAIN x.args |-> f[x.args[k]]])]
ReplaceOn(S, f) == f = [x \in S |-> ReplaceStep(f, x)]

\* An expression, as the replacement of its aggregates behind those before.
Replacing(x) == [before \in Seq(Expression) |-> ReplaceAggregates(x, before)]
Replacings(z) == [k \in DOMAIN z |-> Replacing(z[k])]

\* Aggregates are replaced in every expression, operand after operand.
LEMMA Replacement == \A e \in Expression, before \in Seq(Expression) :
  ReplaceAggregates(e, before) =
    IF IsAggregate(e) THEN Slotted(Slot(Len(before) + 1), Append(before, e))
    ELSE WithOperands(Slotted(Leaf(e.op), before), Replacings(e.args))
<1> DEFINE S == {m \in 0..MaxDepth : \E f : ReplaceOn(Nested[m], f)}
<1>0. ASSUME NEW f, NEW g, NEW x, \A k \in DOMAIN x.args : f[x.args[k]] = g[x.args[k]]
      PROVE  ReplaceStep(f, x) = ReplaceStep(g, x)
  <2>1. [k \in DOMAIN x.args |-> f[x.args[k]]] = [k \in DOMAIN x.args |-> g[x.args[k]]]
    BY <1>0
  <2>2. QED
    BY <2>1 DEF ReplaceStep
<1>1. 0 \in S
  <2> DEFINE g == [x \in Nested[0] |-> ReplaceStep(<<>>, x)]
  <2>1. \A x \in Nested[0] : g[x] = ReplaceStep(g, x)
    BY <1>0, Operands, DepthAssumption
  <2>2. ReplaceOn(Nested[0], g)
    <3> HIDE DEF g
    <3>1. g = [x \in Nested[0] |-> g[x]]
      BY DEF g
    <3>2. QED
      BY <2>1, <3>1 DEF ReplaceOn
  <2>3. QED
    BY <2>2, DepthAssumption
<1>2. ASSUME NEW m \in 1..MaxDepth, m - 1 \in S PROVE m \in S
  <2>1. PICK f : ReplaceOn(Nested[m - 1], f)
    BY <1>2
  <2> DEFINE g == [x \in Nested[m] |-> ReplaceStep(f, x)]
  <2>2. \A y \in Nested[m - 1] : g[y] = f[y]
    BY <2>1, Operands DEF ReplaceOn
  <2>3. \A x \in Nested[m] : g[x] = ReplaceStep(g, x)
    <3>1. \A x \in Nested[m] : \A k \in DOMAIN x.args : f[x.args[k]] = g[x.args[k]]
      BY <2>2, Operands
    <3>2. QED
      BY <3>1, <1>0
  <2>4. ReplaceOn(Nested[m], g)
    <3> HIDE DEF g
    <3>1. g = [x \in Nested[m] |-> g[x]]
      BY DEF g
    <3>2. QED
      BY <2>3, <3>1 DEF ReplaceOn
  <2>5. QED
    BY <2>4
<1>3. \E f : ReplaceOn(Expression, f)
  <2> HIDE DEF S
  <2>1. MaxDepth \in S
    BY <1>1, <1>2, UpTo, DepthAssumption
  <2>2. QED
    BY <2>1 DEF S, Expression
<1> DEFINE E == CHOOSE f : ReplaceOn(Expression, f)
<1>4. ReplaceOn(Expression, E)
  BY <1>3
<1>5. \A e, before : ReplaceAggregates(e, before) = E[e][before]
  BY DEF ReplaceAggregates, ReplaceOn, ReplaceStep
<1> HIDE DEF E
<1>6. \A e \in Expression : E[e] = ReplaceStep(E, e)
  BY <1>4 DEF ReplaceOn
<1>7. \A e \in Expression : E[e] = Replacing(e)
  <2>1. \A e \in Expression : E[e] = [before \in Seq(Expression) |-> E[e][before]]
    BY <1>6 DEF ReplaceStep
  <2>2. QED
    BY <1>5, <2>1 DEF Replacing
<1>8. \A e \in Expression : [k \in DOMAIN e.args |-> E[e.args[k]]] = Replacings(e.args)
  <2>1. \A e \in Expression : \A k \in DOMAIN e.args : e.args[k] \in Expression
    BY Operands, DepthAssumption DEF Expression
  <2>2. QED
    BY <1>7, <2>1 DEF Replacings
<1>9. ASSUME NEW e \in Expression, NEW before \in Seq(Expression)
      PROVE  ReplaceAggregates(e, before) =
               IF IsAggregate(e) THEN Slotted(Slot(Len(before) + 1), Append(before, e))
               ELSE WithOperands(Slotted(Leaf(e.op), before), Replacings(e.args))
  <2>1. ReplaceAggregates(e, before) = ReplaceStep(E, e)[before]
    BY <1>5, <1>6
  <2>2. ReplaceStep(E, e)[before] =
          IF IsAggregate(e) THEN Slotted(Slot(Len(before) + 1), Append(before, e))
          ELSE WithOperands(Slotted(Leaf(e.op), before), [k \in DOMAIN e.args |-> E[e.args[k]]])
    BY DEF ReplaceStep
  <2>3. QED
    BY <2>1, <2>2, <1>8
<1>10. QED
  BY <1>9

\* The steps of such a replacement, from and to replacements of a kind.
Closed(Done, Todo) == \A d \in Done, f \in Todo : WithOperand(d, f) \in Done
Operating(Done, Todo) == [x \in Done \X Todo |-> WithOperand(x[1], x[2])]

\* As FoldLeft computes it.
LEMMA OperandFold == ASSUME NEW Done, NEW Todo, NEW start \in Done, Closed(Done, Todo), NEW s \in Seq(Todo) PROVE WithOperands(start, s) = Folded(Done, start, Operating(Done, Todo), s)
<1> DEFINE Recursive(iter) == iter = [t \in SUBSET (DOMAIN s) |->
             IF t = {} THEN start ELSE WithOperand(iter[t \ {Max(t)}], s[Max(t)])]
<1>1. /\ Len(s) \in Nat /\ DOMAIN s = 1..Len(s)
      /\ start \in Done /\ Operating(Done, Todo) \in [Done \X Todo -> Done]
  BY DEF Operating, Closed
<1>2. WithOperands(start, s) = (CHOOSE iter : Recursive(iter))[DOMAIN s]
  BY Zenon DEF WithOperands, FoldLeft, MapThenFoldSet
<1>3. PICK iter \in [SUBSET (1..Len(s)) -> Done] : IsFold(iter, start, Operating(Done, Todo), s)
  BY <1>1, FoldExists
<1>4. \A t \in SUBSET (1..Len(s)) : iter[t] =
        IF t = {} THEN start ELSE WithOperand(iter[t \ {Max(t)}], s[Max(t)])
  BY <1>1, <1>3, FoldMeets DEF IsFold, Operating
<1>5. Recursive(iter)
  BY <1>1, <1>3, <1>4
<1>6. PICK fold : Recursive(fold) /\ WithOperands(start, s) = fold[1..Len(s)]
  BY <1>1, <1>2, <1>5
<1>7. fold[{}] = start
  BY <1>6
<1>8. ASSUME NEW m \in 1..Len(s), NEW x \in Done, fold[1..(m - 1)] = x
      PROVE  fold[1..m] = Operating(Done, Todo)[<<x, s[m]>>]
  <2>1. fold[1..m] = WithOperand(fold[(1..m) \ {Max(1..m)}], s[Max(1..m)])
    BY <1>1, <1>6, PositionsBefore
  <2>2. fold[1..m] = WithOperand(x, s[m])
    BY <1>1, <1>8, <2>1, PositionsBefore
  <2>3. s[m] \in Todo
    BY <1>1
  <2>4. QED
    BY <2>2, <2>3 DEF Operating
<1>9. StepsBy(fold, Done, start, Operating(Done, Todo), s)
  BY <1>7, <1>8 DEF StepsBy
<1>10. OnAll(fold, s) = Folded(Done, start, Operating(Done, Todo), s)
  <2>1. ASSUME NEW D, NEW G, D = Done, G = Operating(Done, Todo) PROVE OnAll(fold, s) = Folded(D, start, G, s)
    <3>1. start \in D /\ G \in [D \X Todo -> D] /\ s \in Seq(Todo) /\ StepsBy(fold, D, start, G, s)
      BY <2>1, <1>1, <1>9
    <3>2. QED
      BY ONLY <3>1, FoldComesTo, ZenonT(60)
  <2>2. QED
    BY <2>1
<1>11. QED
  BY <1>6, <1>10 DEF OnAll

\* Operand after operand.
LEMMA OperandSteps ==
  ASSUME NEW Done, NEW Todo, NEW start \in Done, Closed(Done, Todo)
  PROVE  /\ WithOperands(start, <<>>) = start
         /\ \A s \in Seq(Todo), v \in Todo :
              WithOperands(start, s) \in Done /\ WithOperands(start, Append(s, v)) = WithOperand(WithOperands(start, s), v)
<1>1. <<>> \in Seq(Todo) /\ start \in Done /\ Operating(Done, Todo) \in [Done \X Todo -> Done] /\ Steps(Done, Todo, start, Operating(Done, Todo))
  BY DEF Operating, Closed, Steps
<1>2. WithOperands(start, <<>>) = start
  <2>1. Folded(Done, start, Operating(Done, Todo), <<>>) = start
    BY <1>1, FoldedEmpty
  <2>2. QED
    BY <1>1, <2>1, OperandFold
<1>3. ASSUME NEW s \in Seq(Todo), NEW v \in Todo
      PROVE  WithOperands(start, s) \in Done /\ WithOperands(start, Append(s, v)) = WithOperand(WithOperands(start, s), v)
  <2>1. Append(s, v) \in Seq(Todo)
    OBVIOUS
  <2>2. Folded(Done, start, Operating(Done, Todo), s) \in Done
    BY <1>1, <2>1, FoldedIs
  <2>3. Folded(Done, start, Operating(Done, Todo), Append(s, v)) = Operating(Done, Todo)[<<Folded(Done, start, Operating(Done, Todo), s), v>>]
    BY <1>1, <2>1, FoldedStep
  <2>4. WithOperands(start, s) = Folded(Done, start, Operating(Done, Todo), s) /\ WithOperands(start, Append(s, v)) = Folded(Done, start, Operating(Done, Todo), Append(s, v))
    BY <2>1, OperandFold
  <2>5. QED
    BY <2>2, <2>3, <2>4 DEF Operating
<1>4. QED
  BY <1>2, <1>3

-----------------------------------------------------------------------------
\* A group as a row: the columns of its first row, and then the aggregates.
FirstRow(group) == IF group = <<>> THEN [c \in 1..Cardinality(DOMAIN Column) |-> NullV] ELSE group[1]

\* The slots that were there before are not moved.
Begins(before, slots) == Len(before) <= Len(slots) /\ \A k \in 1..Len(before) : slots[k] = before[k]

\* Where the columns and the aggregates of a group are.
LEMMA RowOfGroup ==
  ASSUME NEW slots \in Seq(Expression), NEW group \in Seq(Pairs)
  PROVE  LET row == GroupRow(slots, group)
         IN  /\ row[1] = FirstRow(group)[1] /\ row[2] = FirstRow(group)[2]
             /\ \A k \in 1..Len(slots) : row[2 + k] = EvalAgg(slots[k], group)
<1> DEFINE first == FirstRow(group)
           behind == [k \in DOMAIN slots |-> EvalAgg(slots[k], group)]
           All == Value \union {EvalAgg(slots[k], group) : k \in DOMAIN slots}
<1>1. NullV \in Value
  BY DEF Value
<1>2. first \in Seq(All) /\ Len(first) = 2
  <2>1. first \in [1..2 -> Value]
    <3>1. CASE group = <<>>
      <4>1. first = [c \in 1..2 |-> NullV]
        BY <3>1, Tokens DEF FirstRow
      <4>2. QED
        BY <1>1, <4>1
    <3>2. CASE group # <<>>
      <4>1. group[1] \in Pairs
        BY <3>2
      <4>2. QED
        BY <3>2, <4>1 DEF FirstRow, Pairs
    <3>3. QED
      BY <3>1, <3>2
  <2> HIDE DEF first
  <2>2. Value \subseteq All
    OBVIOUS
  <2> HIDE DEF All, first
  <2>3. first \in [1..2 -> All]
    BY <2>1, <2>2
  <2>4. first \in Seq(All)
    BY <2>3, SeqDef
  <2>5. QED
    BY <2>3, <2>4
<1>3. behind \in Seq(All) /\ Len(behind) = Len(slots) /\ DOMAIN slots = 1..Len(slots) /\ Len(slots) \in Nat
  OBVIOUS
<1>4. GroupRow(slots, group) = first \o behind
  BY DEF GroupRow, FirstRow
<1>5. \A k \in 1..Len(slots) : behind[k] = EvalAgg(slots[k], group)
  OBVIOUS
<1> HIDE DEF first, behind, All
<1>6. /\ \A k \in 1..2 : (first \o behind)[k] = first[k]
      /\ \A k \in 1..Len(slots) : (first \o behind)[2 + k] = behind[k]
  <2>0. first \in Seq(All) /\ behind \in Seq(All)
    BY <1>2, <1>3
  <2>1. \A k \in 1..(Len(first) + Len(behind)) :
          (first \o behind)[k] = IF k <= Len(first) THEN first[k] ELSE behind[k - Len(first)]
    BY ONLY <2>0, ConcatProperties, Zenon
  <2>2. \A k \in 1..Len(slots) : 2 + k \in 1..(2 + Len(slots)) /\ ~(2 + k <= 2) /\ (2 + k) - 2 = k
    BY <1>3
  <2>3. \A k \in 1..2 : k \in 1..(2 + Len(slots)) /\ k <= 2
    BY <1>3
  <2>4. QED
    <3>1. Len(first) = 2 /\ Len(behind) = Len(slots)
      BY <1>2, <1>3
    <3> DEFINE whole == first \o behind
    <3>2. \A k \in 1..(2 + Len(slots)) : whole[k] = IF k <= 2 THEN first[k] ELSE behind[k - 2]
      BY <2>1, <3>1
    <3> HIDE DEF whole
    <3>3. \A k \in 1..2 : whole[k] = first[k]
      BY <2>3, <3>2
    <3>4. \A k \in 1..Len(slots) : whole[2 + k] = behind[k]
      <4>1. SUFFICES ASSUME NEW k \in 1..Len(slots) PROVE whole[2 + k] = behind[k]
        OBVIOUS
      <4>2. whole[2 + k] = behind[(2 + k) - 2]
        BY <2>2, <3>2
      <4>3. QED
        BY <2>2, <4>2
    <3>5. QED
      BY <3>3, <3>4 DEF whole
<1>7. /\ (first \o behind)[1] = first[1] /\ (first \o behind)[2] = first[2]
      /\ \A k \in 1..Len(slots) : (first \o behind)[2 + k] = EvalAgg(slots[k], group)
  <2> DEFINE whole == first \o behind
  <2>1. (\A k \in 1..2 : whole[k] = first[k]) /\ \A k \in 1..Len(slots) : whole[2 + k] = behind[k]
    BY <1>6
  <2> HIDE DEF whole
  <2>2. whole[1] = first[1] /\ whole[2] = first[2] /\ \A k \in 1..Len(slots) : whole[2 + k] = EvalAgg(slots[k], group)
    BY <1>5, <2>1
  <2>3. QED
    BY <2>2 DEF whole
<1>8. QED
  BY <1>4, <1>7 DEF first

\* An expression as it is written, without slots outside of aggregates.
Unslotted(x) == \A y \in Outside(x) : y.op # "slot"

\* What an expression is for a group, when its aggregates have slots of their own.
GroupValue(x, group) ==
  Eval(ReplaceAggregates(x, <<>>).e, GroupRow(ReplaceAggregates(x, <<>>).slots, group))

\* What it is made of that.
GroupStep(x, group) ==
  IF IsAggregate(x) THEN EvalAgg(x, group)
  ELSE IF x.op \in DOMAIN Column THEN FirstRow(group)[Column[x.op]]
  ELSE IF x.op \in DOMAIN Constant THEN Constant[x.op]
  ELSE Apply(x.op, [k \in DOMAIN x.args |-> GroupValue(x.args[k], group)], Affinities(x, affinity))

\* e stands for x among slots, and for what x is for a group.
Stands(B, e, slots, x) ==
  /\ e \in B /\ \A aff : AffinityOf(e, aff) = AffinityOf(x, aff)
  /\ \A more \in Seq(Expression), group \in Seq(Pairs) :
       Begins(slots, more) => Eval(e, GroupRow(more, group)) = GroupValue(x, group)
Fits(B, x, before) ==
  LET r == ReplaceAggregates(x, before)
  IN  /\ r.slots \in Seq(Expression) /\ Begins(before, r.slots)
      /\ Stands(B, r.e, r.slots, x)

\* The operands of an operator, all of them.
Put(op, before, z) == WithOperands(Slotted(Leaf(op), before), Replacings(z))
Composite(B, op, before, z) ==
  LET c == Put(op, before, z)
  IN  /\ c.slots \in Seq(Expression) /\ Begins(before, c.slots)
      /\ c.e = Tree(op, c.e.args) /\ c.e.args \in Seq(B) /\ Len(c.e.args) = Len(z)
      /\ \A k \in 1..Len(z) : Stands(B, c.e.args[k], c.slots, z[k])

\* One value more.
LEMMA AppendIs ==
  ASSUME NEW E, NEW t \in Seq(E), NEW v \in E
  PROVE  Append(t, v) = [k \in 1..(Len(t) + 1) |-> IF k = Len(t) + 1 THEN v ELSE t[k]]
<1> DEFINE s == Append(t, v)
<1>1. s \in Seq(E) /\ Len(s) = Len(t) + 1 /\ s[Len(t) + 1] = v /\ Len(t) \in Nat /\ \A k \in 1..Len(t) : s[k] = t[k]
  BY AppendProperties
<1> HIDE DEF s
<1>2. s = [k \in 1..Len(s) |-> s[k]]
  BY <1>1
<1>3. \A k \in 1..(Len(t) + 1) : s[k] = IF k = Len(t) + 1 THEN v ELSE t[k]
  BY <1>1
<1>4. QED
  BY <1>1, <1>2, <1>3 DEF s

\* They are put into it one behind the other.
LEMMA Composites ==
  ASSUME NEW B, NEW Good \in SUBSET B, \A y \in Good, b \in Seq(Expression) : Fits(B, y, b),
         NEW op, NEW before \in Seq(Expression), NEW z \in Seq(Good)
  PROVE  Composite(B, op, before, z)
<1> DEFINE Done == [e : {Tree(op, as) : as \in Seq(B)}, slots : Seq(Expression)]
           Todo == {Replacing(y) : y \in Good}
           start == Slotted(Leaf(op), before)
           S == {t \in Seq(Good) : Composite(B, op, before, t)}
<1>1. ASSUME NEW as \in Seq(B), NEW slots \in Seq(Expression), NEW y \in Good,
             NEW r, r = ReplaceAggregates(y, slots)
      PROVE  /\ WithOperand(Slotted(Tree(op, as), slots), Replacing(y)) = Slotted(Tree(op, Append(as, r.e)), r.slots)
             /\ r.e \in B /\ r.slots \in Seq(Expression)
  <2>1. Fits(B, y, slots)
    OBVIOUS
  <2>2. r.e \in B /\ r.slots \in Seq(Expression)
    BY <1>1, <2>1 DEF Fits, Stands
  <2>3. Replacing(y)[slots] = r
    BY <1>1 DEF Replacing
  <2>4. QED
    BY <2>2, <2>3 DEF WithOperand, Slotted, Tree
<1>0. \A as \in Seq(B), slots \in Seq(Expression) : Slotted(Tree(op, as), slots) \in Done
  BY DEF Slotted
<1>2. Closed(Done, Todo)
  <2>1. ASSUME NEW as \in Seq(B), NEW slots \in Seq(Expression), NEW y \in Good
        PROVE  WithOperand(Slotted(Tree(op, as), slots), Replacing(y)) \in Done
    <3>1. PICK r : r = ReplaceAggregates(y, slots)
      OBVIOUS
    <3>2. r.e \in B /\ r.slots \in Seq(Expression) /\ WithOperand(Slotted(Tree(op, as), slots), Replacing(y)) = Slotted(Tree(op, Append(as, r.e)), r.slots)
      BY <1>1, <3>1
    <3>3. Append(as, r.e) \in Seq(B)
      BY <3>2, AppendProperties
    <3> HIDE DEF Done
    <3>4. QED
      BY <1>0, <3>2, <3>3
  <2>2. \A d \in Done : \E as \in Seq(B), slots \in Seq(Expression) : d = Slotted(Tree(op, as), slots)
    BY DEF Slotted
  <2> HIDE DEF Done
  <2>3. QED
    BY <2>1, <2>2 DEF Closed
<1>3. start \in Done
  <2>1. <<>> \in Seq(B)
    OBVIOUS
  <2> HIDE DEF Done
  <2>2. QED
    BY <1>0, <2>1 DEF Leaf
<1>4. Replacings(<<>>) = <<>> /\ \A t \in Seq(Good), y \in Good : Replacings(t) \in Seq(Todo) /\ Replacings(Append(t, y)) = Append(Replacings(t), Replacing(y))
  <2>1. Replacings(<<>>) = <<>>
    BY DEF Replacings
  <2>2. ASSUME NEW t \in Seq(Good), NEW y \in Good
        PROVE  Replacings(t) \in Seq(Todo) /\ Replacings(Append(t, y)) = Append(Replacings(t), Replacing(y))
    <3>1. Len(t) \in Nat /\ DOMAIN t = 1..Len(t) /\ \A k \in 1..Len(t) : Replacing(t[k]) \in Todo
      OBVIOUS
    <3>2. Replacings(t) \in Seq(Todo) /\ Len(Replacings(t)) = Len(t) /\ \A k \in 1..Len(t) : Replacings(t)[k] = Replacing(t[k])
      BY <3>1 DEF Replacings
    <3> HIDE DEF Todo
    <3>3. /\ DOMAIN Append(t, y) = 1..(Len(t) + 1)
          /\ Append(t, y)[Len(t) + 1] = y /\ \A k \in 1..Len(t) : Append(t, y)[k] = t[k]
      BY <3>1
    <3>4. Replacings(Append(t, y)) = [k \in 1..(Len(t) + 1) |-> Replacing(Append(t, y)[k])]
      BY <3>3 DEF Replacings
    <3>5. Append(Replacings(t), Replacing(y)) = [k \in 1..(Len(t) + 1) |-> IF k = Len(t) + 1 THEN Replacing(y) ELSE Replacings(t)[k]]
      <4>1. Replacing(y) \in {Replacing(x) : x \in Good} /\ Replacings(t) \in Seq({Replacing(x) : x \in Good})
        BY <3>2 DEF Todo
      <4> DEFINE f == Replacings(t)
                 v == Replacing(y)
                 E == {Replacing(x) : x \in Good}
      <4>2. f \in Seq(E) /\ v \in E
        BY <4>1
      <4>3. Len(f) = Len(t)
        BY <3>2
      <4> HIDE DEF f, v, E
      <4>4. Append(f, v) = [k \in 1..(Len(f) + 1) |-> IF k = Len(f) + 1 THEN v ELSE f[k]]
        BY <4>2, AppendIs
      <4>5. Append(f, v) = [k \in 1..(Len(t) + 1) |-> IF k = Len(t) + 1 THEN v ELSE f[k]]
        BY <4>3, <4>4
      <4>6. QED
        BY <4>5 DEF f, v
    <3>6. \A k \in 1..(Len(t) + 1) : Replacing(Append(t, y)[k]) = IF k = Len(t) + 1 THEN Replacing(y) ELSE Replacings(t)[k]
      BY <3>1, <3>2, <3>3
    <3>7. QED
      BY <3>2, <3>4, <3>5, <3>6
  <2>3. QED
    BY <2>1, <2>2
<1>5. <<>> \in S
  <2>1. WithOperands(start, <<>>) = start
    <3> HIDE DEF Done, Todo, start
    <3>1. QED
      BY <1>2, <1>3, OperandSteps
  <2>2. Put(op, before, <<>>) = start
    BY <1>4, <2>1 DEF Put
  <2>3. Begins(before, before) /\ Len(<<>>) = 0 /\ <<>> \in Seq(B) /\ <<>> \in Seq(Good)
    BY DEF Begins
  <2>4. Composite(B, op, before, <<>>)
    <3>1. start.slots = before /\ start.e = Tree(op, <<>>) /\ start.e.args = <<>>
      BY DEF Slotted, Leaf, Tree
    <3>2. \A k \in 1..Len(<<>>) : FALSE
      BY <2>3
    <3> HIDE DEF start
    <3>3. QED
      BY <2>2, <2>3, <3>1, <3>2 DEF Composite
  <2>5. QED
    BY <2>3, <2>4
<1>6. ASSUME NEW t \in Seq(Good), NEW y \in Good, t \in S PROVE Append(t, y) \in S
  <2>1. PICK c : c = Put(op, before, t)
    OBVIOUS
  <2>2. PICK r : r = ReplaceAggregates(y, c.slots)
    OBVIOUS
  <2>3. /\ c.slots \in Seq(Expression) /\ Begins(before, c.slots)
        /\ c.e = Tree(op, c.e.args) /\ c.e.args \in Seq(B) /\ Len(c.e.args) = Len(t)
        /\ \A k \in 1..Len(t) : Stands(B, c.e.args[k], c.slots, t[k])
    BY <1>6, <2>1 DEF Composite
  <2>4. c = Slotted(Tree(op, c.e.args), c.slots)
    <3>1. c \in Done
      <4>1. y \in Good /\ Replacing(y) \in Todo /\ Replacings(t) \in Seq(Todo)
        BY <1>4
      <4>2. c = WithOperands(start, Replacings(t))
        BY <2>1 DEF Put
      <4> HIDE DEF Done, Todo, start
      <4>3. QED
        BY <1>2, <1>3, <4>1, <4>2, OperandSteps
    <3>2. QED
      BY <3>1, <2>3 DEF Slotted
  <2>5. Put(op, before, Append(t, y)) = Slotted(Tree(op, Append(c.e.args, r.e)), r.slots)
    <3>1. Replacing(y) \in Todo
      OBVIOUS
    <3>2. /\ Put(op, before, Append(t, y)) = WithOperands(start, Append(Replacings(t), Replacing(y)))
          /\ c = WithOperands(start, Replacings(t)) /\ Replacings(t) \in Seq(Todo)
      BY <1>4, <2>1 DEF Put
    <3> HIDE DEF Done, Todo, start
    <3>4. Put(op, before, Append(t, y)) = WithOperand(c, Replacing(y))
      BY <1>2, <1>3, <3>1, <3>2, OperandSteps
    <3>3. QED
      BY <1>1, <2>2, <2>3, <2>4, <3>4
  <2>6. r.slots \in Seq(Expression) /\ Begins(c.slots, r.slots) /\ Stands(B, r.e, r.slots, y) /\ r.e \in B
    BY <2>2, <2>3 DEF Fits, Stands
  <2>7. \A more \in Seq(Expression) : Begins(r.slots, more) => Begins(c.slots, more)
    BY <2>3, <2>6 DEF Begins
  <2>8. Begins(before, r.slots)
    BY <2>3, <2>6 DEF Begins
  <2>9. \A k \in 1..Len(t) : Stands(B, c.e.args[k], r.slots, t[k])
    BY <2>3, <2>7 DEF Stands
  <2> DEFINE as == Append(c.e.args, r.e)
             ty == Append(t, y)
  <2>10. /\ as \in Seq(B) /\ Len(as) = Len(t) + 1 /\ as[Len(t) + 1] = r.e /\ \A k \in 1..Len(t) : as[k] = c.e.args[k]
         /\ ty \in Seq(Good) /\ Len(ty) = Len(t) + 1 /\ ty[Len(t) + 1] = y /\ \A k \in 1..Len(t) : ty[k] = t[k]
         /\ Len(t) \in Nat
    BY <2>3, <2>6
  <2> HIDE DEF as, ty
  <2>11. \A k \in 1..Len(ty) : Stands(B, as[k], r.slots, ty[k])
    <3>1. \A k \in 1..Len(ty) : k \in 1..Len(t) \/ k = Len(t) + 1
      BY <2>10
    <3>2. QED
      BY <2>6, <2>9, <2>10, <3>1
  <2>12. Put(op, before, ty) = Slotted(Tree(op, as), r.slots)
    BY <2>5 DEF as, ty
  <2>13. Slotted(Tree(op, as), r.slots).slots = r.slots /\ Slotted(Tree(op, as), r.slots).e = Tree(op, as) /\ Tree(op, as).args = as
    BY DEF Slotted, Tree
  <2>14. Composite(B, op, before, ty)
    BY <2>6, <2>8, <2>10, <2>11, <2>12, <2>13 DEF Composite
  <2>15. QED
    BY <2>10, <2>14 DEF ty
<1>7. Seq(Good) \subseteq S
  <2> HIDE DEF S
  <2>1. QED
    BY <1>5, <1>6, ByAppend
<1>8. QED
  BY <1>7

\* With operands that fit, what is put for x is made of what x is made of.
LEMMA Compounds ==
  ASSUME NEW B, B \subseteq Expression, Node(B) \subseteq Expression,
         \A y \in B, b \in Seq(Expression) : Unslotted(y) => Fits(B, y, b),
         NEW x \in Node(B), Unslotted(x), ~IsAggregate(x), NEW before \in Seq(Expression),
         NEW r, r = ReplaceAggregates(x, before)
  PROVE  /\ r.slots \in Seq(Expression) /\ Begins(before, r.slots) /\ r.e \in Node(B)
         /\ \A aff : AffinityOf(r.e, aff) = AffinityOf(x, aff)
         /\ \A more \in Seq(Expression), group \in Seq(Pairs) :
              Begins(r.slots, more) => Eval(r.e, GroupRow(more, group)) = GroupStep(x, group)
         /\ r.e.op = x.op /\ (x = Absent => r.e = Absent)
<1> DEFINE Good == {y \in B : Unslotted(y)}
           as == r.e.args
<1>1. x \in Expression /\ Outside(x) = {x} \union UNION {Outside(x.args[k]) : k \in DOMAIN x.args}
  BY Visiting
<1>2. x.op # "slot" /\ x.op \in Symbol /\ x.args \in Seq(B) /\ x = Tree(x.op, x.args)
  <2>1. x.op # "slot"
    BY <1>1 DEF Unslotted
  <2>2. QED
    BY <2>1 DEF Node, Tree
<1>3. x.args \in Seq(Good)
  <2>1. \A k \in DOMAIN x.args : x.args[k] \in Good
    BY <1>1, <1>2 DEF Unslotted
  <2> HIDE DEF Good
  <2>2. QED
    BY <1>2, <2>1
<1>4. Composite(B, x.op, before, x.args)
  <2>1. Good \in SUBSET B /\ \A y \in Good, b \in Seq(Expression) : Fits(B, y, b)
    OBVIOUS
  <2> HIDE DEF Good
  <2>2. QED
    BY <1>3, <2>1, Composites
<1>5. r = Put(x.op, before, x.args)
  BY <1>1, Replacement DEF Put
<1>6. /\ r.slots \in Seq(Expression) /\ Begins(before, r.slots)
      /\ r.e = Tree(x.op, as) /\ as \in Seq(B) /\ Len(as) = Len(x.args)
      /\ \A k \in 1..Len(x.args) : Stands(B, as[k], r.slots, x.args[k])
  BY <1>4, <1>5 DEF Composite
<1> HIDE DEF as
<1>7. Tree(x.op, as).op = x.op /\ Tree(x.op, as).args = as /\ r.e.op = x.op /\ r.e.args = as /\ r.e \in Node(B)
  <2>1. Tree(x.op, as) \in Node(B) /\ Tree(x.op, as).op = x.op /\ Tree(x.op, as).args = as
    BY <1>2, <1>6 DEF Node, Tree
  <2>2. QED
    BY <1>6, <2>1
<1>8. /\ DOMAIN x.args = 1..Len(x.args) /\ DOMAIN as = 1..Len(x.args) /\ Len(x.args) \in Nat
      /\ (as = <<>> <=> x.args = <<>>)
  <2>1. as \in Seq(B) /\ x.args \in Seq(B) /\ Len(as) = Len(x.args)
    BY <1>2, <1>6
  <2>2. \A s \in Seq(B) : Len(s) \in Nat /\ DOMAIN s = 1..Len(s) /\ (s = <<>> <=> Len(s) = 0)
    OBVIOUS
  <2>3. QED
    BY <2>1, <2>2
<1>9. \A op : r.e = Leaf(op) <=> x = Leaf(op)
  <2>1. \A op, args : Tree(x.op, args) = Leaf(op) <=> x.op = op /\ args = <<>>
    BY DEF Tree, Leaf
  <2>2. QED
    BY <1>2, <1>6, <1>8, <2>1
<1>10. \A aff : AffinityOf(r.e, aff) = AffinityOf(x, aff)
  BY <1>7, <1>9 DEF AffinityOf
<1>11. \A aff : Affinities(r.e, aff) = Affinities(x, aff)
  <2>1. SUFFICES ASSUME NEW aff PROVE Affinities(r.e, aff) = Affinities(x, aff)
    OBVIOUS
  <2>2. \A k \in 1..Len(x.args) : AffinityOf(as[k], aff) = AffinityOf(x.args[k], aff)
    BY <1>6 DEF Stands
  <2>3. \A k \in 1..(Len(x.args) - 1) : 1 \in 1..Len(x.args) /\ k + 1 \in 1..Len(x.args)
    BY <1>8
  <2>4. \A k \in 1..(Len(x.args) - 1) : /\ AffinityOf(as[1], aff) = AffinityOf(x.args[1], aff)
                                        /\ AffinityOf(as[k + 1], aff) = AffinityOf(x.args[k + 1], aff)
    BY <2>2, <2>3
  <2>5. QED
    BY <1>6, <1>7, <2>4 DEF Affinities
<1>12. ASSUME NEW more \in Seq(Expression), NEW group \in Seq(Pairs), Begins(r.slots, more)
       PROVE  Eval(r.e, GroupRow(more, group)) = GroupStep(x, group)
  <2> DEFINE row == GroupRow(more, group)
             f == [y \in Expression |-> EvalIn(affinity, y, row)]
  <2>1. Eval(r.e, row) = EvalStep(affinity, row, f, r.e)
    BY <1>7, Evaluation DEF Eval
  <2>2. \A k \in DOMAIN as : f[as[k]] = GroupValue(x.args[k], group)
    <3>1. \A k \in DOMAIN as : as[k] \in Expression
      <4>1. as \in Seq(B) /\ B \subseteq Expression
        BY <1>6
      <4>2. \A s \in Seq(B) : \A k \in DOMAIN s : s[k] \in B
        OBVIOUS
      <4>3. \A k \in DOMAIN as : as[k] \in B
        BY <4>1, <4>2
      <4>4. QED
        BY <4>1, <4>3
    <3>4. \A y \in Expression : f[y] = Eval(y, row)
      BY DEF Eval
    <3>2. \A k \in DOMAIN as : Eval(as[k], row) = GroupValue(x.args[k], group)
      BY <1>6, <1>8, <1>12 DEF Stands
    <3> HIDE DEF f, row
    <3>3. QED
      BY <3>1, <3>2, <3>4 DEF row
  <2>3. row[1] = FirstRow(group)[1] /\ row[2] = FirstRow(group)[2]
    BY RowOfGroup
  <2> HIDE DEF row, f
  <2>4. [k \in DOMAIN as |-> f[as[k]]] = [k \in DOMAIN x.args |-> GroupValue(x.args[k], group)]
    BY <1>8, <2>2
  <2>5. \A c \in DOMAIN Column : row[Column[c]] = FirstRow(group)[Column[c]]
    BY <2>3, Tokens
  <2>6. EvalStep(affinity, row, f, r.e) = GroupStep(x, group)
    BY <1>2, <1>7, <1>11, <2>4, <2>5 DEF EvalStep, GroupStep
  <2>7. QED
    BY <2>1, <2>6 DEF row
<1>13. QED
  BY <1>6, <1>7, <1>9, <1>10, <1>12 DEF Absent

\* An aggregate is replaced by its slot.
LEMMA Slots ==
  ASSUME NEW B, Node(B) \subseteq Expression, NEW x \in Node(B), IsAggregate(x), NEW before \in Seq(Expression),
         NEW r, r = ReplaceAggregates(x, before)
  PROVE  /\ r.slots \in Seq(Expression) /\ Begins(before, r.slots) /\ r.e \in Node(B)
         /\ \A aff : AffinityOf(r.e, aff) = AffinityOf(x, aff)
         /\ \A more \in Seq(Expression), group \in Seq(Pairs) :
              Begins(r.slots, more) => Eval(r.e, GroupRow(more, group)) = GroupStep(x, group)
         /\ r.e.op = "slot" /\ x # Absent
<1> DEFINE m == Len(before) + 1
<1>1. r.e = Slot(m) /\ r.slots = Append(before, x) /\ x \in Expression
  <2>1. x \in Expression
    OBVIOUS
  <2>2. r = Slotted(Slot(m), Append(before, x))
    BY <2>1, Replacement
  <2>3. QED
    BY <2>1, <2>2 DEF Slotted
<1>2. m \in Nat \ {0} /\ Len(before) \in Nat
  OBVIOUS
<1>3. /\ r.slots \in Seq(Expression) /\ Len(r.slots) = m /\ r.slots[m] = x
      /\ \A k \in 1..Len(before) : r.slots[k] = before[k]
  BY <1>1, AppendProperties
<1>4. r.e \in Node(B) /\ r.e.op = "slot" /\ r.e.slot = m
  BY <1>1, <1>2 DEF Node, Slot
<1> HIDE DEF m
<1>5. Begins(before, r.slots)
  BY <1>2, <1>3 DEF Begins, m
<1>6. x.op \notin Casts /\ x.op \notin {"a", "b", "absent"}
  BY DEF IsAggregate, Aggregate, Distinct, Casts
<1>7. \A op : Leaf(op).op = op
  BY DEF Leaf, Tree
<1>8. \A aff : AffinityOf(r.e, aff) = AffinityOf(x, aff)
  <2>1. \A e, aff : e.op \notin Casts /\ e.op \notin {"a", "b"} => AffinityOf(e, aff) = "NONE"
    BY <1>7 DEF AffinityOf
  <2>2. "slot" \notin Casts
    BY DEF Casts
  <2>3. QED
    BY <1>4, <1>6, <2>1, <2>2
<1>9. ASSUME NEW more \in Seq(Expression), NEW group \in Seq(Pairs), Begins(r.slots, more)
      PROVE  Eval(r.e, GroupRow(more, group)) = GroupStep(x, group)
  <2>1. m \in 1..Len(r.slots) /\ m \in 1..Len(more) /\ more[m] = x
    BY <1>2, <1>3, <1>9 DEF Begins
  <2>2. GroupRow(more, group)[2 + m] = EvalAgg(x, group)
    BY <2>1, RowOfGroup
  <2>3. Eval(r.e, GroupRow(more, group)) = GroupRow(more, group)[Cardinality(DOMAIN Column) + m]
    BY <1>4, Evaluation DEF Eval, EvalStep
  <2>4. QED
    BY <2>2, <2>3, Tokens DEF GroupStep
<1>10. QED
  BY <1>3, <1>4, <1>5, <1>6, <1>7, <1>8, <1>9 DEF Absent

(* Whatever the slots before and behind, an expression without slots of its  *)
(* own is replaced by one that has, for every group, the value it has alone.  *)
LEMMA Fitting ==
  /\ \A x \in Expression, before \in Seq(Expression) : Unslotted(x) =>
       /\ Fits(Expression, x, before)
       /\ ReplaceAggregates(x, before).e.op \in {x.op, "slot"}
       /\ x = Absent => ReplaceAggregates(x, before).e = Absent
  /\ \A x \in Expression, group \in Seq(Pairs) : Unslotted(x) => GroupValue(x, group) = GroupStep(x, group)
<1> DEFINE Kept(x, before) == LET r == ReplaceAggregates(x, before)
                              IN  r.e.op \in {x.op, "slot"} /\ (x = Absent => r.e = Absent)
           Steady(x) == \A group \in Seq(Pairs) : GroupValue(x, group) = GroupStep(x, group)
           All(C) == \A x \in C : Unslotted(x) =>
                       /\ Steady(x)
                       /\ \A before \in Seq(Expression) : Fits(C, x, before) /\ Kept(x, before)
<1>1. ASSUME NEW B, B \subseteq Expression, Node(B) \subseteq Expression, All(B) PROVE All(Node(B))
  <2>1. SUFFICES ASSUME NEW x \in Node(B), Unslotted(x)
                 PROVE  Steady(x) /\ \A before \in Seq(Expression) : Fits(Node(B), x, before) /\ Kept(x, before)
    OBVIOUS
  <2>2. ASSUME NEW before \in Seq(Expression), NEW r, r = ReplaceAggregates(x, before)
        PROVE  /\ r.slots \in Seq(Expression) /\ Begins(before, r.slots) /\ r.e \in Node(B)
               /\ \A aff : AffinityOf(r.e, aff) = AffinityOf(x, aff)
               /\ \A more \in Seq(Expression), group \in Seq(Pairs) :
                    Begins(r.slots, more) => Eval(r.e, GroupRow(more, group)) = GroupStep(x, group)
               /\ r.e.op \in {x.op, "slot"} /\ (x = Absent => r.e = Absent)
    <3>1. CASE IsAggregate(x)
      BY <1>1, <2>1, <2>2, <3>1, Slots
    <3>2. CASE ~IsAggregate(x)
      <4>1. \A y \in B, b \in Seq(Expression) : Unslotted(y) => Fits(B, y, b)
        BY <1>1
      <4>2. QED
        BY <1>1, <2>1, <2>2, <3>2, <4>1, Compounds
    <3>3. QED
      BY <3>1, <3>2
  <2>3. Steady(x)
    <3>1. PICK r : r = ReplaceAggregates(x, <<>>)
      OBVIOUS
    <3>2. r.slots \in Seq(Expression) /\ <<>> \in Seq(Expression)
      <4>1. <<>> \in Seq(Expression)
        OBVIOUS
      <4>2. QED
        BY <2>2, <3>1, <4>1
    <3>3. Begins(r.slots, r.slots)
      BY <3>2 DEF Begins
    <3>4. \A group \in Seq(Pairs) : Eval(r.e, GroupRow(r.slots, group)) = GroupStep(x, group)
      BY <2>2, <3>1, <3>2, <3>3
    <3>5. QED
      BY <3>1, <3>4 DEF GroupValue
  <2>4. ASSUME NEW before \in Seq(Expression) PROVE Fits(Node(B), x, before) /\ Kept(x, before)
    <3>1. PICK r : r = ReplaceAggregates(x, before)
      OBVIOUS
    <3>2. Fits(Node(B), x, before)
      BY <2>2, <2>3, <3>1 DEF Fits, Stands
    <3>3. QED
      BY <2>2, <3>1, <3>2
  <2>5. QED
    BY <2>3, <2>4
<1> HIDE DEF All
<1> DEFINE S == {m \in 0..MaxDepth : All(Nested[m])}
<1>2. 0 \in S
  <2>1. All({})
    BY DEF All
  <2>2. Nested[0] = Node({}) /\ Nested[0] \subseteq Expression /\ {} \subseteq Expression
    BY Levels, Operands, DepthAssumption
  <2>3. QED
    BY <1>1, <2>1, <2>2, DepthAssumption
<1>3. ASSUME NEW m \in 1..MaxDepth, m - 1 \in S PROVE m \in S
  <2>1. /\ m # 0 /\ m \in 0..MaxDepth /\ m - 1 \in 0..MaxDepth
        /\ Nested[m] = IF m = 0 THEN Node({}) ELSE Node(Nested[m - 1])
    BY Levels, DepthAssumption
  <2>2. Nested[m] \subseteq Expression /\ Nested[m - 1] \subseteq Expression /\ All(Nested[m - 1])
    BY <1>3, <2>1, Operands
  <2>3. QED
    BY <1>1, <2>1, <2>2
<1>4. All(Expression)
  <2> HIDE DEF S
  <2>1. MaxDepth \in S
    BY <1>2, <1>3, UpTo, DepthAssumption
  <2>2. QED
    BY <2>1 DEF S, Expression
<1>5. QED
  BY <1>4 DEF All

-----------------------------------------------------------------------------
\* Expressions as they are written, and one more of them with its slots.
Written == {x \in Expression : Unslotted(x)}
SlottedList == [e : Seq(Expression), slots : Seq(Expression)]
SlotStep(done, e) == LET r == ReplaceAggregates(e, done.slots) IN Slotted(Append(done.e, r.e), r.slots)
Slottings == [x \in SlottedList \X Written |-> SlotStep(x[1], x[2])]

\* They stay such lists.
LEMMA SlotTypes == /\ Slotted(<<>>, <<>>) \in SlottedList /\ Slottings \in [SlottedList \X Written -> SlottedList]
<1>1. Slotted(<<>>, <<>>) \in SlottedList
  BY DEF Slotted, SlottedList
<1>2. ASSUME NEW done \in SlottedList, NEW e \in Written PROVE SlotStep(done, e) \in SlottedList
  <2>1. PICK r : r = ReplaceAggregates(e, done.slots)
    OBVIOUS
  <2>2. done.e \in Seq(Expression) /\ done.slots \in Seq(Expression) /\ e \in Expression /\ Unslotted(e)
    BY DEF SlottedList, Written
  <2>3. Fits(Expression, e, done.slots)
    BY <2>2, Fitting
  <2>4. r.e \in Expression /\ r.slots \in Seq(Expression)
    BY <2>1, <2>3 DEF Fits, Stands
  <2>5. Append(done.e, r.e) \in Seq(Expression)
    BY <2>2, <2>4, AppendProperties
  <2>6. SlotStep(done, e) = Slotted(Append(done.e, r.e), r.slots)
    BY <2>1 DEF SlotStep
  <2>7. QED
    BY <2>4, <2>5, <2>6 DEF SlottedList, Slotted
<1>3. QED
  BY <1>1, <1>2 DEF Slottings

\* As FoldLeft computes it.
LEMMA SlotFold == ASSUME NEW s \in Seq(Written) PROVE WithSlots(s) = Folded(SlottedList, Slotted(<<>>, <<>>), Slottings, s)
<1> DEFINE Recursive(iter) == iter = [t \in SUBSET (DOMAIN s) |->
             IF t = {} THEN Slotted(<<>>, <<>>) ELSE SlotStep(iter[t \ {Max(t)}], s[Max(t)])]
<1>1. /\ Len(s) \in Nat /\ DOMAIN s = 1..Len(s)
      /\ Slotted(<<>>, <<>>) \in SlottedList /\ Slottings \in [SlottedList \X Written -> SlottedList]
  BY SlotTypes
<1>2. WithSlots(s) = (CHOOSE iter : Recursive(iter))[DOMAIN s]
  BY Zenon DEF WithSlots, SlotStep, FoldLeft, MapThenFoldSet
<1>3. PICK iter \in [SUBSET (1..Len(s)) -> SlottedList] : IsFold(iter, Slotted(<<>>, <<>>), Slottings, s)
  BY <1>1, FoldExists
<1>4. \A t \in SUBSET (1..Len(s)) : iter[t] =
        IF t = {} THEN Slotted(<<>>, <<>>) ELSE SlotStep(iter[t \ {Max(t)}], s[Max(t)])
  BY <1>1, <1>3, FoldMeets DEF IsFold, Slottings
<1>5. Recursive(iter)
  BY <1>1, <1>3, <1>4
<1>6. PICK fold : Recursive(fold) /\ WithSlots(s) = fold[1..Len(s)]
  BY <1>1, <1>2, <1>5
<1>7. fold[{}] = Slotted(<<>>, <<>>)
  BY <1>6
<1>8. ASSUME NEW m \in 1..Len(s), NEW x \in SlottedList, fold[1..(m - 1)] = x
      PROVE  fold[1..m] = Slottings[<<x, s[m]>>]
  <2>1. fold[1..m] = SlotStep(fold[(1..m) \ {Max(1..m)}], s[Max(1..m)])
    BY <1>1, <1>6, PositionsBefore
  <2>2. fold[1..m] = SlotStep(x, s[m])
    BY <1>1, <1>8, <2>1, PositionsBefore
  <2>3. s[m] \in Written
    BY <1>1
  <2>4. QED
    BY <2>2, <2>3 DEF Slottings
<1>9. StepsBy(fold, SlottedList, Slotted(<<>>, <<>>), Slottings, s)
  BY <1>7, <1>8 DEF StepsBy
<1>10. OnAll(fold, s) = Folded(SlottedList, Slotted(<<>>, <<>>), Slottings, s)
  <2>1. ASSUME NEW D, NEW G, D = SlottedList, G = Slottings PROVE OnAll(fold, s) = Folded(D, Slotted(<<>>, <<>>), G, s)
    <3>1. Slotted(<<>>, <<>>) \in D /\ G \in [D \X Written -> D] /\ s \in Seq(Written) /\ StepsBy(fold, D, Slotted(<<>>, <<>>), G, s)
      BY <2>1, <1>1, <1>9
    <3>2. QED
      BY ONLY <3>1, FoldComesTo, ZenonT(60)
  <2>2. QED
    BY <2>1
<1>11. QED
  BY <1>6, <1>10 DEF OnAll

\* Expression after expression.
LEMMA SlotSteps ==
  /\ WithSlots(<<>>) = Slotted(<<>>, <<>>)
  /\ \A s \in Seq(Written), v \in Written :
       WithSlots(s) \in SlottedList /\ WithSlots(Append(s, v)) = SlotStep(WithSlots(s), v)
<1>1. <<>> \in Seq(Written) /\ Slotted(<<>>, <<>>) \in SlottedList /\ Slottings \in [SlottedList \X Written -> SlottedList] /\ Steps(SlottedList, Written, Slotted(<<>>, <<>>), Slottings)
  BY SlotTypes DEF Steps
<1>2. WithSlots(<<>>) = Slotted(<<>>, <<>>)
  <2>1. Folded(SlottedList, Slotted(<<>>, <<>>), Slottings, <<>>) = Slotted(<<>>, <<>>)
    BY <1>1, FoldedEmpty
  <2>2. QED
    BY <1>1, <2>1, SlotFold
<1>3. ASSUME NEW s \in Seq(Written), NEW v \in Written
      PROVE  WithSlots(s) \in SlottedList /\ WithSlots(Append(s, v)) = SlotStep(WithSlots(s), v)
  <2>1. Append(s, v) \in Seq(Written)
    OBVIOUS
  <2>2. Folded(SlottedList, Slotted(<<>>, <<>>), Slottings, s) \in SlottedList
    BY <1>1, <2>1, FoldedIs
  <2>3. Folded(SlottedList, Slotted(<<>>, <<>>), Slottings, Append(s, v)) = Slottings[<<Folded(SlottedList, Slotted(<<>>, <<>>), Slottings, s), v>>]
    BY <1>1, <2>1, FoldedStep
  <2>4. WithSlots(s) = Folded(SlottedList, Slotted(<<>>, <<>>), Slottings, s) /\ WithSlots(Append(s, v)) = Folded(SlottedList, Slotted(<<>>, <<>>), Slottings, Append(s, v))
    BY <2>1, SlotFold
  <2>5. QED
    BY <2>2, <2>3, <2>4 DEF Slottings
<1>4. QED
  BY <1>2, <1>3

\* Every expression of a list stands for what it was, all of them with the same slots.
AllStand(es) ==
  LET ws == WithSlots(es)
  IN  /\ ws \in SlottedList /\ Len(ws.e) = Len(es)
      /\ \A k \in 1..Len(es) : /\ Stands(Expression, ws.e[k], ws.slots, es[k])
                               /\ ws.e[k].op \in {es[k].op, "slot"} /\ (es[k] = Absent => ws.e[k] = Absent)

\* Any list.
LEMMA ListsStand == \A es \in Seq(Written) : AllStand(es)
<1> DEFINE S == {es \in Seq(Written) : AllStand(es)}
<1>1. <<>> \in S
  <2>1. WithSlots(<<>>) = Slotted(<<>>, <<>>) /\ <<>> \in Seq(Written)
    BY SlotSteps
  <2>2. Slotted(<<>>, <<>>) \in SlottedList /\ Slotted(<<>>, <<>>).e = <<>> /\ Len(<<>>) = 0
    BY SlotTypes DEF Slotted
  <2>3. \A k \in 1..0 : FALSE
    OBVIOUS
  <2>4. QED
    BY <2>1, <2>2, <2>3 DEF AllStand
<1>2. ASSUME NEW t \in Seq(Written), NEW y \in Written, t \in S PROVE Append(t, y) \in S
  <2>1. PICK c : c = WithSlots(t)
    OBVIOUS
  <2>2. PICK r : r = ReplaceAggregates(y, c.slots)
    OBVIOUS
  <2>3. /\ c \in SlottedList /\ c.e \in Seq(Expression) /\ c.slots \in Seq(Expression) /\ Len(c.e) = Len(t)
        /\ \A k \in 1..Len(t) : /\ Stands(Expression, c.e[k], c.slots, t[k])
                                /\ c.e[k].op \in {t[k].op, "slot"} /\ (t[k] = Absent => c.e[k] = Absent)
    BY <1>2, <2>1 DEF AllStand, SlottedList
  <2>4. y \in Expression /\ Unslotted(y)
    BY DEF Written
  <2>5. /\ r.slots \in Seq(Expression) /\ Begins(c.slots, r.slots) /\ Stands(Expression, r.e, r.slots, y)
        /\ r.e.op \in {y.op, "slot"} /\ (y = Absent => r.e = Absent)
    <3>1. Fits(Expression, y, c.slots) /\ r.e.op \in {y.op, "slot"} /\ (y = Absent => r.e = Absent)
      BY <2>2, <2>3, <2>4, Fitting
    <3>2. QED
      BY <2>2, <3>1 DEF Fits
  <2>6. r.e \in Expression
    BY <2>5 DEF Stands
  <2>7. \A more \in Seq(Expression) : Begins(r.slots, more) => Begins(c.slots, more)
    BY <2>3, <2>5 DEF Begins
  <2>8. \A k \in 1..Len(t) : Stands(Expression, c.e[k], r.slots, t[k])
    BY <2>3, <2>7 DEF Stands
  <2> DEFINE es == Append(c.e, r.e)
             ty == Append(t, y)
  <2>9. /\ es \in Seq(Expression) /\ Len(es) = Len(t) + 1 /\ es[Len(t) + 1] = r.e /\ \A k \in 1..Len(t) : es[k] = c.e[k]
        /\ ty \in Seq(Written) /\ Len(ty) = Len(t) + 1 /\ ty[Len(t) + 1] = y /\ \A k \in 1..Len(t) : ty[k] = t[k]
        /\ Len(t) \in Nat
    BY <2>3, <2>6, AppendProperties
  <2>10. WithSlots(ty) = Slotted(es, r.slots)
    <3>1. WithSlots(ty) = SlotStep(c, y)
      BY <2>1, SlotSteps
    <3>2. QED
      BY <2>2, <3>1 DEF SlotStep
  <2> HIDE DEF es, ty
  <2>11. Slotted(es, r.slots) \in SlottedList /\ Slotted(es, r.slots).e = es /\ Slotted(es, r.slots).slots = r.slots
    BY <2>5, <2>9 DEF Slotted, SlottedList
  <2>12. \A k \in 1..Len(ty) : /\ Stands(Expression, es[k], r.slots, ty[k])
                               /\ es[k].op \in {ty[k].op, "slot"} /\ (ty[k] = Absent => es[k] = Absent)
    <3>1. \A k \in 1..Len(ty) : k \in 1..Len(t) \/ k = Len(t) + 1
      BY <2>9
    <3>2. QED
      BY <2>3, <2>5, <2>8, <2>9, <3>1
  <2>13. AllStand(ty)
    BY <2>9, <2>10, <2>11, <2>12 DEF AllStand
  <2>14. QED
    BY <2>9, <2>13 DEF ty
<1>3. Seq(Written) \subseteq S
  <2> HIDE DEF S
  <2>1. QED
    BY <1>1, <1>2, ByAppend
<1>4. QED
  BY <1>3

\* The images of the values of a sequence.
Mapped(F, s) == [k \in DOMAIN s |-> F[s[k]]]

\* One value more.
LEMMA MappedSteps ==
  ASSUME NEW D, NEW E, NEW F \in [E -> D]
  PROVE  /\ Mapped(F, <<>>) = <<>>
         /\ \A s \in Seq(E), u \in E : /\ Mapped(F, s) \in Seq(D) /\ Len(Mapped(F, s)) = Len(s)
                                       /\ Mapped(F, Append(s, u)) = Append(Mapped(F, s), F[u])
<1>1. Mapped(F, <<>>) = <<>>
  BY DEF Mapped
<1>2. ASSUME NEW s \in Seq(E), NEW u \in E
      PROVE  /\ Mapped(F, s) \in Seq(D) /\ Len(Mapped(F, s)) = Len(s)
             /\ Mapped(F, Append(s, u)) = Append(Mapped(F, s), F[u])
  <2>1. Len(s) \in Nat /\ DOMAIN s = 1..Len(s) /\ \A k \in 1..Len(s) : s[k] \in E
    OBVIOUS
  <2>2. /\ Mapped(F, s) \in Seq(D) /\ Len(Mapped(F, s)) = Len(s)
        /\ \A k \in 1..Len(s) : Mapped(F, s)[k] = F[s[k]]
    BY <2>1 DEF Mapped
  <2>3. Append(s, u) = [k \in 1..(Len(s) + 1) |-> IF k = Len(s) + 1 THEN u ELSE s[k]]
    BY AppendIs
  <2>4. Mapped(F, Append(s, u)) = [k \in 1..(Len(s) + 1) |-> F[IF k = Len(s) + 1 THEN u ELSE s[k]]]
    BY <2>3 DEF Mapped
  <2> DEFINE f == Mapped(F, s)
             v == F[u]
  <2>5. f \in Seq(D) /\ v \in D /\ Len(f) = Len(s) /\ \A k \in 1..Len(s) : f[k] = F[s[k]]
    BY <2>2
  <2> HIDE DEF f, v
  <2>6. Append(f, v) = [k \in 1..(Len(f) + 1) |-> IF k = Len(f) + 1 THEN v ELSE f[k]]
    BY <2>5, AppendIs
  <2>7. \A k \in 1..(Len(s) + 1) : F[IF k = Len(s) + 1 THEN u ELSE s[k]] = IF k = Len(s) + 1 THEN v ELSE f[k]
    BY <2>1, <2>5 DEF v
  <2>8. QED
    BY <2>2, <2>4, <2>5, <2>6, <2>7 DEF f, v
<1>3. QED
  BY <1>1, <1>2

\* A function under which the values of one set are those that go to another.
Alike(D, E, F, these, those) == F \in [E -> D] /\ \A u \in E : F[u] \in these <=> u \in those

\* What is chosen by what it is mapped to is mapped to what is chosen.
LEMMA ChosenMapped ==
  ASSUME NEW D, NEW E, NEW F, NEW these, NEW those, Alike(D, E, F, these, those), NEW s \in Seq(E)
  PROVE  Chosen(Mapped(F, s), these) = Mapped(F, Chosen(s, those))
<1>1. F \in [E -> D] /\ \A u \in E : F[u] \in these <=> u \in those
  BY DEF Alike
<1>2. \A t \in Seq(E), u \in E : Mapped(F, Append(t, u)) = Append(Mapped(F, t), F[u])
  BY <1>1, MappedSteps
<1> DEFINE S == {t \in Seq(E) : Chosen(Mapped(F, t), these) = Mapped(F, Chosen(t, those))}
<1>3. <<>> \in S
  <2>1. <<>> \in Seq(E)
    OBVIOUS
  <2>2. QED
    BY <1>1, <2>1, MappedSteps, ChosenSteps
<1>4. ASSUME NEW t \in Seq(E), NEW u \in E, t \in S PROVE Append(t, u) \in S
  <2>1. Mapped(F, t) \in Seq(D) /\ F[u] \in D /\ Mapped(F, Append(t, u)) = Append(Mapped(F, t), F[u])
    <3>1. F[u] \in D
      BY <1>1
    <3>2. Mapped(F, t) \in Seq(D)
      BY <1>1, MappedSteps
    <3>3. QED
      BY <1>2, <3>1, <3>2
  <2>2. Chosen(t, those) \in Seq(E) /\ Chosen(Append(t, u), those) = ChosenStep(those, Chosen(t, those), u)
    BY ChosenSteps
  <2>3. Chosen(Append(Mapped(F, t), F[u]), these) = ChosenStep(these, Chosen(Mapped(F, t), these), F[u])
    BY <2>1, ChosenSteps
  <2>4. Mapped(F, Append(Chosen(t, those), u)) = Append(Mapped(F, Chosen(t, those)), F[u])
    <3> DEFINE c == Chosen(t, those)
    <3>1. c \in Seq(E)
      BY <2>2
    <3> HIDE DEF c
    <3>2. Mapped(F, Append(c, u)) = Append(Mapped(F, c), F[u])
      BY <1>2, <3>1
    <3>3. QED
      BY <3>2 DEF c
  <2>5. Chosen(Mapped(F, t), these) = Mapped(F, Chosen(t, those)) /\ Append(t, u) \in Seq(E)
    BY <1>4
  <2>6. QED
    BY <1>1, <2>1, <2>2, <2>3, <2>4, <2>5 DEF ChosenStep
<1>5. Seq(E) \subseteq S
  <2> HIDE DEF S
  <2>1. QED
    BY <1>3, <1>4, ByAppend
<1>6. QED
  BY <1>5

-----------------------------------------------------------------------------
\* The groups of rows are groups of rows.
LEMMA Positioned ==
  ASSUME NEW s, NEW n \in Nat, DOMAIN s = 1..n
  PROVE  /\ Positions(s) \in Seq(1..n) /\ Len(Positions(s)) = n /\ Range(Positions(s)) = 1..n
         /\ FirstOfEach(s) \in Seq(1..n)
         /\ Range(FirstOfEach(s)) = {k \in 1..n : \A j \in 1..(k - 1) : s[j] # s[k]}
<1>1. Positions(s) = [k \in 1..n |-> k]
  BY DEF Positions
<1>2. Positions(s) \in Seq(1..n) /\ Len(Positions(s)) = n /\ Range(Positions(s)) = 1..n
  BY <1>1 DEF Range
<1> DEFINE new == {k \in DOMAIN s : \A j \in 1..(k - 1) : s[j] # s[k]}
<1>3. FirstOfEach(s) = Chosen(Positions(s), new)
  BY DEF FirstOfEach
<1>4. Chosen(Positions(s), new) \in Seq(1..n) /\ Range(Chosen(Positions(s), new)) = 1..n \intersect new
  BY <1>2, ChosenRange
<1>5. QED
  BY <1>2, <1>3, <1>4

\* Their rows are rows of the table.
LEMMA GroupsOfRows ==
  ASSUME NEW table \in Seq(Pairs), NEW keys
  PROVE  PartitionGroups(table, keys) \in Seq(Seq(Pairs))
<1>1. CASE keys = <<>>
  <2>1. PartitionGroups(table, keys) = <<table>>
    BY <1>1 DEF PartitionGroups
  <2>2. \A S : \A t \in S : <<t>> \in Seq(S)
    OBVIOUS
  <2>3. QED
    BY <2>1, <2>2
<1>2. CASE keys # <<>>
  <2> DEFINE of == [k \in DOMAIN table |-> KeyOf(keys, table[k])]
             firsts == FirstOfEach(of)
             member(g) == Chosen(Positions(of), {k \in DOMAIN of : of[k] = of[firsts[g]]})
  <2>1. PartitionGroups(table, keys) = [g \in DOMAIN firsts |-> At(table, member(g))]
    BY <1>2 DEF PartitionGroups, Partition, Members
  <2>2. Len(table) \in Nat /\ DOMAIN of = 1..Len(table) /\ DOMAIN table = 1..Len(table)
    OBVIOUS
  <2> HIDE DEF of
  <2>3. firsts \in Seq(1..Len(table)) /\ Positions(of) \in Seq(1..Len(table))
    BY <2>2, Positioned
  <2> HIDE DEF firsts
  <2>4. \A g : member(g) \in Seq(1..Len(table))
    BY <2>3, ChosenRange
  <2>5. ASSUME NEW ks \in Seq(1..Len(table)) PROVE At(table, ks) \in Seq(Pairs)
    <3>1. DOMAIN ks = 1..Len(ks) /\ Len(ks) \in Nat /\ \A k \in 1..Len(ks) : ks[k] \in 1..Len(table)
      OBVIOUS
    <3>2. \A k \in 1..Len(ks) : table[ks[k]] \in Pairs
      BY <2>2, <3>1
    <3>3. QED
      BY <3>1, <3>2 DEF At
  <2> HIDE DEF member
  <2>6. \A g : At(table, member(g)) \in Seq(Pairs)
    BY <2>4, <2>5
  <2>7. DOMAIN firsts = 1..Len(firsts) /\ Len(firsts) \in Nat
    BY <2>3
  <2>8. [g \in 1..Len(firsts) |-> At(table, member(g))] \in Seq(Seq(Pairs))
    BY <2>6, <2>7
  <2>9. QED
    BY <2>1, <2>7, <2>8
<1>3. QED
  BY <1>1, <1>2

\* What a query with groups answers: HAVING on the groups, and the items of those that pass.
Passing(having, groups) ==
  Chosen(groups, {group \in Seq(Pairs) : having = Absent \/ CondTrue(GroupValue(having, group))})
ItemsOf(items, groups) == [g \in DOMAIN groups |-> [k \in DOMAIN items |-> GroupValue(items[k], groups[g])]]

\* Slots shared by the items and HAVING, or not, it answers that.
LEMMA GroupsAnswered ==
  ASSUME NEW q, q.items \in Seq(Written), q.having \in Written, q.having = Absent \/ q.having.op # "absent",
         NEW table \in Seq(Pairs)
  PROVE  GroupItems(q, WithSlots(Append(q.items, q.having)), table)
           = ItemsOf(q.items, Passing(q.having, PartitionGroups(table, q.keys)))
<1> DEFINE es == Append(q.items, q.having)
           ws == WithSlots(es)
           n == Len(q.items)
           groups == PartitionGroups(table, q.keys)
           last == Last(ws.e)
           passing == Passing(q.having, groups)
           asRow == [group \in Seq(Pairs) |-> GroupRow(ws.slots, group)]
           AllRows == {GroupRow(ws.slots, group) : group \in Seq(Pairs)}
           those == {group \in Seq(Pairs) : q.having = Absent \/ CondTrue(GroupValue(q.having, group))}
<1>1. es \in Seq(Written) /\ Len(es) = n + 1 /\ es[n + 1] = q.having /\ n \in Nat /\ \A k \in 1..n : es[k] = q.items[k]
  BY AppendProperties
<1>2. groups \in Seq(Seq(Pairs))
  BY GroupsOfRows
<1> HIDE DEF es, groups
<1>3. AllStand(es)
  BY <1>1, ListsStand
<1> HIDE DEF ws
<1>4. /\ ws.e \in Seq(Expression) /\ ws.slots \in Seq(Expression) /\ Len(ws.e) = n + 1
      /\ \A k \in 1..(n + 1) : /\ Stands(Expression, ws.e[k], ws.slots, es[k])
                               /\ ws.e[k].op \in {es[k].op, "slot"} /\ (es[k] = Absent => ws.e[k] = Absent)
  BY <1>1, <1>3 DEF AllStand, SlottedList, ws
<1>5. \A k \in 1..(n + 1), group \in Seq(Pairs) : Eval(ws.e[k], GroupRow(ws.slots, group)) = GroupValue(es[k], group)
  <2>1. Begins(ws.slots, ws.slots)
    BY <1>4 DEF Begins
  <2>2. QED
    BY <1>4, <2>1 DEF Stands
<1>6. last = ws.e[n + 1] /\ Front(ws.e) = [k \in 1..n |-> ws.e[k]]
  <2>1. (n + 1) - 1 = n
    BY <1>1
  <2>2. last = ws.e[n + 1]
    BY <1>4 DEF Last
  <2>3. Front(ws.e) = SubSeq(ws.e, 1, n)
    BY <1>4, <2>1 DEF Front
  <2>4. SubSeq(ws.e, 1, n) = [k \in 1..n |-> ws.e[k]]
    <3>1. SubSeq(ws.e, 1, n) = [k \in 1..(n - 1 + 1) |-> ws.e[k + 1 - 1]]
      BY <1>1, <1>4
    <3>2. n - 1 + 1 = n /\ \A k \in 1..n : k + 1 - 1 = k
      BY <1>1
    <3>3. QED
      BY <3>1, <3>2
  <2>5. QED
    BY <2>2, <2>3, <2>4
<1>7. last = Absent <=> q.having = Absent
  <2>1. n + 1 \in 1..(n + 1)
    BY <1>1
  <2>2. ws.e[n + 1].op \in {q.having.op, "slot"} /\ (q.having = Absent => ws.e[n + 1] = Absent)
    BY <1>1, <1>4, <2>1
  <2>3. Absent.op = "absent"
    BY DEF Absent, Leaf, Tree
  <2>4. QED
    BY <1>6, <2>2, <2>3
<1>8. \A group \in Seq(Pairs) : Eval(last, GroupRow(ws.slots, group)) = GroupValue(q.having, group)
  <2>1. n + 1 \in 1..(n + 1)
    BY <1>1
  <2>2. QED
    BY <1>1, <1>5, <1>6, <2>1
<1> HIDE DEF last, n
<1> DEFINE grouped == GroupTable(ws.slots, groups)
           these == {row \in Range(grouped) : last = Absent \/ CondTrue(Eval(last, row))}
<1>9. asRow \in [Seq(Pairs) -> AllRows] /\ \A group \in Seq(Pairs) : asRow[group] = GroupRow(ws.slots, group)
  OBVIOUS
<1> HIDE DEF asRow, AllRows
<1>10. grouped = Mapped(asRow, groups)
  BY <1>2, <1>9 DEF GroupTable, Mapped
<1>11. Range(grouped) = {GroupRow(ws.slots, group) : group \in Range(groups)}
  BY DEF GroupTable, Range
<1>12. Filter(grouped, last) = Chosen(grouped, these)
  BY DEF Filter
<1>13. Chosen(grouped, these) = Mapped(asRow, passing)
  <2> DEFINE Theirs == Range(groups)
             image == [group \in Theirs |-> asRow[group]]
  <2>1. Theirs \subseteq Seq(Pairs) /\ groups \in Seq(Theirs)
    BY <1>2 DEF Range
  <2>2. image \in [Theirs -> AllRows] /\ \A group \in Theirs : image[group] = GroupRow(ws.slots, group)
    BY <1>9, <2>1
  <2>3. \A group \in Theirs : image[group] \in these <=> group \in those
    BY <1>7, <1>8, <1>11, <2>1, <2>2
  <2>4. Mapped(image, groups) = Mapped(asRow, groups)
    BY <2>1 DEF Mapped
  <2>5. Chosen(groups, those) \in Seq(Theirs)
    BY <2>1, ChosenRange
  <2> HIDE DEF Theirs, image, these, those
  <2>6. Chosen(Mapped(image, groups), these) = Mapped(image, Chosen(groups, those))
    <3>1. Alike(AllRows, Theirs, image, these, those)
      BY <2>2, <2>3 DEF Alike
    <3>2. QED
      BY <2>1, <3>1, ChosenMapped
  <2>7. Mapped(image, Chosen(groups, those)) = Mapped(asRow, Chosen(groups, those))
    <3>1. \A k \in DOMAIN Chosen(groups, those) : Chosen(groups, those)[k] \in Theirs
      BY <2>5
    <3>2. QED
      BY <3>1 DEF Mapped, image
  <2>8. passing = Chosen(groups, those)
    BY DEF Passing, those
  <2>9. QED
    BY <1>10, <2>4, <2>6, <2>7, <2>8
<1>14. passing \in Seq(Seq(Pairs))
  BY <1>2, ChosenRange DEF Passing
<1> HIDE DEF passing
<1>15. \A g \in DOMAIN passing : Mapped(asRow, passing)[g] = GroupRow(ws.slots, passing[g]) /\ passing[g] \in Seq(Pairs)
  BY <1>9, <1>14 DEF Mapped
<1>16. Items(Front(ws.e), Mapped(asRow, passing)) = ItemsOf(q.items, passing)
  <2>1. DOMAIN Mapped(asRow, passing) = DOMAIN passing
    BY DEF Mapped
  <2>2. DOMAIN Front(ws.e) = 1..n /\ DOMAIN q.items = 1..n /\ \A k \in 1..n : Front(ws.e)[k] = ws.e[k]
    BY <1>6 DEF n
  <2>3. \A g \in DOMAIN passing, k \in 1..n : Eval(Front(ws.e)[k], Mapped(asRow, passing)[g]) = GroupValue(q.items[k], passing[g])
    <3>1. \A k \in 1..n : k \in 1..(n + 1) /\ es[k] = q.items[k]
      BY <1>1
    <3>2. QED
      BY <1>5, <1>15, <2>2, <3>1
  <2>4. QED
    BY <2>1, <2>2, <2>3 DEF Items, ItemsOf
<1>17. GroupItems(q, ws, table) = Items(Front(ws.e), Filter(grouped, last))
  BY DEF GroupItems, grouped, last, groups
<1>18. QED
  BY <1>12, <1>13, <1>16, <1>17 DEF ws, es, passing, groups

-----------------------------------------------------------------------------
\* The operators of a summary are no aggregates, no columns and no casts.
LEMMA SummaryOperators ==
  \A op \in Operator \union CompareOp :
    /\ op \in Functional /\ op \notin Aggregate \union DOMAIN Distinct \union DOMAIN Column \union Casts
    /\ op \notin {"slot", "absent", "a", "b"} /\ op \notin DOMAIN Constant
<1>1. \A op \in Operator \union CompareOp :
        /\ op \in Functional /\ op \notin Aggregate \union DOMAIN Distinct \union Casts
        /\ op \notin {"slot", "absent", "a", "b"}
  BY DEF Functional, Operator, CompareOp, Aggregate, Distinct, Casts
<1>2. QED
  BY <1>1, Tokens

\* Written, with aggregates, and no column outside of them.
Asked(e) == e \in Written /\ e \in Nested[MaxDepth - 1] /\ HasAggregate(e) /\ BareColumns(e) = {}

\* So is a summary, and so are its operands.
LEMMA SummaryIs ==
  ASSUME NEW s \in Summary
  PROVE  /\ Asked(s) /\ DOMAIN s.args = 1..2 /\ Asked(s.args[1]) /\ Asked(s.args[2])
         /\ s.op \in Operator \union CompareOp /\ ~IsAggregate(s)
<1>1. s \in Nested[MaxDepth - 1] /\ s \in Expression
  BY DepthAssumption, Making
<1>2. /\ s.op \in Operator \union CompareOp /\ Len(s.args) = 2
      /\ \A x \in Outside(s) : x.op # "slot"
      /\ BareColumns(s) = {} /\ HasAggregate(s.args[1]) /\ HasAggregate(s.args[2])
  BY SummaryAssumption
<1>3. ~IsAggregate(s)
  BY <1>2, SummaryOperators DEF IsAggregate
<1>4. DOMAIN s.args = 1..2 /\ \A k \in 1..2 : s.args[k] \in Nested[MaxDepth - 1]
  <2>1. PICK S : Nested[MaxDepth - 1] = Node(S)
    BY Levels, DepthAssumption
  <2>2. s.args \in Seq(S)
    <3>1. s.op # "slot"
      BY <1>2, SummaryOperators
    <3>2. QED
      BY <1>1, <2>1, <3>1 DEF Node
  <2>3. DOMAIN s.args = 1..2
    BY <1>2, <2>2
  <2>4. MaxDepth - 1 \in 0..MaxDepth /\ \A n \in 0..MaxDepth : n > 0 => n - 1 \in 0..MaxDepth /\ n \in 1..MaxDepth
    BY DepthAssumption
  <2>5. \A k \in 1..2 : MaxDepth - 1 > 0 /\ s.args[k] \in Nested[MaxDepth - 1 - 1]
    BY <1>1, <2>3, <2>4, Operands
  <2>6. Nested[MaxDepth - 1 - 1] \subseteq Nested[MaxDepth - 1]
    BY <2>4, <2>5, Operands
  <2>7. QED
    BY <2>3, <2>5, <2>6
<1>5. \A k \in 1..2 : Outside(s.args[k]) \subseteq Outside(s)
  BY <1>1, <1>3, <1>4, Visiting
<1>6. \A k \in 1..2 : s.args[k] \in Expression /\ s.args[k] \in Outside(s.args[k])
  BY <1>4, Making, Visiting
<1>7. \A k \in 1..2 : s.args[k] \in Written /\ BareColumns(s.args[k]) = {}
  BY <1>2, <1>5, <1>6 DEF Written, Unslotted, BareColumns
<1>8. Asked(s)
  <2>1. \E x \in Outside(s.args[1]) : IsAggregate(x)
    BY <1>2 DEF HasAggregate
  <2>2. HasAggregate(s)
    BY <1>5, <2>1 DEF HasAggregate
  <2>3. QED
    BY <1>1, <1>2, <2>2 DEF Asked, Written, Unslotted
<1>9. QED
  BY <1>2, <1>3, <1>4, <1>7, <1>8 DEF Asked

\* The rows of the table without WHERE are all of them.
LEMMA AllPass == ASSUME StoredInv PROVE Filter(Table, Absent) = Table
<1>1. Table \in Seq(Pairs)
  BY TableRows
<1>2. Filter(Table, Absent) = Chosen(Table, {row \in Range(Table) : TRUE})
  BY DEF Filter
<1>3. Range(Table) \subseteq {row \in Range(Table) : TRUE}
  OBVIOUS
<1> HIDE DEF Table
<1>4. QED
  BY <1>1, <1>2, <1>3, ChosenAll

\* No clause is an expression that can be asked for, without aggregates.
LEMMA AbsentIs == Absent \in Written /\ BareColumns(Absent) = {} /\ Absent.op = "absent"
<1>1. Absent \in Expression /\ Absent.op = "absent" /\ Absent.args = <<>>
  BY Making, Tokens DEF Absent, Leaf, Tree
<1>2. Outside(Absent) = {Absent}
  BY <1>1, Visiting
<1>3. QED
  BY <1>1, <1>2, Tokens DEF Written, Unslotted, BareColumns

\* A query of aggregates, with HAVING or without.
Totals(q) ==
  /\ q.items \in Seq(Written) \ {<<>>} /\ q.where = Absent /\ q.distinct = FALSE /\ q.order = <<>> /\ q.limit = <<>>
  /\ \A e \in Range(q.items) : BareColumns(e) = {} /\ HasAggregate(e)
  /\ q.having \in Written /\ BareColumns(q.having) = {} /\ (q.having = Absent \/ q.having.op # "absent")

\* It answers with its items, for each of the groups that pass.
LEMMA TotalsAnswered ==
  ASSUME StoredInv, NEW q, Totals(q)
  PROVE  Answer(q, Table) = ItemsOf(q.items, Passing(q.having, PartitionGroups(Table, q.keys)))
<1>1. q.items \in Seq(Written) /\ q.items # <<>> /\ q.having \in Written /\ (q.having = Absent \/ q.having.op # "absent")
  BY DEF Totals
<1>2. Table \in Seq(Pairs)
  BY TableRows
<1>3. GroupItems(q, WithSlots(Append(q.items, q.having)), Table)
        = ItemsOf(q.items, Passing(q.having, PartitionGroups(Table, q.keys)))
  <2> HIDE DEF Table
  <2>1. QED
    BY <1>1, <1>2, GroupsAnswered
<1>4. q.items[1] \in Range(q.items)
  BY <1>1 DEF Range
<1>5. Grouped(q)
  BY <1>4 DEF Totals, Grouped
<1>6. \A e \in Range(q.items) \union {q.having} : BareColumns(e) = {}
  BY DEF Totals
<1>7. ~Refuses(q)
  <2>1. DOMAIN q.order = {}
    BY DEF Totals
  <2>2. QED
    BY <1>5, <1>6, <2>1 DEF Refuses
<1>8. /\ Filter(Table, q.where) = Table
      /\ \A out : Paged(q, Ordered(q, Deduped(q, out))) = out
  BY AllPass DEF Totals, Paged, Ordered, Deduped
<1>9. QED
  BY <1>3, <1>5, <1>7, <1>8 DEF Answer, Output

\* Without HAVING all of them pass.
LEMMA AllGroups ==
  ASSUME NEW groups \in Seq(Seq(Pairs))
  PROVE  Passing(Absent, groups) = groups
<1> DEFINE all == {group \in Seq(Pairs) : Absent = Absent \/ CondTrue(GroupValue(Absent, group))}
<1>1. Range(groups) \subseteq all
  BY DEF Range
<1>2. Passing(Absent, groups) = Chosen(groups, all)
  BY DEF Passing
<1> HIDE DEF all
<1>3. QED
  BY <1>1, <1>2, ChosenAll

\* The groups of the table.
TableGroups(keys) == PartitionGroups(Table, keys)

\* An expression alone, in every group.
LEMMA AloneAnswered ==
  ASSUME StoredInv, NEW e, Asked(e), NEW keys
  PROVE  Answer(GroupBy(<<e>>, keys), Table) = [g \in DOMAIN TableGroups(keys) |-> <<GroupValue(e, TableGroups(keys)[g])>>]
<1> DEFINE q == GroupBy(<<e>>, keys)
<1>1. /\ q.items = <<e>> /\ q.where = Absent /\ q.keys = keys /\ q.having = Absent
      /\ q.distinct = FALSE /\ q.order = <<>> /\ q.limit = <<>>
  BY DEF GroupBy, SelectList
<1> HIDE DEF q
<1>2. Totals(q)
  <2>1. e \in Written
    BY DEF Asked
  <2>2. <<e>> \in Seq(Written) \ {<<>>} /\ Range(<<e>>) = {e}
    BY <2>1 DEF Range
  <2>3. QED
    BY <1>1, <2>2, AbsentIs DEF Totals, Asked
<1>3. TableGroups(keys) \in Seq(Seq(Pairs))
  <2>1. Table \in Seq(Pairs)
    BY TableRows
  <2> HIDE DEF Table
  <2>2. QED
    BY <2>1, GroupsOfRows DEF TableGroups
<1>4. Answer(q, Table) = ItemsOf(<<e>>, TableGroups(keys))
  BY <1>1, <1>2, <1>3, TotalsAnswered, AllGroups DEF TableGroups
<1>5. \A group : [k \in DOMAIN <<e>> |-> GroupValue(<<e>>[k], group)] = <<GroupValue(e, group)>>
  OBVIOUS
<1>6. QED
  BY <1>4, <1>5 DEF ItemsOf, q

\* An operation on aggregates has in a group what it makes of their values there.
LEMMA SummaryValue ==
  ASSUME NEW s \in Summary, s.op \in Operator, NEW group \in Seq(Pairs)
  PROVE  GroupValue(s, group) = Arith(s.op, GroupValue(s.args[1], group), GroupValue(s.args[2], group))
<1> DEFINE v == [k \in DOMAIN s.args |-> GroupValue(s.args[k], group)]
<1>1. s \in Expression /\ Unslotted(s) /\ DOMAIN s.args = 1..2 /\ ~IsAggregate(s)
  BY SummaryIs DEF Asked, Written
<1>2. s.op \notin DOMAIN Column /\ s.op \notin DOMAIN Constant /\ s.op \in Functional /\ s.op \notin Casts
  BY SummaryOperators
<1>3. GroupValue(s, group) = Apply(s.op, v, Affinities(s, affinity))
  BY <1>1, <1>2, Fitting DEF GroupStep
<1>4. v[1] = GroupValue(s.args[1], group) /\ v[2] = GroupValue(s.args[2], group)
  BY <1>1
<1> HIDE DEF v
<1>5. \A with : Apply(s.op, v, with) = Arith(s.op, v[1], v[2])
  BY DEF Apply, Operator, CompareOp, Casts
<1>6. QED
  BY <1>3, <1>4, <1>5

\* The condition that one summary is less than another.
Less(s, t) == Tree("<", <<t, s>>)

\* Without affinity they are compared as they are.
LEMMA LessIs ==
  ASSUME NEW s \in Summary, NEW t \in Summary
  PROVE  /\ Less(s, t) \in Written /\ BareColumns(Less(s, t)) = {} /\ Less(s, t).op = "<"
         /\ \A group \in Seq(Pairs) :
              GroupValue(Less(s, t), group) = Compare("<", GroupValue(t, group), GroupValue(s, group), "NONE")
<1> DEFINE h == Less(s, t)
<1>1. /\ s \in Nested[MaxDepth - 1] /\ t \in Nested[MaxDepth - 1] /\ Unslotted(s) /\ Unslotted(t)
      /\ BareColumns(s) = {} /\ BareColumns(t) = {}
      /\ s.op \in Operator \union CompareOp /\ t.op \in Operator \union CompareOp
  BY SummaryIs DEF Asked, Written
<1>2. "<" \in Symbol /\ "<" \in CompareOp
  BY Tokens DEF Functional, CompareOp
<1>3. h \in Expression
  <2>1. \A S : \A x, y \in S : <<x, y>> \in Seq(S)
    OBVIOUS
  <2>2. <<t, s>> \in Seq(Nested[MaxDepth - 1])
    BY <1>1, <2>1
  <2>3. QED
    BY <1>2, <2>2, Making DEF Less
<1>4. h.op = "<" /\ h.args = <<t, s>>
  BY DEF Less, Tree
<1> HIDE DEF h
<1>5. ~IsAggregate(h) /\ h.op \notin DOMAIN Column /\ h.op \notin DOMAIN Constant /\ h.op # "slot"
  BY <1>2, <1>4, SummaryOperators DEF IsAggregate
<1>6. Outside(h) = {h} \union Outside(t) \union Outside(s)
  <2>1. Outside(h) = {h} \union UNION {Outside(h.args[k]) : k \in DOMAIN h.args}
    BY <1>3, <1>5, Visiting
  <2>2. DOMAIN h.args = 1..2 /\ h.args[1] = t /\ h.args[2] = s
    BY <1>4
  <2>3. QED
    BY <2>1, <2>2
<1>7. Unslotted(h) /\ BareColumns(h) = {}
  BY <1>1, <1>5, <1>6 DEF Unslotted, BareColumns
<1>8. Affinities(h, affinity)[1] = "NONE"
  <2>1. \A e : e.op \in Operator \union CompareOp => AffinityOf(e, affinity) = "NONE"
    <3>1. SUFFICES ASSUME NEW e, e.op \in Operator \union CompareOp PROVE AffinityOf(e, affinity) = "NONE"
      OBVIOUS
    <3>2. e.op \notin {"a", "b"} /\ e.op \notin Casts
      BY <3>1, SummaryOperators
    <3>3. e # Leaf("a") /\ e # Leaf("b")
      BY <3>2 DEF Leaf, Tree
    <3>4. QED
      BY <3>2, <3>3 DEF AffinityOf
  <2>2. Len(h.args) - 1 = 1 /\ h.args[1] = t /\ h.args[1 + 1] = s
    BY <1>4
  <2>3. 1 \in 1..(Len(h.args) - 1)
    BY <2>2
  <2>4. Affinities(h, affinity)[1] = ComparisonAffinity(AffinityOf(h.args[1], affinity), AffinityOf(h.args[1 + 1], affinity))
    BY <2>3 DEF Affinities
  <2>5. ComparisonAffinity("NONE", "NONE") = "NONE"
    BY DEF ComparisonAffinity
  <2>6. QED
    BY <1>1, <2>1, <2>2, <2>4, <2>5
<1>9. ASSUME NEW group \in Seq(Pairs)
      PROVE  GroupValue(h, group) = Compare("<", GroupValue(t, group), GroupValue(s, group), "NONE")
  <2> DEFINE v == [k \in DOMAIN h.args |-> GroupValue(h.args[k], group)]
  <2>1. GroupValue(h, group) = Apply("<", v, Affinities(h, affinity))
    BY <1>3, <1>4, <1>5, <1>7, Fitting DEF GroupStep
  <2>2. v[1] = GroupValue(t, group) /\ v[2] = GroupValue(s, group)
    BY <1>4
  <2> HIDE DEF v
  <2>3. \A with : Apply("<", v, with) = Compare("<", v[1], v[2], with[1])
    BY <1>2, LogicalIs
  <2>4. QED
    BY <1>8, <2>1, <2>2, <2>3
<1>10. QED
  BY <1>3, <1>4, <1>7, <1>9 DEF Written, h

\* Two of them, in the groups where one is less than the other.
LEMMA TogetherAnswered ==
  ASSUME StoredInv, NEW s \in Summary, NEW t \in Summary, NEW keys
  PROVE  Answer(Together(s, t, keys), Table)
           = Below([g \in DOMAIN TableGroups(keys) |-> <<GroupValue(s, TableGroups(keys)[g])>>],
                   [g \in DOMAIN TableGroups(keys) |-> <<GroupValue(t, TableGroups(keys)[g])>>])
<1> DEFINE q == Together(s, t, keys)
           groups == TableGroups(keys)
           Theirs == Range(groups)
           pair == [group \in Theirs |-> <<GroupValue(s, group), GroupValue(t, group)>>]
           All == {pair[group] : group \in Theirs}
           both == Mapped(pair, groups)
           less == {r \in Range(both) : CondTrue(Compare("<", r[2], r[1], "NONE"))}
           those == {group \in Seq(Pairs) : Less(s, t) = Absent \/ CondTrue(GroupValue(Less(s, t), group))}
           xs == [g \in DOMAIN groups |-> <<GroupValue(s, groups[g])>>]
           ys == [g \in DOMAIN groups |-> <<GroupValue(t, groups[g])>>]
<1>1. /\ q.items = <<s, t>> /\ q.where = Absent /\ q.keys = keys /\ q.having = Less(s, t)
      /\ q.distinct = FALSE /\ q.order = <<>> /\ q.limit = <<>>
  BY DEF Together, Less, GroupBy, SelectList
<1>2. groups \in Seq(Seq(Pairs)) /\ groups = PartitionGroups(Table, keys)
  <2>1. Table \in Seq(Pairs)
    BY TableRows
  <2> HIDE DEF Table
  <2>2. QED
    BY <2>1, GroupsOfRows DEF TableGroups
<1> HIDE DEF q, groups
<1>3. Less(s, t).op # "absent" /\ Less(s, t) # Absent
  BY LessIs, AbsentIs
<1>4. Totals(q)
  <2>1. Asked(s) /\ Asked(t)
    BY SummaryIs
  <2>2. \A S : \A x, y \in S : <<x, y>> \in Seq(S) \ {<<>>}
    OBVIOUS
  <2>3. <<s, t>> \in Seq(Written) \ {<<>>} /\ Range(<<s, t>>) = {s, t}
    BY <2>1, <2>2 DEF Asked, Range
  <2>4. QED
    BY <1>1, <1>3, <2>1, <2>3, LessIs DEF Totals, Asked
<1>5. Answer(q, Table) = ItemsOf(<<s, t>>, Passing(Less(s, t), groups))
  BY <1>1, <1>2, <1>4, TotalsAnswered
<1>6. groups \in Seq(Theirs) /\ Theirs \subseteq Seq(Pairs)
  BY <1>2 DEF Range
<1>7. Passing(Less(s, t), groups) = Chosen(groups, those) /\ Chosen(groups, those) \in Seq(Theirs)
  BY <1>6, ChosenRange DEF Passing
<1>8. Range(both) = All
  <2>1. \A r : r \in Range(both) <=> \E g \in DOMAIN groups : r = pair[groups[g]]
    BY DEF Mapped, Range
  <2>2. \A r : r \in All <=> \E g \in DOMAIN groups : r = pair[groups[g]]
    BY DEF Range
  <2>3. QED
    BY <2>1, <2>2
<1>9. Alike(All, Theirs, pair, less, those)
  <2>1. pair \in [Theirs -> All]
    OBVIOUS
  <2>2. ASSUME NEW u \in Theirs PROVE pair[u] \in less <=> u \in those
    <3>1. pair[u][1] = GroupValue(s, u) /\ pair[u][2] = GroupValue(t, u) /\ u \in Seq(Pairs) /\ pair[u] \in Range(both)
      BY <1>6, <1>8
    <3>2. GroupValue(Less(s, t), u) = Compare("<", GroupValue(t, u), GroupValue(s, u), "NONE")
      BY <3>1, LessIs
    <3> HIDE DEF pair, both
    <3>3. QED
      BY <1>3, <3>1, <3>2
  <2> HIDE DEF less, those, pair, All, Theirs
  <2>3. QED
    BY <2>1, <2>2 DEF Alike
<1>10. Chosen(both, less) = Mapped(pair, Chosen(groups, those))
  <2> HIDE DEF All, Theirs, pair, less, those
  <2>1. QED
    BY <1>6, <1>9, ChosenMapped
<1>11. Mapped(pair, Chosen(groups, those)) = ItemsOf(<<s, t>>, Chosen(groups, those))
  <2> DEFINE c == Chosen(groups, those)
  <2>1. \A g \in DOMAIN c : c[g] \in Theirs
    BY <1>7
  <2> HIDE DEF c
  <2>2. \A group : [k \in DOMAIN <<s, t>> |-> GroupValue(<<s, t>>[k], group)] = <<GroupValue(s, group), GroupValue(t, group)>>
    OBVIOUS
  <2>3. Mapped(pair, c) = ItemsOf(<<s, t>>, c)
    BY <2>1, <2>2 DEF Mapped, ItemsOf
  <2>4. QED
    BY <2>3 DEF c
<1>12. Below(xs, ys) = Chosen(both, less)
  <2>1. [g \in DOMAIN xs |-> <<xs[g][1], ys[g][1]>>] = both
    BY <1>6 DEF Mapped, Range
  <2>2. QED
    BY <2>1 DEF Below
<1>13. QED
  BY <1>5, <1>7, <1>10, <1>11, <1>12 DEF q, groups

\* What is asked, and what is found.
Parts == Summary \union UNION {Range(s.args) : s \in Summary}
AloneAsked(keys) == {GroupBy(<<e>>, keys) : e \in Parts}
TogetherAsked(keys) == {Together(s, t, keys) : s, t \in Summary}
SummariesAsked(keys) == {GroupBy(<<e>>, keys) : e \in Summary \union UNION {Range(s.args) : s \in Summary}}
                          \union {Together(s, t, keys) : s, t \in Summary}
AloneAndTogether(found, keys, s, t) ==
  /\ s.op \in Operator =>
       found[GroupBy(<<s>>, keys)]
         = Computed(s.op, found[GroupBy(<<s.args[1]>>, keys)], found[GroupBy(<<s.args[2]>>, keys)])
  /\ found[Together(s, t, keys)] = Below(found[GroupBy(<<s>>, keys)], found[GroupBy(<<t>>, keys)])

(* "Rewrite aggregates across items + HAVING into one shared slot list"     *)
(* (parser.go), for tables and groups of any number, and expressions of any  *)
(* depth: every item has the value that it has alone, and HAVING chooses     *)
(* the groups by what it has there.                                         *)
THEOREM ItemsStandAlone == Spec => []ItemsAreIndependent
<1>1. ASSUME StoredInv, NEW keys, NEW asked, asked = SummariesAsked(keys), NEW found, found = Answers(asked),
             NEW s \in Summary, NEW t \in Summary
      PROVE  AloneAndTogether(found, keys, s, t)
  <2> DEFINE values(e) == [g \in DOMAIN TableGroups(keys) |-> <<GroupValue(e, TableGroups(keys)[g])>>]
  <2>1. \A q \in asked : found[q] = Answer(q, Table)
    BY <1>1 DEF Answers
  <2>2. s.args[1] \in Range(s.args) /\ s.args[2] \in Range(s.args)
    BY SummaryIs DEF Range
  <2>3. /\ GroupBy(<<s>>, keys) \in asked /\ GroupBy(<<t>>, keys) \in asked /\ Together(s, t, keys) \in asked
        /\ GroupBy(<<s.args[1]>>, keys) \in asked /\ GroupBy(<<s.args[2]>>, keys) \in asked
    <3>0. asked = AloneAsked(keys) \union TogetherAsked(keys)
      BY <1>1 DEF SummariesAsked, AloneAsked, TogetherAsked, Parts
    <3>1. \A e \in Parts : GroupBy(<<e>>, keys) \in asked
      BY <3>0 DEF AloneAsked
    <3>2. Together(s, t, keys) \in asked
      BY <3>0 DEF TogetherAsked
    <3>3. \A e \in {s, t, s.args[1], s.args[2]} : e \in Parts
      BY <2>2 DEF Parts
    <3>4. QED
      BY <3>1, <3>2, <3>3
  <2>4. Asked(s) /\ Asked(t) /\ Asked(s.args[1]) /\ Asked(s.args[2])
    BY SummaryIs
  <2>5. \A e \in {s, t, s.args[1], s.args[2]} : GroupBy(<<e>>, keys) \in asked /\ Asked(e)
    BY <2>3, <2>4
  <2>6. \A e \in {s, t, s.args[1], s.args[2]} : found[GroupBy(<<e>>, keys)] = values(e)
    <3>1. SUFFICES ASSUME NEW e, e \in {s, t, s.args[1], s.args[2]} PROVE found[GroupBy(<<e>>, keys)] = values(e)
      OBVIOUS
    <3>2. GroupBy(<<e>>, keys) \in asked /\ Asked(e)
      BY <2>5, <3>1
    <3>3. Answer(GroupBy(<<e>>, keys), Table) = values(e)
      BY <1>1, <3>2, AloneAnswered
    <3>4. QED
      BY <2>1, <3>2, <3>3
  <2>7. found[Together(s, t, keys)] = Below(values(s), values(t))
    BY <1>1, <2>1, <2>3, TogetherAnswered
  <2>8. ASSUME s.op \in Operator PROVE values(s) = Computed(s.op, values(s.args[1]), values(s.args[2]))
    <3>1. TableGroups(keys) \in Seq(Seq(Pairs))
      <4>1. Table \in Seq(Pairs)
        BY <1>1, TableRows
      <4> HIDE DEF Table
      <4>2. QED
        BY <4>1, GroupsOfRows DEF TableGroups
    <3>2. \A g \in DOMAIN TableGroups(keys) : TableGroups(keys)[g] \in Seq(Pairs)
      BY <3>1
    <3>3. \A g \in DOMAIN TableGroups(keys) :
            values(s)[g] = <<Arith(s.op, values(s.args[1])[g][1], values(s.args[2])[g][1])>>
      BY <2>8, <3>2, SummaryValue
    <3>4. QED
      BY <3>3 DEF Computed
  <2> HIDE DEF values
  <2>9. QED
    BY <2>6, <2>7, <2>8 DEF AloneAndTogether
<1>2. ASSUME StoredInv PROVE ItemsAreIndependent
  <2>1. \A keys, s, t : s \in Summary /\ t \in Summary => AloneAndTogether(Answers(SummariesAsked(keys)), keys, s, t)
    BY <1>1, <1>2
  <2>2. ItemsAreIndependent <=> (Sampled => \A keys \in GroupList \union {<<>>} :
          \A s, t \in Summary : AloneAndTogether(Answers(SummariesAsked(keys)), keys, s, t))
    BY DEF ItemsAreIndependent, SummariesAsked, AloneAndTogether
  <2>3. QED
    BY <2>1, <2>2
<1>3. QED
  BY <1>2, Stored, PTL

-----------------------------------------------------------------------------
\* What is chosen from what was chosen is in both sets.
LEMMA ChosenTwice ==
  ASSUME NEW E, NEW s \in Seq(E), NEW these, NEW those
  PROVE  Chosen(Chosen(s, these), those) = Chosen(s, these \intersect those)
<1> DEFINE S == {t \in Seq(E) : Chosen(Chosen(t, these), those) = Chosen(t, these \intersect those)}
<1>1. <<>> \in S
  <2>1. <<>> \in Seq(E)
    OBVIOUS
  <2>2. QED
    BY <2>1, ChosenSteps
<1>2. ASSUME NEW t \in Seq(E), NEW v \in E, t \in S PROVE Append(t, v) \in S
  <2>1. Chosen(t, these) \in Seq(E) /\ Chosen(Append(t, v), these) = ChosenStep(these, Chosen(t, these), v)
    BY ChosenSteps
  <2>2. Chosen(Append(Chosen(t, these), v), those) = ChosenStep(those, Chosen(Chosen(t, these), those), v)
    BY <2>1, ChosenSteps
  <2>3. Chosen(Append(t, v), these \intersect those) = ChosenStep(these \intersect those, Chosen(t, these \intersect those), v)
    BY ChosenSteps
  <2>4. Append(t, v) \in Seq(E)
    OBVIOUS
  <2>5. Chosen(Chosen(t, these), those) = Chosen(t, these \intersect those)
    BY <1>2
  <2>6. CASE v \in these
    <3>1. Chosen(Append(t, v), these) = Append(Chosen(t, these), v)
      BY <2>1, <2>6 DEF ChosenStep
    <3>2. v \in these \intersect those <=> v \in those
      BY <2>6
    <3>3. Chosen(Chosen(Append(t, v), these), those) = ChosenStep(those, Chosen(t, these \intersect those), v)
      BY <2>2, <2>5, <3>1
    <3>4. ChosenStep(those, Chosen(t, these \intersect those), v)
            = ChosenStep(these \intersect those, Chosen(t, these \intersect those), v)
      BY <3>2 DEF ChosenStep
    <3>5. QED
      BY <2>3, <2>4, <3>3, <3>4
  <2>7. CASE v \notin these
    <3>1. Chosen(Append(t, v), these) = Chosen(t, these)
      BY <2>1, <2>7 DEF ChosenStep
    <3>2. v \notin these \intersect those
      BY <2>7
    <3>3. Chosen(Append(t, v), these \intersect those) = Chosen(t, these \intersect those)
      BY <2>3, <3>2 DEF ChosenStep
    <3>4. QED
      BY <2>4, <2>5, <3>1, <3>3
  <2>8. QED
    BY <2>6, <2>7
<1>3. Seq(E) \subseteq S
  <2> HIDE DEF S
  <2>1. QED
    BY <1>1, <1>2, ByAppend
<1>4. QED
  BY <1>3

\* What is in one of two sets that have nothing in common is counted in one of them.
LEMMA ChosenApart ==
  ASSUME NEW E, NEW s \in Seq(E), NEW these, NEW those, these \intersect those = {}
  PROVE  /\ Len(Chosen(s, these)) \in 0..Len(s)
         /\ Len(Chosen(s, these \union those)) = Len(Chosen(s, these)) + Len(Chosen(s, those))
<1> DEFINE S == {t \in Seq(E) :
                  /\ Len(Chosen(t, these)) \in 0..Len(t)
                  /\ Len(Chosen(t, these \union those)) = Len(Chosen(t, these)) + Len(Chosen(t, those))}
<1>1. <<>> \in S
  <2>1. <<>> \in Seq(E) /\ Len(<<>>) = 0
    OBVIOUS
  <2>2. QED
    BY <2>1, ChosenSteps
<1>2. ASSUME NEW t \in Seq(E), NEW v \in E, t \in S PROVE Append(t, v) \in S
  <2> DEFINE a == Chosen(t, these)
             b == Chosen(t, those)
             c == Chosen(t, these \union those)
  <2>1. /\ a \in Seq(E) /\ Chosen(Append(t, v), these) = ChosenStep(these, a, v)
        /\ b \in Seq(E) /\ Chosen(Append(t, v), those) = ChosenStep(those, b, v)
        /\ c \in Seq(E) /\ Chosen(Append(t, v), these \union those) = ChosenStep(these \union those, c, v)
    <3>1. \A some : Chosen(t, some) \in Seq(E) /\ Chosen(Append(t, v), some) = ChosenStep(some, Chosen(t, some), v)
      BY ChosenSteps
    <3>2. QED
      BY <3>1
  <2>2. \A u \in Seq(E) : Len(Append(u, v)) = Len(u) + 1 /\ Len(u) \in Nat
    OBVIOUS
  <2>3. Append(t, v) \in Seq(E) /\ Len(Append(t, v)) = Len(t) + 1 /\ Len(t) \in Nat
    OBVIOUS
  <2>4. Len(a) \in 0..Len(t) /\ Len(c) = Len(a) + Len(b)
    BY <1>2
  <2> HIDE DEF a, b, c
  <2>5. CASE v \in these
    <3>1. /\ Chosen(Append(t, v), these) = Append(a, v) /\ Chosen(Append(t, v), those) = b
          /\ Chosen(Append(t, v), these \union those) = Append(c, v)
      BY <2>1, <2>5 DEF ChosenStep
    <3>2. Len(a) \in Nat /\ Len(b) \in Nat /\ Len(c) \in Nat
      BY <2>1
    <3>3. Len(Append(a, v)) = Len(a) + 1 /\ Len(Append(b, v)) = Len(b) + 1 /\ Len(Append(c, v)) = Len(c) + 1
      BY <2>1, <2>2
    <3>4. QED
      BY <2>3, <2>4, <3>1, <3>2, <3>3
  <2>6. CASE v \in those
    <3>1. /\ Chosen(Append(t, v), these) = a /\ Chosen(Append(t, v), those) = Append(b, v)
          /\ Chosen(Append(t, v), these \union those) = Append(c, v)
      BY <2>1, <2>6 DEF ChosenStep
    <3>2. Len(a) \in Nat /\ Len(b) \in Nat /\ Len(c) \in Nat
      BY <2>1
    <3>3. Len(Append(a, v)) = Len(a) + 1 /\ Len(Append(b, v)) = Len(b) + 1 /\ Len(Append(c, v)) = Len(c) + 1
      BY <2>1, <2>2
    <3>4. QED
      BY <2>3, <2>4, <3>1, <3>2, <3>3
  <2>7. CASE v \notin these \union those
    <3>1. /\ Chosen(Append(t, v), these) = a /\ Chosen(Append(t, v), those) = b
          /\ Chosen(Append(t, v), these \union those) = c
      BY <2>1, <2>7 DEF ChosenStep
    <3>2. Len(a) \in Nat /\ Len(b) \in Nat /\ Len(c) \in Nat
      BY <2>1
    <3>3. Len(Append(a, v)) = Len(a) + 1 /\ Len(Append(b, v)) = Len(b) + 1 /\ Len(Append(c, v)) = Len(c) + 1
      BY <2>1, <2>2
    <3>4. QED
      BY <2>3, <2>4, <3>1, <3>2, <3>3
  <2>8. QED
    BY <2>5, <2>6, <2>7
<1>3. Seq(E) \subseteq S
  <2> HIDE DEF S
  <2>1. QED
    BY <1>1, <1>2, ByAppend
<1>4. QED
  BY <1>3

\* No value twice.
Once(s) == \A j, k \in DOMAIN s : j < k => s[j] # s[k]

\* Then what is chosen has none twice either.
LEMMA ChosenOnce ==
  ASSUME NEW E, NEW s \in Seq(E), Once(s), NEW these
  PROVE  Once(Chosen(s, these))
<1> DEFINE S == {t \in Seq(E) : Once(t) => Once(Chosen(t, these))}
<1>1. <<>> \in S
  <2>1. <<>> \in Seq(E) /\ Chosen(<<>>, these) = <<>>
    BY ChosenSteps
  <2>2. QED
    BY <2>1
<1>2. ASSUME NEW t \in Seq(E), NEW v \in E, t \in S PROVE Append(t, v) \in S
  <2> DEFINE c == Chosen(t, these)
             tv == Append(t, v)
  <2>1. tv \in Seq(E) /\ Chosen(tv, these) = ChosenStep(these, c, v)
    BY ChosenSteps
  <2>2. c \in Seq(E) /\ Range(c) \subseteq Range(t)
    BY ChosenRange
  <2>3. /\ Len(t) \in Nat /\ DOMAIN t = 1..Len(t) /\ DOMAIN tv = 1..(Len(t) + 1)
        /\ tv[Len(t) + 1] = v /\ \A k \in 1..Len(t) : tv[k] = t[k]
    OBVIOUS
  <2> HIDE DEF tv
  <2>4. ASSUME Once(tv) PROVE Once(ChosenStep(these, c, v))
    <3>1. \A k \in DOMAIN t : t[k] # v
      <4>1. SUFFICES ASSUME NEW k \in 1..Len(t) PROVE t[k] # v
        BY <2>3
      <4>2. k \in DOMAIN tv /\ Len(t) + 1 \in DOMAIN tv /\ k < Len(t) + 1
        BY <2>3
      <4>3. tv[k] # tv[Len(t) + 1]
        BY <2>4, <4>2 DEF Once
      <4>4. QED
        BY <2>3, <4>3
    <3>2. Once(t)
      BY <2>3, <2>4 DEF Once
    <3>3. Once(c)
      BY <1>2, <3>2
    <3>4. v \notin Range(c)
      BY <2>2, <3>1 DEF Range
    <3> HIDE DEF c
    <3>5. CASE v \in these
      <4> DEFINE cv == Append(c, v)
      <4>1. /\ Len(c) \in Nat /\ DOMAIN c = 1..Len(c) /\ DOMAIN cv = 1..(Len(c) + 1)
            /\ cv[Len(c) + 1] = v /\ \A k \in 1..Len(c) : cv[k] = c[k]
        BY <2>2
      <4> HIDE DEF cv
      <4>2. \A k \in 1..Len(c) : c[k] # v
        BY <3>4, <4>1 DEF Range
      <4>3. ASSUME NEW j \in 1..(Len(c) + 1), NEW k \in 1..(Len(c) + 1), j < k PROVE cv[j] # cv[k]
        <5>1. j \in 1..Len(c)
          BY <4>1, <4>3
        <5>2. CASE k = Len(c) + 1
          BY <4>1, <4>2, <5>1, <5>2
        <5>3. CASE k \in 1..Len(c)
          BY <3>3, <4>1, <4>3, <5>1, <5>3 DEF Once
        <5>4. QED
          BY <4>1, <5>2, <5>3
      <4>4. Once(cv)
        BY <4>1, <4>3 DEF Once
      <4>5. QED
        BY <3>5, <4>4 DEF ChosenStep, cv
    <3>6. CASE v \notin these
      BY <3>3, <3>6 DEF ChosenStep
    <3>7. QED
      BY <3>5, <3>6
  <2>5. QED
    BY <2>1, <2>4 DEF tv
<1>3. Seq(E) \subseteq S
  <2> HIDE DEF S
  <2>1. QED
    BY <1>1, <1>2, ByAppend
<1>4. QED
  BY <1>3

-----------------------------------------------------------------------------
\* The positions of the rows of a group.
KeysOf(keys, table) == [k \in DOMAIN table |-> KeyOf(keys, table[k])]
GroupAt(of, g) == {k \in DOMAIN of : of[k] = of[FirstOfEach(of)[g]]}
GroupNumber(of) == Len(FirstOfEach(of))

\* Every row is in one group.
LEMMA GroupsShare ==
  ASSUME NEW n \in Nat, NEW of, DOMAIN of = 1..n
  PROVE  /\ GroupNumber(of) \in Nat
         /\ UNION {GroupAt(of, g) : g \in 1..GroupNumber(of)} = 1..n
         /\ \A g, h \in 1..GroupNumber(of) : g # h => GroupAt(of, g) \intersect GroupAt(of, h) = {}
<1> DEFINE firsts == FirstOfEach(of)
           m == GroupNumber(of)
           new == {k \in DOMAIN of : \A j \in 1..(k - 1) : of[j] # of[k]}
<1>1. /\ firsts \in Seq(1..n) /\ Range(firsts) = {k \in 1..n : \A j \in 1..(k - 1) : of[j] # of[k]}
      /\ Positions(of) \in Seq(1..n) /\ firsts = Chosen(Positions(of), new)
  BY Positioned DEF FirstOfEach
<1>2. Once(Positions(of))
  BY DEF Once, Positions
<1> HIDE DEF firsts, new
<1>3. Once(firsts)
  BY <1>1, <1>2, ChosenOnce
<1>4. m \in Nat /\ DOMAIN firsts = 1..m /\ \A g \in 1..m : firsts[g] \in Range(firsts) /\ firsts[g] \in 1..n
  BY <1>1 DEF firsts, GroupNumber, Range
<1> HIDE DEF m
<1>5. \A g \in 1..m, k \in 1..n : k \in GroupAt(of, g) <=> of[k] = of[firsts[g]]
  BY DEF GroupAt, firsts
<1>6. ASSUME NEW k \in 1..n PROVE \E g \in 1..m : k \in GroupAt(of, g)
  <2> DEFINE same == {j \in 1..n : of[j] = of[k]}
  <2>1. same \in SUBSET Nat /\ same # {}
    OBVIOUS
  <2>2. PICK j \in same : \A i \in same : j <= i
    <3> HIDE DEF same
    <3>1. QED
      BY <2>1, LeastElement
  <2>3. j \in 1..n /\ of[j] = of[k]
    BY <2>2
  <2>4. \A i \in 1..(j - 1) : of[i] # of[j]
    <3>1. SUFFICES ASSUME NEW i \in 1..(j - 1), of[i] = of[j] PROVE FALSE
      OBVIOUS
    <3>2. i \in same /\ ~(j <= i)
      BY <2>3, <3>1
    <3>3. QED
      BY <2>2, <3>2
  <2>5. j \in Range(firsts)
    BY <1>1, <2>3, <2>4
  <2>6. PICK g \in 1..m : firsts[g] = j
    BY <1>4, <2>5 DEF Range
  <2>7. QED
    BY <1>5, <2>3, <2>6
<1>7. ASSUME NEW g \in 1..m, NEW h \in 1..m, NEW k \in 1..n, k \in GroupAt(of, g), k \in GroupAt(of, h) PROVE g = h
  <2>1. of[firsts[g]] = of[firsts[h]] /\ firsts[g] \in 1..n /\ firsts[h] \in 1..n
    BY <1>4, <1>5, <1>7
  <2>2. /\ \A j \in 1..(firsts[g] - 1) : of[j] # of[firsts[g]]
        /\ \A j \in 1..(firsts[h] - 1) : of[j] # of[firsts[h]]
    BY <1>1, <1>4
  <2>3. ~(firsts[h] < firsts[g])
    <3>1. SUFFICES ASSUME firsts[h] < firsts[g] PROVE FALSE
      OBVIOUS
    <3>2. firsts[h] \in 1..(firsts[g] - 1)
      BY <2>1, <3>1
    <3>3. QED
      BY <2>1, <2>2, <3>2
  <2>4. ~(firsts[g] < firsts[h])
    <3>1. SUFFICES ASSUME firsts[g] < firsts[h] PROVE FALSE
      OBVIOUS
    <3>2. firsts[g] \in 1..(firsts[h] - 1)
      BY <2>1, <3>1
    <3>3. QED
      BY <2>1, <2>2, <3>2
  <2>5. firsts[g] = firsts[h]
    BY <2>1, <2>3, <2>4
  <2>6. ~(g < h) /\ ~(h < g)
    BY <1>3, <1>4, <2>5 DEF Once
  <2>7. QED
    BY <1>4, <2>6
<1>8. \A g \in 1..m : GroupAt(of, g) \subseteq 1..n
  BY DEF GroupAt
<1>9. UNION {GroupAt(of, g) : g \in 1..m} = 1..n
  BY <1>6, <1>8
<1>10. \A g, h \in 1..m : g # h => GroupAt(of, g) \intersect GroupAt(of, h) = {}
  <2>1. SUFFICES ASSUME NEW g \in 1..m, NEW h \in 1..m, g # h, NEW k, k \in GroupAt(of, g), k \in GroupAt(of, h)
                 PROVE  FALSE
    OBVIOUS
  <2>2. QED
    BY <1>7, <1>8, <2>1
<1>11. QED
  BY <1>4, <1>9, <1>10 DEF m

\* What the groups are.
LEMMA GroupsAre ==
  ASSUME NEW E, NEW table \in Seq(E), NEW keys, keys # <<>>
  PROVE  LET of == KeysOf(keys, table)
         IN  PartitionGroups(table, keys)
               = [g \in 1..GroupNumber(of) |-> Mapped(table, Chosen(Positions(table), GroupAt(of, g)))]
<1> DEFINE of == KeysOf(keys, table)
           member(g) == Chosen(Positions(of), {k \in DOMAIN of : of[k] = of[FirstOfEach(of)[g]]})
<1>1. DOMAIN of = DOMAIN table /\ DOMAIN table = 1..Len(table) /\ Len(table) \in Nat
  BY DEF KeysOf
<1>2. Positions(of) = Positions(table)
  BY <1>1 DEF Positions
<1>3. PartitionGroups(table, keys) = [g \in DOMAIN FirstOfEach(of) |-> At(table, member(g))]
  BY DEF PartitionGroups, Partition, Members, KeysOf
<1>4. FirstOfEach(of) \in Seq(1..Len(table))
  <2> HIDE DEF of
  <2>1. QED
    BY <1>1, Positioned
<1>5. DOMAIN FirstOfEach(of) = 1..GroupNumber(of)
  BY <1>4 DEF GroupNumber
<1>6. \A ks : At(table, ks) = Mapped(table, ks)
  BY DEF At, Mapped
<1>7. \A g : member(g) = Chosen(Positions(table), GroupAt(of, g))
  BY <1>2 DEF GroupAt
<1> HIDE DEF of, member
<1>8. [g \in DOMAIN FirstOfEach(of) |-> At(table, member(g))]
        = [g \in 1..GroupNumber(of) |-> Mapped(table, Chosen(Positions(table), GroupAt(of, g)))]
  BY <1>5, <1>6, <1>7
<1>9. QED
  BY <1>3, <1>8 DEF of

\* Parts that have nothing in common.
Apart(K, m) == \A g, h \in 1..m : g # h => K[g] \intersect K[h] = {}

\* All of them, and what is counted in each.
AllOf(K, m) == UNION {K[g] : g \in 1..m}
CountsOf(w, K, m) == [g \in 1..m |-> IntV(Len(Chosen(w, K[g])))]

\* What is counted in them adds up.
LEMMA CountsSum ==
  ASSUME NEW E, NEW w \in Seq(E), Len(w) <= MaxInt, NEW m \in Nat \ {0}, NEW K, Apart(K, m)
  PROVE  Agg("SUM", CountsOf(w, K, m)) = IntV(Len(Chosen(w, AllOf(K, m))))
<1> DEFINE c(g) == Len(Chosen(w, K[g]))
           upTo(j) == [g \in 1..j |-> IntV(c(g))]
           U(j) == UNION {K[g] : g \in 1..j}
           total(j) == Len(Chosen(w, U(j)))
           sum(j) == Folded(Value, IntV(0), Sums, upTo(j))
           S == {j \in 0..m : sum(j) = IntV(total(j))}
<1>1. MinInt \in Int /\ MaxInt \in Int /\ MinInt <= 0 /\ Len(w) \in Nat
  BY Limits
<1>2. \A these : Len(Chosen(w, these)) \in 0..Len(w)
  <2>1. SUFFICES ASSUME NEW these PROVE Len(Chosen(w, these)) \in 0..Len(w)
    OBVIOUS
  <2>2. these \intersect {} = {}
    OBVIOUS
  <2>3. QED
    BY <2>2, ChosenApart
<1>3. \A these : Len(Chosen(w, these)) \in Int64 /\ IntV(Len(Chosen(w, these))) \in Value
  <2>1. \A i \in 0..Len(w) : i \in Int64
    BY <1>1 DEF Int64
  <2>2. QED
    BY <1>2, <2>1, NumbersAreValues
<1>4. \A g : c(g) \in Int64 /\ IntV(c(g)) \in Value
  BY <1>3
<1>5. \A j : total(j) \in Int64 /\ total(j) \in 0..Len(w) /\ IntV(total(j)) \in Value
  BY <1>2, <1>3
<1>6. \A j \in 1..m : total(j) = total(j - 1) + c(j)
  <2>1. SUFFICES ASSUME NEW j \in 1..m PROVE total(j) = total(j - 1) + c(j)
    OBVIOUS
  <2>2. 1..j = 1..(j - 1) \union {j} /\ \A g \in 1..(j - 1) : g \in 1..m /\ g # j
    OBVIOUS
  <2>3. U(j) = U(j - 1) \union K[j]
    BY <2>2
  <2>4. U(j - 1) \intersect K[j] = {}
    BY <2>2 DEF Apart
  <2> HIDE DEF U
  <2>5. Len(Chosen(w, U(j - 1) \union K[j])) = Len(Chosen(w, U(j - 1))) + Len(Chosen(w, K[j]))
    BY <2>4, ChosenApart
  <2>6. QED
    BY <2>3, <2>5
<1>7. \A j \in 0..m : upTo(j) \in Seq(Value)
  BY <1>4
<1>8. \A j \in 1..m : upTo(j) = Append(upTo(j - 1), IntV(c(j)))
  <2>1. SUFFICES ASSUME NEW j \in 1..m PROVE upTo(j) = Append(upTo(j - 1), IntV(c(j)))
    OBVIOUS
  <2> DEFINE before == upTo(j - 1)
             v == IntV(c(j))
  <2>2. before \in Seq(Value) /\ v \in Value /\ Len(before) = j - 1 /\ \A g \in 1..(j - 1) : before[g] = IntV(c(g))
    <3>1. j - 1 \in 0..m
      OBVIOUS
    <3>2. before \in Seq(Value) /\ v \in Value
      BY <1>4, <1>7, <3>1
    <3>3. DOMAIN before = 1..(j - 1) /\ j - 1 \in Nat
      OBVIOUS
    <3> HIDE DEF v
    <3>4. QED
      BY <3>2, <3>3
  <2> HIDE DEF before
  <2>3. Append(before, v) = [g \in 1..(Len(before) + 1) |-> IF g = Len(before) + 1 THEN v ELSE before[g]]
    <3> HIDE DEF v
    <3>1. QED
      BY <2>2, AppendIs
  <2>4. Len(before) + 1 = j
    BY <2>2
  <2>5. \A g \in 1..j : (IF g = j THEN v ELSE before[g]) = IntV(c(g))
    BY <2>2
  <2>6. Append(before, v) = upTo(j)
    <3> HIDE DEF v, c
    <3>1. QED
      BY <2>3, <2>4, <2>5
  <2>7. QED
    BY <2>6 DEF before
<1> HIDE DEF c, upTo, U, total
<1>9. Steps(Value, Value, IntV(0), Sums)
  BY SumTypes DEF Steps
<1>10. 0 \in S
  <2>1. upTo(0) = <<>>
    BY DEF upTo
  <2>2. total(0) = 0
    <3>1. U(0) = {}
      BY DEF U
    <3>2. Chosen(w, U(0)) = <<>>
      <4>1. Range(w) \intersect {} = {}
        OBVIOUS
      <4>2. Chosen(w, {}) = <<>>
        BY <4>1, ChosenAll
      <4>3. QED
        BY <3>1, <4>2
    <3>3. QED
      BY <3>2 DEF total
  <2>3. Folded(Value, IntV(0), Sums, <<>>) = IntV(0)
    BY <1>9, FoldedEmpty
  <2>4. QED
    BY <2>1, <2>2, <2>3
<1>11. ASSUME NEW j \in 1..m, j - 1 \in S PROVE j \in S
  <2>1. upTo(j - 1) \in Seq(Value) /\ IntV(c(j)) \in Value
    BY <1>4, <1>7
  <2>2. sum(j) = Sums[<<sum(j - 1), IntV(c(j))>>]
    <3>1. Folded(Value, IntV(0), Sums, Append(upTo(j - 1), IntV(c(j)))) = Sums[<<sum(j - 1), IntV(c(j))>>]
      BY <1>9, <2>1, FoldedStep
    <3>2. QED
      BY <1>8, <3>1
  <2>3. sum(j - 1) = IntV(total(j - 1)) /\ IntV(total(j - 1)) \in Value
    BY <1>5, <1>11
  <2>4. sum(j) = Arith("+", IntV(total(j - 1)), IntV(c(j)))
    BY <2>1, <2>2, <2>3 DEF Sums, SumStep
  <2>5. \A a, b : Arith("+", IntV(a), IntV(b)) = IntMath("+", a, b)
    BY DEF Arith, IntV, IsNull, NumericTypeOf
  <2>6. total(j - 1) \in Int64 /\ c(j) \in Int64 /\ total(j - 1) + c(j) \in Int64 /\ "+" \in Operator
    BY <1>4, <1>5, <1>6 DEF Operator
  <2>7. \A a, b \in Int64 : a + b \in Int64 => IntMath("+", a, b) = IntV(a + b)
    <3>1. SUFFICES ASSUME NEW a \in Int64, NEW b \in Int64, a + b \in Int64 PROVE IntMath("+", a, b) = IntV(a + b)
      OBVIOUS
    <3>2. "+" \in Operator /\ "+" \notin {"/", "%"} /\ Exact("+", a, b) = a + b
      BY DEF Operator, Exact
    <3>3. QED
      BY <3>1, <3>2, IntMathIsExact
  <2>8. sum(j) = IntV(total(j))
    BY <1>6, <2>4, <2>5, <2>6, <2>7
  <2>9. QED
    BY <2>8
<1>12. m \in S
  <2> HIDE DEF S
  <2>1. 0..m \subseteq S
    BY <1>10, <1>11, UpTo
  <2>2. QED
    BY <2>1
<1>13. Agg("SUM", upTo(m)) = sum(m)
  <2>1. upTo(m) \in Seq(Value) /\ upTo(m) # <<>>
    BY <1>7 DEF upTo
  <2>2. QED
    BY <2>1, SumFold
<1>14. QED
  BY <1>12, <1>13 DEF upTo, c, total, U, CountsOf, AllOf

\* A value for each of the first numbers.
LEMMA SequenceOf ==
  ASSUME NEW D, NEW m \in Nat, NEW s \in [1..m -> D]
  PROVE  s \in Seq(D) /\ Len(s) = m
OBVIOUS

\* The images are as many as the values.
LEMMA MappedIn ==
  ASSUME NEW D, NEW E, NEW F \in [E -> D], NEW s \in Seq(E)
  PROVE  Mapped(F, s) \in Seq(D) /\ Len(Mapped(F, s)) = Len(s)
<1>1. Len(s) \in Nat /\ DOMAIN s = 1..Len(s) /\ \A k \in 1..Len(s) : s[k] \in E
  OBVIOUS
<1>2. QED
  BY <1>1 DEF Mapped

\* Rows are counted by their positions.
Located(E, table, P, these) ==
  LET n == Len(table)
      at == {k \in 1..n : table[k] \in P}
      some == Chosen(Positions(table), these)
  IN  /\ Positions(table) \in Seq(1..n) /\ Mapped(table, Positions(table)) = table
      /\ Mapped(table, some) \in Seq(E) /\ Range(Mapped(table, some)) = {table[k] : k \in (1..n) \intersect these}
      /\ Len(Chosen(Mapped(table, some), P)) = Len(Chosen(Chosen(Positions(table), at), these))

\* They are, wherever they come from.
LEMMA RowsAt ==
  ASSUME NEW E, NEW table \in Seq(E), NEW P, NEW these
  PROVE  Located(E, table, P, these)
<1> DEFINE n == Len(table)
           at == {k \in 1..n : table[k] \in P}
           some == Chosen(Positions(table), these)
           row == [k \in 1..n |-> table[k]]
<1>1. n \in Nat /\ DOMAIN table = 1..n /\ row = table /\ row \in [1..n -> E]
  OBVIOUS
<1>2. Positions(table) \in Seq(1..n) /\ Range(Positions(table)) = 1..n
  BY <1>1, Positioned
<1>3. Mapped(table, Positions(table)) = table
  <2>1. DOMAIN Positions(table) = 1..n /\ \A k \in 1..n : Positions(table)[k] = k
    BY <1>1 DEF Positions
  <2>2. QED
    BY <1>1, <2>1 DEF Mapped
<1>4. some \in Seq(1..n) /\ Range(some) = (1..n) \intersect these
  BY <1>2, ChosenRange
<1> HIDE DEF row, n, at, some
<1>5. Mapped(table, some) \in Seq(E)
  <2>1. Mapped(row, some) \in Seq(E)
    BY <1>1, <1>4, MappedIn
  <2>2. QED
    BY <1>1, <2>1
<1>6. Range(Mapped(table, some)) = {table[k] : k \in (1..n) \intersect these}
  <2>1. Range(Mapped(table, some)) = {table[k] : k \in Range(some)}
    BY DEF Mapped, Range
  <2>2. QED
    BY <1>4, <2>1
<1>7. Len(Chosen(Mapped(table, some), P)) = Len(Chosen(some, at))
  <2>1. Alike(E, 1..n, row, P, at)
    BY <1>1 DEF Alike, at
  <2>2. Chosen(Mapped(row, some), P) = Mapped(row, Chosen(some, at))
    BY <1>4, <2>1, ChosenMapped
  <2>3. Chosen(some, at) \in Seq(1..n)
    BY <1>4, ChosenRange
  <2>4. Len(Mapped(row, Chosen(some, at))) = Len(Chosen(some, at))
    <3> DEFINE c == Chosen(some, at)
    <3>1. c \in Seq(1..n)
      BY <2>3
    <3> HIDE DEF c
    <3>2. Len(Mapped(row, c)) = Len(c)
      BY <1>1, <3>1, MappedIn
    <3>3. QED
      BY <3>2 DEF c
  <2>5. QED
    BY <1>1, <2>2, <2>4
<1>8. Chosen(some, at) = Chosen(Chosen(Positions(table), at), these)
  <2>1. Chosen(some, at) = Chosen(Positions(table), these \intersect at)
    BY <1>2, ChosenTwice DEF some
  <2>2. Chosen(Chosen(Positions(table), at), these) = Chosen(Positions(table), at \intersect these)
    BY <1>2, ChosenTwice
  <2>3. these \intersect at = at \intersect these
    OBVIOUS
  <2>4. QED
    BY <2>1, <2>2, <2>3
<1>9. QED
  BY <1>2, <1>3, <1>5, <1>6, <1>7, <1>8 DEF n, at, some, Located

\* Groups are made of the rows of the table, and what is counted in them adds up.
Counting(E, table, P, groups) ==
  /\ Len(groups) \in Nat \ {0} /\ DOMAIN groups = 1..Len(groups) /\ groups \in Seq(Seq(E))
  /\ UNION {Range(groups[g]) : g \in 1..Len(groups)} = Range(table)
  /\ Agg("SUM", [g \in 1..Len(groups) |-> IntV(Len(Chosen(groups[g], P)))]) = IntV(Len(Chosen(table, P)))
  /\ \A g \in 1..Len(groups) : Len(Chosen(groups[g], P)) \in 0..Len(table)

\* Those of GROUP BY are.
LEMMA GroupsCount ==
  ASSUME NEW E, NEW table \in Seq(E), Len(table) <= MaxInt, table # <<>>, NEW keys, keys # <<>>, NEW P
  PROVE  Counting(E, table, P, PartitionGroups(table, keys))
<1> DEFINE n == Len(table)
           of == KeysOf(keys, table)
           m == GroupNumber(of)
           K == [g \in 1..m |-> GroupAt(of, g)]
           at == {k \in 1..n : table[k] \in P}
           w == Chosen(Positions(table), at)
           part(g) == Mapped(table, Chosen(Positions(table), GroupAt(of, g)))
           groups == PartitionGroups(table, keys)
<1>1. n \in Nat \ {0} /\ DOMAIN of = 1..n /\ DOMAIN table = 1..n
  BY DEF KeysOf
<1>2. groups = [g \in 1..m |-> part(g)]
  BY GroupsAre
<1> HIDE DEF groups, of
<1>3. /\ m \in Nat /\ UNION {GroupAt(of, g) : g \in 1..m} = 1..n
      /\ \A g, h \in 1..m : g # h => GroupAt(of, g) \intersect GroupAt(of, h) = {}
  BY <1>1, GroupsShare
<1> HIDE DEF m
<1>4. m # 0
  <2>1. 1 \in 1..n
    BY <1>1
  <2>2. PICK g \in 1..m : 1 \in GroupAt(of, g)
    BY <1>3, <2>1
  <2>3. QED
    BY <2>2
<1>5. /\ Positions(table) \in Seq(1..n) /\ Mapped(table, Positions(table)) = table
      /\ \A g \in 1..m : /\ part(g) \in Seq(E) /\ Range(part(g)) = {table[k] : k \in (1..n) \intersect GroupAt(of, g)}
                         /\ Len(Chosen(part(g), P)) = Len(Chosen(w, GroupAt(of, g)))
  <2>1. \A these : Located(E, table, P, these)
    BY RowsAt
  <2>2. Located(E, table, P, {}) /\ \A g \in 1..m : Located(E, table, P, GroupAt(of, g))
    BY <2>1
  <2>3. QED
    BY <2>2 DEF Located, part
<1> HIDE DEF part
<1>6. Len(groups) = m /\ DOMAIN groups = 1..m /\ groups \in Seq(Seq(E)) /\ \A g \in 1..m : groups[g] = part(g)
  <2>1. DOMAIN groups = 1..m /\ \A g \in 1..m : groups[g] = part(g)
    BY <1>2
  <2>2. \A g \in 1..m : part(g) \in Seq(E)
    BY <1>5
  <2>3. groups \in [1..m -> Seq(E)]
    BY <1>2, <2>2
  <2>4. groups \in Seq(Seq(E)) /\ Len(groups) = m
    BY <1>3, <2>3
  <2>5. QED
    BY <2>1, <2>4
<1>7. UNION {Range(groups[g]) : g \in 1..m} = Range(table)
  <2>1. ASSUME NEW r \in Range(table) PROVE \E g \in 1..m : r \in Range(groups[g])
    <3>1. PICK k \in 1..n : r = table[k]
      BY <1>1 DEF Range
    <3>2. PICK g \in 1..m : k \in GroupAt(of, g)
      BY <1>3
    <3>3. QED
      BY <1>5, <1>6, <3>1, <3>2
  <2>2. ASSUME NEW g \in 1..m PROVE Range(groups[g]) \subseteq Range(table)
    <3>1. Range(groups[g]) = {table[k] : k \in (1..n) \intersect GroupAt(of, g)}
      BY <1>5, <1>6
    <3>2. Range(table) = {table[k] : k \in 1..n}
      BY <1>1 DEF Range
    <3>3. QED
      BY <3>1, <3>2
  <2>3. QED
    BY <2>1, <2>2
<1>8. w \in Seq(1..n)
  BY <1>5, ChosenRange
<1>9. Len(w) = Len(Chosen(table, P)) /\ Len(w) <= n /\ Chosen(w, 1..n) = w
  <2>1. Chosen(Positions(table), 1..n) = Positions(table)
    <3>1. Range(Positions(table)) \subseteq 1..n
      BY <1>5 DEF Range
    <3>2. QED
      BY <1>5, <3>1, ChosenAll
  <2>2. Range(w) \subseteq 1..n
    BY <1>8 DEF Range
  <2>3. Chosen(w, 1..n) = w
    <3> HIDE DEF w
    <3>1. QED
      BY <1>8, <2>2, ChosenAll
  <2>4. Len(Chosen(Mapped(table, Chosen(Positions(table), 1..n)), P)) = Len(Chosen(w, 1..n))
    BY RowsAt DEF Located
  <2>5. Len(Positions(table)) = n
    BY <1>1, Positioned
  <2>6. Len(w) \in 0..Len(Positions(table))
    <3>1. at \intersect {} = {}
      OBVIOUS
    <3> HIDE DEF at
    <3>2. QED
      BY <1>5, <3>1, ChosenApart
  <2>7. Mapped(table, Chosen(Positions(table), 1..n)) = table
    BY <1>5, <2>1
  <2>8. Len(Chosen(table, P)) = Len(w)
    BY <2>3, <2>4, <2>7
  <2> HIDE DEF w
  <2>9. Len(w) <= n
    BY <1>1, <2>5, <2>6
  <2>10. QED
    BY <2>3, <2>8, <2>9
<1>10. AllOf(K, m) = 1..n /\ Apart(K, m)
  BY <1>3 DEF Apart, AllOf
<1>11. \A g \in 1..m : Len(Chosen(groups[g], P)) = Len(Chosen(w, K[g]))
  BY <1>5, <1>6
<1>12. Len(w) <= MaxInt
  BY <1>1, <1>8, <1>9, Limits
<1> HIDE DEF w, K
<1>13. \A these : Len(Chosen(w, these)) \in 0..n
  <2>1. \A these : Len(Chosen(w, these)) \in 0..Len(w)
    <3>1. \A these : these \intersect {} = {}
      OBVIOUS
    <3>2. QED
      BY <1>8, <3>1, ChosenApart
  <2>2. QED
    BY <1>1, <1>8, <1>9, <2>1
<1>14. Agg("SUM", CountsOf(w, K, m)) = IntV(Len(Chosen(w, AllOf(K, m))))
  BY <1>3, <1>4, <1>8, <1>10, <1>12, CountsSum
<1>15. [g \in 1..m |-> IntV(Len(Chosen(groups[g], P)))] = CountsOf(w, K, m)
  BY <1>11 DEF CountsOf
<1>16. Counting(E, table, P, groups)
  BY <1>3, <1>4, <1>6, <1>7, <1>9, <1>10, <1>11, <1>13, <1>14, <1>15 DEF Counting
<1>17. QED
  BY <1>16 DEF groups

-----------------------------------------------------------------------------
\* What is aggregated are the values that are not NULL.
LEMMA ArgsAre == ASSUME NEW s \in Seq(Value) PROVE Args(s) = Chosen(s, Present)
<1> DEFINE S == {t \in Seq(Value) : Args(t) = Chosen(t, Present)}
<1>1. <<>> \in S
  <2>1. <<>> \in Seq(Value)
    OBVIOUS
  <2>2. QED
    BY <2>1, ArgsSteps, ChosenSteps
<1>2. ASSUME NEW t \in Seq(Value), NEW v \in Value, t \in S PROVE Append(t, v) \in S
  <2>1. Append(t, v) \in Seq(Value) /\ Args(t) = Chosen(t, Present)
    BY <1>2
  <2>2. Args(Append(t, v)) = ArgStep(Args(t), v)
    BY ArgsSteps
  <2>3. Chosen(Append(t, v), Present) = ChosenStep(Present, Chosen(t, Present), v)
    BY ChosenSteps
  <2>4. IsNull(v) <=> v \notin Present
    BY DEF Present
  <2>5. Args(Append(t, v)) = Chosen(Append(t, v), Present)
    BY <2>1, <2>2, <2>3, <2>4 DEF ArgStep, ChosenStep
  <2>6. QED
    BY <2>1, <2>5
<1>3. Seq(Value) \subseteq S
  <2> HIDE DEF S
  <2>1. QED
    BY <1>1, <1>2, ByAppend
<1>4. QED
  BY <1>3

\* So as many as there are rows that have one.
LEMMA ArgsCounted ==
  ASSUME NEW E, NEW F \in [E -> Value], NEW s \in Seq(E)
  PROVE  Len(Args(Mapped(F, s))) = Len(Chosen(s, {r \in E : F[r] \in Present}))
<1> DEFINE those == {r \in E : F[r] \in Present}
<1>1. Alike(Value, E, F, Present, those)
  BY DEF Alike
<1> HIDE DEF those
<1>2. Chosen(Mapped(F, s), Present) = Mapped(F, Chosen(s, those))
  BY <1>1, ChosenMapped
<1>3. Mapped(F, s) \in Seq(Value)
  BY MappedIn
<1>4. Args(Mapped(F, s)) = Chosen(Mapped(F, s), Present)
  BY <1>3, ArgsAre
<1>5. Chosen(s, those) \in Seq(E)
  BY ChosenRange
<1>6. ASSUME NEW t \in Seq(E) PROVE Len(Mapped(F, t)) = Len(t)
  BY DEF Mapped
<1>7. QED
  BY <1>2, <1>4, <1>5, <1>6 DEF those

\* What MIN (sign -1) and MAX (sign 1) answer.
Extreme(sign, s) == IF Args(s) = <<>> THEN NullV ELSE Best(Args(s), sign)

\* It is one of the values that are not NULL, and none of them beats it; NULL when there is none.
LEMMA ExtremeIs ==
  ASSUME NEW s \in Seq(Value), NEW sign \in {-1, 1}
  PROVE  /\ Extreme(sign, s) \in Value
         /\ IsNull(Extreme(sign, s)) \/ Extreme(sign, s) \in Range(s)
         /\ \A u \in Range(s) : ~IsNull(u) => ~IsNull(Extreme(sign, s)) /\ Beats(sign, Extreme(sign, s), u)
<1>1. Args(s) \in Seq(Present) /\ Range(Args(s)) = {v \in Range(s) : ~IsNull(v)}
  BY ArgsFacts DEF Rows
<1>2. NullV \in Value /\ IsNull(NullV)
  BY DEF Value, IsNull, NullV
<1>3. CASE Args(s) = <<>>
  <2>1. Range(Args(s)) = {}
    BY <1>3 DEF Range
  <2>2. QED
    BY <1>1, <1>2, <1>3, <2>1 DEF Extreme
<1>4. CASE Args(s) # <<>>
  <2>1. Best(Args(s), sign) \in Range(Args(s)) /\ \A u \in Range(Args(s)) : Beats(sign, Best(Args(s), sign), u)
    BY <1>1, <1>4, BestIs
  <2>2. Range(s) \subseteq Value
    BY DEF Range
  <2>3. QED
    BY <1>1, <1>4, <2>1, <2>2 DEF Extreme
<1>5. QED
  BY <1>3, <1>4

\* The extreme of the extremes of parts is that of the whole.
LEMMA ExtremesAgree ==
  ASSUME NEW parts \in Seq(Seq(Value)), NEW whole \in Seq(Value), NEW sign \in {-1, 1},
         UNION {Range(parts[g]) : g \in 1..Len(parts)} = Range(whole)
  PROVE  ValsEqual(Extreme(sign, [g \in 1..Len(parts) |-> Extreme(sign, parts[g])]), Extreme(sign, whole))
<1> DEFINE m == Len(parts)
           each == [g \in 1..m |-> Extreme(sign, parts[g])]
           total == Extreme(sign, each)
           all == Extreme(sign, whole)
<1>1. m \in Nat /\ \A g \in 1..m : parts[g] \in Seq(Value)
  OBVIOUS
<1> HIDE DEF m
<1>2. \A g \in 1..m : /\ Extreme(sign, parts[g]) \in Value
                      /\ IsNull(Extreme(sign, parts[g])) \/ Extreme(sign, parts[g]) \in Range(parts[g])
                      /\ \A u \in Range(parts[g]) : ~IsNull(u) => /\ ~IsNull(Extreme(sign, parts[g]))
                                                                  /\ Beats(sign, Extreme(sign, parts[g]), u)
  BY <1>1, ExtremeIs
<1>3. each \in Seq(Value) /\ DOMAIN each = 1..m /\ \A g \in 1..m : each[g] = Extreme(sign, parts[g]) /\ each[g] \in Range(each)
  <2>1. DOMAIN each = 1..m /\ \A g \in 1..m : each[g] = Extreme(sign, parts[g])
    OBVIOUS
  <2>2. each \in [1..m -> Value]
    BY <1>2
  <2>3. each \in Seq(Value)
    BY <1>1, <2>2, SequenceOf
  <2>4. QED
    BY <2>1, <2>3 DEF Range
<1> HIDE DEF each
<1>4. /\ total \in Value /\ (IsNull(total) \/ total \in Range(each))
      /\ \A u \in Range(each) : ~IsNull(u) => ~IsNull(total) /\ Beats(sign, total, u)
  BY <1>3, ExtremeIs
<1>5. /\ all \in Value /\ (IsNull(all) \/ all \in Range(whole))
      /\ \A u \in Range(whole) : ~IsNull(u) => ~IsNull(all) /\ Beats(sign, all, u)
  BY ExtremeIs
<1> HIDE DEF total, all
<1>6. ASSUME ~IsNull(total) PROVE ~IsNull(all) /\ Beats(sign, all, total)
  <2>1. PICK g \in 1..m : total = each[g]
    BY <1>3, <1>4, <1>6 DEF Range
  <2>2. total \in Range(parts[g])
    BY <1>2, <1>3, <1>6, <2>1
  <2>3. total \in Range(whole)
    BY <2>2 DEF m
  <2>4. QED
    BY <1>5, <1>6, <2>3
<1>7. ASSUME ~IsNull(all) PROVE ~IsNull(total) /\ Beats(sign, total, all)
  <2>1. PICK g \in 1..m : all \in Range(parts[g])
    BY <1>5, <1>7 DEF m
  <2>2. ~IsNull(each[g]) /\ Beats(sign, each[g], all) /\ each[g] \in Range(each) /\ each[g] \in Value
    BY <1>2, <1>3, <1>7, <2>1
  <2>3. ~IsNull(total) /\ Beats(sign, total, each[g])
    BY <1>4, <2>2
  <2>4. \A u, v, w \in Value : Beats(sign, u, v) /\ Beats(sign, v, w) => Beats(sign, u, w)
    BY Preorder DEF Beats
  <2>5. QED
    BY <1>4, <1>5, <2>2, <2>3, <2>4
<1>8. ValsEqual(total, all)
  <2>1. CASE IsNull(total) \/ IsNull(all)
    BY <1>6, <1>7, <2>1 DEF ValsEqual
  <2>2. CASE ~IsNull(total) /\ ~IsNull(all)
    <3>1. Beats(sign, all, total) /\ Beats(sign, total, all)
      BY <1>6, <1>7, <2>2
    <3>2. Leq(all, total) /\ Leq(total, all)
      BY <3>1 DEF Beats
    <3>3. QED
      BY <1>4, <1>5, <3>2, KeysOrder
  <2>3. QED
    BY <2>1, <2>2
<1>9. QED
  BY <1>8 DEF total, all, each, m

-----------------------------------------------------------------------------
\* COUNT, MIN and MAX, of an argument or of the rows, can be asked for.
LEMMA Aggregated ==
  ASSUME NEW op \in {"COUNT", "MIN", "MAX"}, NEW args, args = <<>> \/ \E x \in Argument : args = <<x>>
  PROVE  LET e == Tree(op, args)
         IN  /\ e \in Written /\ BareColumns(e) = {} /\ HasAggregate(e)
             /\ \A group \in Seq(Pairs) : GroupValue(e, group) = EvalAgg(e, group)
<1> DEFINE e == Tree(op, args)
<1>1. args \in Seq(Nested[MaxDepth - 1])
  <2>1. \A S : <<>> \in Seq(S) /\ \A x \in S : <<x>> \in Seq(S)
    OBVIOUS
  <2>2. Argument \subseteq Nested[MaxDepth - 1]
    BY DepthAssumption
  <2>3. QED
    BY <2>1, <2>2
<1>2. op \in Symbol /\ op \in Aggregate /\ op # "slot" /\ op \notin DOMAIN Column
  BY Tokens DEF Aggregate
<1>3. e \in Expression /\ e.op = op
  BY <1>1, <1>2, Making DEF Tree
<1> HIDE DEF e
<1>4. IsAggregate(e)
  BY <1>2, <1>3 DEF IsAggregate
<1>5. Outside(e) = {e}
  BY <1>3, <1>4, Visiting
<1>6. Unslotted(e) /\ BareColumns(e) = {} /\ HasAggregate(e)
  BY <1>2, <1>3, <1>4, <1>5 DEF Unslotted, BareColumns, HasAggregate
<1>7. \A group \in Seq(Pairs) : GroupValue(e, group) = EvalAgg(e, group)
  BY <1>3, <1>4, <1>6, Fitting DEF GroupStep
<1>8. QED
  BY <1>3, <1>6, <1>7 DEF Written, e

\* What the summaries of an argument say of a group of rows.
LEMMA SummariesSay ==
  ASSUME StoredInv, Sampled, NEW x \in Argument, NEW group \in Seq(Range(Table))
  PROVE  /\ GroupValue(Leaf("COUNT"), group) = IntV(Len(group))
         /\ GroupValue(Tree("COUNT", <<x>>), group) = IntV(Len(Chosen(group, With(x))))
         /\ GroupValue(Tree("MIN", <<x>>), group) = Extreme(-1, Mapped(ValueIn(x), group))
         /\ GroupValue(Tree("MAX", <<x>>), group) = Extreme(1, Mapped(ValueIn(x), group))
         /\ Mapped(ValueIn(x), group) \in Seq(Value)
<1>1. group \in Seq(Pairs)
  <2>1. Range(Table) \subseteq Pairs
    BY TableRows DEF Range
  <2> DEFINE R == Range(Table)
  <2> HIDE DEF R
  <2>2. R \subseteq Pairs /\ group \in Seq(R)
    BY <2>1 DEF R
  <2>3. QED
    BY <2>2
<1>2. /\ \A op \in {"COUNT", "MIN", "MAX"} : GroupValue(Tree(op, <<x>>), group) = EvalAgg(Tree(op, <<x>>), group)
      /\ GroupValue(Leaf("COUNT"), group) = EvalAgg(Leaf("COUNT"), group)
  BY <1>1, Aggregated DEF Leaf
<1>3. EvalAgg(Leaf("COUNT"), group) = IntV(Len(group))
  BY DEF EvalAgg
<1>4. ASSUME NEW op \in {"COUNT", "MIN", "MAX"}
      PROVE  EvalAgg(Tree(op, <<x>>), group) = Agg(op, Args(Mapped(ValueIn(x), group)))
  <2>1. Tree(op, <<x>>) # Leaf("COUNT") /\ Tree(op, <<x>>).op = op /\ Tree(op, <<x>>).args[1] = x
    BY DEF Tree, Leaf
  <2>2. op \notin DOMAIN Distinct
    BY DEF Distinct
  <2>3. [k \in DOMAIN group |-> Eval(x, group[k])] = Mapped(ValueIn(x), group)
    <3>1. \A k \in DOMAIN group : group[k] \in Range(Table)
      OBVIOUS
    <3>2. QED
      BY <3>1 DEF Mapped, ValueIn
  <2> DEFINE e == Tree(op, <<x>>)
  <2> HIDE DEF e
  <2>4. e # Leaf("COUNT") /\ e.op = op /\ e.args[1] = x
    BY <2>1 DEF e
  <2>5. (e.op \in DOMAIN Distinct) = FALSE
    BY <2>2, <2>4
  <2>6. EvalAgg(e, group) = Agg(op, AggArgs([k \in DOMAIN group |-> Eval(x, group[k])], e.op \in DOMAIN Distinct))
    BY <2>4, <2>5 DEF EvalAgg
  <2>7. QED
    BY <2>3, <2>5, <2>6 DEF Args, e
<1>5. ValueIn(x) \in [Range(Table) -> Value]
  BY ArgumentValues
<1>6. Mapped(ValueIn(x), group) \in Seq(Value)
  BY <1>5, MappedIn
<1>7. Len(Args(Mapped(ValueIn(x), group))) = Len(Chosen(group, With(x)))
  BY <1>5, ArgsCounted DEF With
<1>8. \A s : /\ Agg("COUNT", s) = IntV(Len(s))
             /\ Agg("MIN", s) = IF s = <<>> THEN NullV ELSE Best(s, -1)
             /\ Agg("MAX", s) = IF s = <<>> THEN NullV ELSE Best(s, 1)
  BY DEF Agg
<1>9. QED
  BY <1>2, <1>3, <1>4, <1>6, <1>7, <1>8 DEF Extreme

\* What a query for the summaries of an argument answers.
Report(x, groups) == [g \in DOMAIN groups |-> [k \in 1..4 |-> GroupValue(Summaries(x)[k], groups[g])]]

\* All of them, for every group.
LEMMA SummariesAnswered ==
  ASSUME StoredInv, NEW x \in Argument, NEW keys
  PROVE  Answer(GroupBy(Summaries(x), keys), Table) = Report(x, TableGroups(keys))
<1> DEFINE q == GroupBy(Summaries(x), keys)
<1>1. /\ q.items = Summaries(x) /\ q.where = Absent /\ q.keys = keys /\ q.having = Absent
      /\ q.distinct = FALSE /\ q.order = <<>> /\ q.limit = <<>>
  BY DEF GroupBy, SelectList
<1> HIDE DEF q
<1>2. DOMAIN Summaries(x) = 1..4
  BY DEF Summaries
<1>3. \A k \in 1..4 : LET e == Summaries(x)[k] IN e \in Written /\ BareColumns(e) = {} /\ HasAggregate(e)
  <2>1. \A op \in {"COUNT", "MIN", "MAX"} :
          LET e == Tree(op, <<x>>) IN e \in Written /\ BareColumns(e) = {} /\ HasAggregate(e)
    BY Aggregated
  <2>2. LET e == Tree("COUNT", <<>>) IN e \in Written /\ BareColumns(e) = {} /\ HasAggregate(e)
    BY Aggregated
  <2>3. /\ Summaries(x)[1] = Tree("COUNT", <<>>) /\ Summaries(x)[2] = Tree("COUNT", <<x>>)
        /\ Summaries(x)[3] = Tree("MIN", <<x>>) /\ Summaries(x)[4] = Tree("MAX", <<x>>)
    BY DEF Summaries, Leaf
  <2>4. \A k \in 1..4 : k = 1 \/ k = 2 \/ k = 3 \/ k = 4
    OBVIOUS
  <2> HIDE DEF Summaries
  <2>5. QED
    BY <2>1, <2>2, <2>3, <2>4
<1>4. Summaries(x) \in Seq(Written) \ {<<>>}
  <2>1. Summaries(x) = [k \in 1..4 |-> Summaries(x)[k]]
    BY DEF Summaries
  <2>2. Summaries(x) \in [1..4 -> Written]
    BY <1>3, <2>1
  <2> HIDE DEF Summaries
  <2>3. Summaries(x) \in Seq(Written) /\ Len(Summaries(x)) = 4
    BY <2>2, SequenceOf
  <2>4. QED
    BY <2>3
<1>5. Totals(q)
  BY <1>1, <1>2, <1>3, <1>4, AbsentIs DEF Totals, Range
<1>6. TableGroups(keys) \in Seq(Seq(Pairs))
  <2>1. Table \in Seq(Pairs)
    BY TableRows
  <2> HIDE DEF Table
  <2>2. QED
    BY <2>1, GroupsOfRows DEF TableGroups
<1>7. Answer(q, Table) = ItemsOf(Summaries(x), TableGroups(keys))
  BY <1>1, <1>5, <1>6, TotalsAnswered, AllGroups DEF TableGroups
<1>8. QED
  BY <1>2, <1>7 DEF ItemsOf, Report, q

-----------------------------------------------------------------------------
\* Counts are values, and aggregated as they are.
LEMMA CountArgs ==
  ASSUME NEW m \in Nat, NEW s, DOMAIN s = 1..m, s = [g \in 1..m |-> s[g]],
         \A g \in 1..m : \E i \in 0..MaxInt : s[g] = IntV(i)
  PROVE  s \in Seq(Value) /\ Args(s) = s
<1>1. \A i \in 0..MaxInt : IntV(i) \in Value /\ IntV(i) \in Present
  BY Limits DEF Present, Value, IntV, IsNull, Int64
<1>2. \A g \in 1..m : s[g] \in Value /\ s[g] \in Present
  BY <1>1
<1>3. s \in Seq(Value)
  <2>1. s \in [1..m -> Value]
    BY <1>2
  <2>2. QED
    BY <2>1, SequenceOf
<1>4. Range(s) \subseteq Present
  BY <1>2 DEF Range
<1>5. QED
  BY <1>3, <1>4, ArgsAre, ChosenAll

\* The same count is equal to itself.
LEMMA SameCount == \A i \in 0..MaxInt : ValsEqual(IntV(i), IntV(i))
<1>1. \A i \in 0..MaxInt : IntV(i) \in Value
  BY Limits DEF Value, IntV, Int64
<1>2. QED
  BY <1>1, KeysOrder, Preorder

\* A column of what is reported.
Entries(x, k, groups) == [g \in DOMAIN groups |-> GroupValue(Summaries(x)[k], groups[g])]

\* It is what is aggregated again.
LEMMA Columns ==
  ASSUME NEW x, NEW groups, NEW k \in 1..4, NEW func
  PROVE  Total(func, Report(x, groups), k) = Agg(func, Args(Entries(x, k, groups)))
<1>1. [g \in DOMAIN Report(x, groups) |-> Report(x, groups)[g][k]] = Entries(x, k, groups)
  BY DEF Report, Entries
<1>2. QED
  BY <1>1 DEF Total, Args

\* The rows of the table can be counted.
LEMMA TableCounts ==
  ASSUME StoredInv
  PROVE  /\ Table \in Seq(Range(Table)) /\ Len(Table) = Len(rows)
         /\ Len(Table) \in Nat /\ Len(Table) <= MaxInt
<1>1. Len(Table) = Len(rows) /\ Len(rows) <= MaxRows /\ Len(rows) \in Nat
  BY TableRows DEF StoredInv
<1>2. Table \in Seq(Range(Table))
  <2>1. Table \in Seq(Pairs)
    BY TableRows
  <2>2. \A s \in Seq(Pairs) : s \in Seq(Range(s))
    BY DEF Range
  <2>3. QED
    BY <2>1, <2>2
<1>3. QED
  BY <1>1, <1>2, CountAssumption, LiteralAssumption, Limits

\* The rows that are counted in the groups are those that are counted in the table.
LEMMA CountsAgree ==
  ASSUME StoredInv, Sampled, NEW x \in Argument, NEW keys, keys # <<>>, Table # <<>>, NEW k \in 1..2
  PROVE  ValsEqual(Total("SUM", Report(x, TableGroups(keys)), k), GroupValue(Summaries(x)[k], Table))
<1> DEFINE E == Range(Table)
           groups == TableGroups(keys)
           P == IF k = 1 THEN E ELSE With(x)
           m == Len(groups)
           counts == [g \in 1..m |-> IntV(Len(Chosen(groups[g], P)))]
<1>1. Table \in Seq(E) /\ Len(Table) \in Nat /\ Len(Table) <= MaxInt
  BY TableCounts
<1>2. \A group \in Seq(E) : GroupValue(Summaries(x)[k], group) = IntV(Len(Chosen(group, P)))
  <2>1. SUFFICES ASSUME NEW group \in Seq(E) PROVE GroupValue(Summaries(x)[k], group) = IntV(Len(Chosen(group, P)))
    OBVIOUS
  <2>2. GroupValue(Leaf("COUNT"), group) = IntV(Len(group)) /\ GroupValue(Tree("COUNT", <<x>>), group) = IntV(Len(Chosen(group, With(x))))
    BY SummariesSay
  <2>3. Chosen(group, E) = group
    <3>1. Range(group) \subseteq E
      BY DEF Range
    <3>2. QED
      BY <3>1, ChosenAll
  <2>4. Summaries(x)[1] = Leaf("COUNT") /\ Summaries(x)[2] = Tree("COUNT", <<x>>)
    BY DEF Summaries
  <2>5. k = 1 \/ k = 2
    OBVIOUS
  <2> HIDE DEF Summaries
  <2>6. QED
    BY <2>2, <2>3, <2>4, <2>5
<1> HIDE DEF P, E
<1>3. /\ m \in Nat \ {0} /\ DOMAIN groups = 1..m /\ groups \in Seq(Seq(E))
      /\ Agg("SUM", counts) = IntV(Len(Chosen(Table, P)))
      /\ \A g \in 1..m : Len(Chosen(groups[g], P)) \in 0..Len(Table)
  <2>1. Counting(E, Table, P, groups)
    BY <1>1, GroupsCount DEF TableGroups
  <2> HIDE DEF groups
  <2>2. QED
    BY <2>1 DEF Counting
<1> HIDE DEF groups, m
<1>4. Entries(x, k, groups) = counts
  BY <1>2, <1>3 DEF Entries
<1>5. Args(counts) = counts
  <2>1. \A g \in 1..m : \E i \in 0..MaxInt : counts[g] = IntV(i)
    BY <1>1, <1>3, Limits
  <2>2. DOMAIN counts = 1..m /\ counts = [g \in 1..m |-> counts[g]]
    OBVIOUS
  <2> HIDE DEF counts
  <2>3. QED
    BY <1>3, <2>1, <2>2, CountArgs
<1> HIDE DEF counts
<1>6. Total("SUM", Report(x, groups), k) = IntV(Len(Chosen(Table, P)))
  <2>1. k \in 1..4
    OBVIOUS
  <2>2. QED
    BY <1>3, <1>4, <1>5, <2>1, Columns
<1>7. GroupValue(Summaries(x)[k], Table) = IntV(Len(Chosen(Table, P)))
  BY <1>1, <1>2
<1>8. Len(Chosen(Table, P)) \in 0..MaxInt
  <2>1. P \intersect {} = {}
    OBVIOUS
  <2> HIDE DEF Table
  <2>2. Len(Chosen(Table, P)) \in 0..Len(Table)
    BY <1>1, <2>1, ChosenApart
  <2>3. QED
    BY <1>1, <2>2, Limits
<1>9. QED
  BY <1>6, <1>7, <1>8, SameCount DEF groups

\* The least of the least is the least of the table, and the greatest.
LEMMA BestAgree ==
  ASSUME StoredInv, Sampled, NEW x \in Argument, NEW keys, keys # <<>>, Table # <<>>, NEW sign \in {-1, 1}
  PROVE  LET k == IF sign = -1 THEN 3 ELSE 4
             func == IF sign = -1 THEN "MIN" ELSE "MAX"
         IN  ValsEqual(Total(func, Report(x, TableGroups(keys)), k), GroupValue(Summaries(x)[k], Table))
<1> DEFINE E == Range(Table)
           groups == TableGroups(keys)
           k == IF sign = -1 THEN 3 ELSE 4
           func == IF sign = -1 THEN "MIN" ELSE "MAX"
           m == Len(groups)
           parts == [g \in 1..m |-> Mapped(ValueIn(x), groups[g])]
           whole == Mapped(ValueIn(x), Table)
           each == [g \in 1..m |-> Extreme(sign, parts[g])]
<1>1. Table \in Seq(E) /\ Len(Table) \in Nat /\ Len(Table) <= MaxInt
  BY TableCounts
<1>2. \A group \in Seq(E) : /\ GroupValue(Summaries(x)[k], group) = Extreme(sign, Mapped(ValueIn(x), group))
                            /\ Mapped(ValueIn(x), group) \in Seq(Value)
  <2>1. SUFFICES ASSUME NEW group \in Seq(E)
                 PROVE  /\ GroupValue(Summaries(x)[k], group) = Extreme(sign, Mapped(ValueIn(x), group))
                        /\ Mapped(ValueIn(x), group) \in Seq(Value)
    OBVIOUS
  <2>2. /\ GroupValue(Tree("MIN", <<x>>), group) = Extreme(-1, Mapped(ValueIn(x), group))
        /\ GroupValue(Tree("MAX", <<x>>), group) = Extreme(1, Mapped(ValueIn(x), group))
        /\ Mapped(ValueIn(x), group) \in Seq(Value)
    BY SummariesSay
  <2>3. Summaries(x)[3] = Tree("MIN", <<x>>) /\ Summaries(x)[4] = Tree("MAX", <<x>>)
    BY DEF Summaries
  <2>4. sign = -1 \/ sign = 1
    OBVIOUS
  <2> HIDE DEF Summaries
  <2>5. QED
    BY <2>2, <2>3, <2>4
<1>3. /\ m \in Nat \ {0} /\ DOMAIN groups = 1..m /\ groups \in Seq(Seq(E))
      /\ UNION {Range(groups[g]) : g \in 1..m} = Range(Table)
  <2> HIDE DEF E
  <2>1. Counting(E, Table, E, groups)
    BY <1>1, GroupsCount DEF TableGroups
  <2> HIDE DEF groups
  <2>2. QED
    BY <2>1 DEF Counting
<1>4. k \in 1..4
  OBVIOUS
<1> HIDE DEF groups, m, k, E
<1>5. parts \in Seq(Seq(Value)) /\ Len(parts) = m /\ whole \in Seq(Value)
  <2>1. parts \in [1..m -> Seq(Value)]
    BY <1>2, <1>3
  <2>2. whole \in Seq(Value)
    BY <1>1, <1>2
  <2> HIDE DEF parts
  <2>3. QED
    BY <1>3, <2>1, <2>2, SequenceOf
<1>6. UNION {Range(parts[g]) : g \in 1..m} = Range(whole)
  <2> DEFINE F == ValueIn(x)
  <2>1. \A s : Range(Mapped(F, s)) = {F[r] : r \in Range(s)}
    BY DEF Mapped, Range
  <2> HIDE DEF F
  <2>2. \A g \in 1..m : Range(parts[g]) = {F[r] : r \in Range(groups[g])}
    BY <2>1 DEF F
  <2>3. Range(whole) = {F[r] : r \in Range(Table)}
    BY <2>1 DEF F
  <2> HIDE DEF parts, whole
  <2>4. ASSUME NEW v \in Range(whole) PROVE \E g \in 1..m : v \in Range(parts[g])
    <3>1. PICK r \in Range(Table) : v = F[r]
      BY <2>3
    <3>2. PICK g \in 1..m : r \in Range(groups[g])
      BY <1>3, <3>1
    <3>3. QED
      BY <2>2, <3>1, <3>2
  <2>5. ASSUME NEW g \in 1..m PROVE Range(parts[g]) \subseteq Range(whole)
    <3>1. Range(groups[g]) \subseteq Range(Table)
      BY <1>3
    <3>2. QED
      BY <2>2, <2>3, <3>1
  <2>6. QED
    BY <2>4, <2>5
<1>7. ValsEqual(Extreme(sign, each), Extreme(sign, whole))
  <2> HIDE DEF parts, whole
  <2>1. QED
    BY <1>5, <1>6, ExtremesAgree
<1>8. Entries(x, k, groups) = each
  BY <1>2, <1>3 DEF Entries
<1>9. Agg(func, Args(each)) = Extreme(sign, each)
  <2> HIDE DEF each
  <2>1. \A s : /\ Agg("MIN", s) = IF s = <<>> THEN NullV ELSE Best(s, -1)
               /\ Agg("MAX", s) = IF s = <<>> THEN NullV ELSE Best(s, 1)
    BY DEF Agg
  <2>2. QED
    BY <2>1 DEF Extreme
<1> HIDE DEF each, func
<1>10. Total(func, Report(x, groups), k) = Extreme(sign, each)
  BY <1>4, <1>8, <1>9, Columns
<1>11. GroupValue(Summaries(x)[k], Table) = Extreme(sign, whole)
  BY <1>1, <1>2
<1>12. QED
  BY <1>7, <1>10, <1>11 DEF groups, k, func

-----------------------------------------------------------------------------
\* A condition on groups is as good as its operands.
LEMMA Conditions ==
  ASSUME NEW op \in {"NOT", "IS"}, NEW args \in Seq(Nested[MaxDepth - 1]),
         \A k \in DOMAIN args : Unslotted(args[k]) /\ BareColumns(args[k]) = {}
  PROVE  LET e == Tree(op, args)
         IN  /\ e \in Written /\ BareColumns(e) = {} /\ e.op # "absent"
             /\ \A group \in Seq(Pairs) :
                  GroupValue(e, group)
                    = Apply(op, [k \in DOMAIN args |-> GroupValue(args[k], group)], Affinities(e, affinity))
<1> DEFINE e == Tree(op, args)
<1>1. /\ op \in Functional /\ op \in Symbol /\ op # "absent" /\ op # "slot" /\ op \notin DOMAIN Column
      /\ op \notin DOMAIN Constant /\ op \notin Aggregate \union DOMAIN Distinct
  <2>1. op \in Functional /\ op \notin Aggregate \union DOMAIN Distinct /\ op # "absent" /\ op # "slot"
    BY DEF Functional, Aggregate, Distinct
  <2>2. QED
    BY <2>1, Tokens
<1>2. e \in Expression /\ e.op = op /\ e.args = args
  BY <1>1, Making DEF Tree
<1> HIDE DEF e
<1>3. ~IsAggregate(e)
  BY <1>1, <1>2 DEF IsAggregate
<1>4. Outside(e) = {e} \union UNION {Outside(args[k]) : k \in DOMAIN args}
  BY <1>2, <1>3, Visiting
<1>5. Unslotted(e)
  <2>1. \A y \in Outside(e) : y = e \/ \E k \in DOMAIN args : y \in Outside(args[k])
    BY <1>4
  <2>2. QED
    BY <1>1, <1>2, <2>1 DEF Unslotted
<1>6. BareColumns(e) = {}
  <2>1. \A y \in Outside(e) : y = e \/ \E k \in DOMAIN args : y \in Outside(args[k])
    BY <1>4
  <2>2. \A y \in Outside(e) : y.op \notin DOMAIN Column
    BY <1>1, <1>2, <2>1 DEF BareColumns
  <2>3. QED
    BY <2>2 DEF BareColumns
<1>7. \A group \in Seq(Pairs) :
        GroupValue(e, group) = Apply(op, [k \in DOMAIN args |-> GroupValue(args[k], group)], Affinities(e, affinity))
  BY <1>1, <1>2, <1>3, <1>5, Fitting DEF GroupStep
<1>8. QED
  BY <1>1, <1>2, <1>5, <1>6, <1>7 DEF Written, e

\* NULL is NULL in every group.
LEMMA NullIs ==
  LET e == Leaf("NULL")
  IN  /\ e \in Nested[MaxDepth - 1] /\ Unslotted(e) /\ BareColumns(e) = {}
      /\ \A group \in Seq(Pairs) : GroupValue(e, group) = NullV
<1> DEFINE e == Leaf("NULL")
<1>1. e \in Nested[MaxDepth - 1] /\ e \in Expression /\ e.op = "NULL" /\ e.args = <<>>
  BY Making, Tokens DEF Leaf, Tree
<1> HIDE DEF e
<1>2. ~IsAggregate(e) /\ e.op \in DOMAIN Constant /\ e.op \notin DOMAIN Column /\ e.op # "slot"
  BY <1>1, TokenAssumption DEF IsAggregate
<1>3. Outside(e) = {e}
  BY <1>1, <1>2, Visiting
<1>4. Unslotted(e) /\ BareColumns(e) = {}
  BY <1>2, <1>3 DEF Unslotted, BareColumns
<1>5. \A group \in Seq(Pairs) : GroupValue(e, group) = NullV
  BY <1>1, <1>2, <1>4, TokenAssumption, Fitting DEF GroupStep
<1>6. QED
  BY <1>1, <1>4, <1>5 DEF e

\* The groups that a condition holds for.
Holding(c) == {group \in Seq(Pairs) : CondTrue(GroupValue(c, group))}
MayFollow(c) == c \in Written /\ BareColumns(c) = {} /\ c.op # "absent"

\* A comparison of aggregates holds, or its negation does, or it is unknown, and only one of them.
LEMMA HavingShares ==
  ASSUME NEW h \in Summary, h.op \in CompareOp
  PROVE  /\ MayFollow(h) /\ MayFollow(Not(h)) /\ MayFollow(Unknown(h))
         /\ Seq(Pairs) = (Holding(h) \union Holding(Not(h))) \union Holding(Unknown(h))
         /\ Holding(h) \intersect Holding(Not(h)) = {}
         /\ (Holding(h) \union Holding(Not(h))) \intersect Holding(Unknown(h)) = {}
<1>1. /\ Asked(h) /\ DOMAIN h.args = 1..2 /\ ~IsAggregate(h) /\ h \in Nested[MaxDepth - 1] /\ h \in Written
      /\ h \in Expression /\ Unslotted(h) /\ BareColumns(h) = {}
  BY SummaryIs DEF Asked, Written
<1>2. h.op \notin DOMAIN Column /\ h.op \notin DOMAIN Constant /\ h.op # "absent"
  BY SummaryOperators
<1>3. <<h>> \in Seq(Nested[MaxDepth - 1]) /\ <<h, Leaf("NULL")>> \in Seq(Nested[MaxDepth - 1])
  <2>1. \A S : \A x, y \in S : <<x>> \in Seq(S) /\ <<x, y>> \in Seq(S)
    OBVIOUS
  <2>2. QED
    BY <1>1, <2>1, NullIs
<1>4. ASSUME NEW group \in Seq(Pairs) PROVE GroupValue(h, group) \in Bool3
  <2>1. GroupValue(h, group)
          = Apply(h.op, [k \in DOMAIN h.args |-> GroupValue(h.args[k], group)], Affinities(h, affinity))
    BY <1>1, <1>2, Fitting DEF GroupStep
  <2>2. h.op \in Logical
    BY DEF Logical
  <2>3. QED
    BY <2>1, <2>2, LogicalAnswers
<1>5. MayFollow(Not(h)) /\ \A group \in Seq(Pairs) : GroupValue(Not(h), group) = NotValue(GroupValue(h, group))
  <2> DEFINE args == <<h>>
             e == Tree("NOT", args)
             v(group) == [k \in DOMAIN args |-> GroupValue(args[k], group)]
  <2>1. DOMAIN args = 1..1 /\ args[1] = h /\ args \in Seq(Nested[MaxDepth - 1])
    BY <1>3
  <2> HIDE DEF args
  <2>2. \A k \in DOMAIN args : Unslotted(args[k]) /\ BareColumns(args[k]) = {}
    BY <1>1, <2>1
  <2>3. MayFollow(e) /\ \A group \in Seq(Pairs) : GroupValue(e, group) = Apply("NOT", v(group), Affinities(e, affinity))
    BY <2>1, <2>2, Conditions DEF MayFollow
  <2>4. \A group : v(group)[1] = GroupValue(h, group)
    BY <2>1
  <2> HIDE DEF v
  <2>5. \A group, with : Apply("NOT", v(group), with) = NotValue(v(group)[1])
    BY LogicalIs
  <2>6. QED
    BY <2>3, <2>4, <2>5 DEF Not, args
<1>6. /\ MayFollow(Unknown(h))
      /\ \A group \in Seq(Pairs) : \E aff : GroupValue(Unknown(h), group) = Compare("IS", GroupValue(h, group), NullV, aff)
  <2> DEFINE args == <<h, Leaf("NULL")>>
             e == Tree("IS", args)
             v(group) == [k \in DOMAIN args |-> GroupValue(args[k], group)]
  <2>1. DOMAIN args = 1..2 /\ args[1] = h /\ args[2] = Leaf("NULL") /\ args \in Seq(Nested[MaxDepth - 1])
    BY <1>3
  <2> HIDE DEF args
  <2>2. \A k \in DOMAIN args : Unslotted(args[k]) /\ BareColumns(args[k]) = {}
    BY <1>1, <2>1, NullIs
  <2>3. MayFollow(e) /\ \A group \in Seq(Pairs) : GroupValue(e, group) = Apply("IS", v(group), Affinities(e, affinity))
    BY <2>1, <2>2, Conditions DEF MayFollow
  <2>4. \A group \in Seq(Pairs) : v(group)[1] = GroupValue(h, group) /\ v(group)[2] = NullV
    BY <2>1, NullIs
  <2> HIDE DEF v
  <2>5. \A group, with : Apply("IS", v(group), with) = Compare("IS", v(group)[1], v(group)[2], with[1])
    BY LogicalIs
  <2>6. QED
    BY <2>3, <2>4, <2>5 DEF Unknown, args
<1>7. ASSUME NEW group \in Seq(Pairs)
      PROVE  /\ group \in Holding(h) <=> GroupValue(h, group) = IntV(1)
             /\ group \in Holding(Not(h)) <=> GroupValue(h, group) = IntV(0)
             /\ group \in Holding(Unknown(h)) <=> GroupValue(h, group) = NullV
  <2> DEFINE b == GroupValue(h, group)
  <2>1. b \in Bool3
    BY <1>4
  <2>2. GroupValue(Not(h), group) = NotValue(b) /\ \E aff : GroupValue(Unknown(h), group) = Compare("IS", b, NullV, aff)
    BY <1>5, <1>6
  <2> HIDE DEF b
  <2>3. \A aff : Compare("IS", b, NullV, aff) = BoolV(b = NullV)
    BY <2>1 DEF Compare, IsNull, Bool3, NullV, IntV
  <2>4. CondTrue(BoolV(TRUE)) /\ ~CondTrue(BoolV(FALSE))
    BY DEF CondTrue, BoolV, IntV
  <2>5. CondTrue(GroupValue(Unknown(h), group)) <=> b = NullV
    <3>1. GroupValue(Unknown(h), group) = BoolV(b = NullV)
      BY <2>2, <2>3
    <3>2. QED
      BY <2>4, <3>1
  <2>6. CondTrue(GroupValue(Not(h), group)) <=> b = IntV(0)
    BY <2>1, <2>2, TruthAnswers, Booleans DEF Bool3
  <2>7. CondTrue(b) <=> b = IntV(1)
    BY <2>1, TruthAnswers
  <2>8. QED
    BY <2>5, <2>6, <2>7 DEF Holding, b
<1>8. \A c : Holding(c) \subseteq Seq(Pairs)
  BY DEF Holding
<1>9. MayFollow(h)
  BY <1>1, <1>2 DEF MayFollow
<1>10. QED
  BY <1>4, <1>5, <1>6, <1>7, <1>8, <1>9, Booleans DEF Bool3

\* HAVING counts the groups that it holds for.
LEMMA HavingCounts ==
  ASSUME StoredInv, NEW c, c = Absent \/ MayFollow(c), NEW keys
  PROVE  Len(Answer(Having(c, keys), Table))
           = Len(IF c = Absent THEN TableGroups(keys) ELSE Chosen(TableGroups(keys), Holding(c)))
<1> DEFINE q == Having(c, keys)
           groups == TableGroups(keys)
           items == <<Leaf("COUNT")>>
<1>1. /\ q.items = items /\ q.where = Absent /\ q.keys = keys /\ q.having = c
      /\ q.distinct = FALSE /\ q.order = <<>> /\ q.limit = <<>>
  BY DEF Having, GroupBy, SelectList
<1> HIDE DEF q
<1>2. groups \in Seq(Seq(Pairs)) /\ groups = PartitionGroups(Table, keys)
  <2>1. Table \in Seq(Pairs)
    BY TableRows
  <2> HIDE DEF Table
  <2>2. QED
    BY <2>1, GroupsOfRows DEF TableGroups
<1> HIDE DEF groups
<1>3. items \in Seq(Written) \ {<<>>} /\ \A e \in Range(items) : BareColumns(e) = {} /\ HasAggregate(e)
  <2>1. LET e == Tree("COUNT", <<>>) IN e \in Written /\ BareColumns(e) = {} /\ HasAggregate(e)
    BY Aggregated
  <2>2. \A S : \A x \in S : <<x>> \in Seq(S) \ {<<>>}
    OBVIOUS
  <2>3. \A e \in Range(items) : e = Leaf("COUNT")
    BY DEF Range
  <2>4. QED
    BY <2>1, <2>2, <2>3 DEF Leaf
<1> HIDE DEF items
<1>4. Totals(q)
  BY <1>1, <1>3, AbsentIs DEF Totals, MayFollow
<1>5. Answer(q, Table) = ItemsOf(items, Passing(c, groups))
  BY <1>1, <1>2, <1>4, TotalsAnswered
<1>6. Passing(c, groups) = IF c = Absent THEN groups ELSE Chosen(groups, Holding(c))
  <2>1. CASE c = Absent
    BY <1>2, <2>1, AllGroups
  <2>2. CASE c # Absent
    BY <2>2 DEF Passing, Holding
  <2>3. QED
    BY <2>1, <2>2
<1>7. \A s \in Seq(Seq(Pairs)) : Len(ItemsOf(items, s)) = Len(s)
  BY DEF ItemsOf
<1>8. Passing(c, groups) \in Seq(Seq(Pairs))
  <2>1. Chosen(groups, Holding(c)) \in Seq(Seq(Pairs))
    BY <1>2, ChosenRange
  <2>2. QED
    BY <1>2, <1>6, <2>1
<1>9. QED
  BY <1>5, <1>6, <1>7, <1>8 DEF q, groups

-----------------------------------------------------------------------------
\* A clause that is missing is as if it were Absent.
LEMMA Defaults ==
  ASSUME NEW items, NEW keys
  PROVE  /\ SelectList(items) = GroupBy(items, <<>>)
         /\ GroupBy(items, keys) = [GroupBy(items, keys) EXCEPT !.having = Absent]
<1> DEFINE r == SelectList(items)
           g == GroupBy(items, keys)
<1>1. r.keys = <<>> /\ "keys" \in DOMAIN r /\ r = [c \in DOMAIN r |-> r[c]]
  BY DEF SelectList
<1>2. g.having = Absent /\ "having" \in DOMAIN g /\ g = [c \in DOMAIN g |-> g[c]]
  BY DEF SelectList, GroupBy
<1> HIDE DEF r, g
<1>3. r = [r EXCEPT !.keys = <<>>]
  BY <1>1
<1>4. g = [g EXCEPT !.having = Absent]
  BY <1>2
<1>5. QED
  BY <1>3, <1>4 DEF GroupBy, r, g

\* What the summaries of an argument say of the groups adds up to what they say of the table.
LEMMA ReportsAddUp ==
  ASSUME StoredInv, Sampled, NEW x \in Argument, NEW keys, keys # <<>>
  PROVE  AddUp(Answer(GroupBy(Summaries(x), keys), Table), Answer(SelectList(Summaries(x)), Table))
<1> DEFINE groups == TableGroups(keys)
           parts == Report(x, groups)
           whole == Report(x, <<Table>>)
<1>1. Answer(GroupBy(Summaries(x), keys), Table) = parts
  BY SummariesAnswered
<1>2. Answer(SelectList(Summaries(x)), Table) = whole
  <2>1. SelectList(Summaries(x)) = GroupBy(Summaries(x), <<>>)
    BY Defaults
  <2>2. TableGroups(<<>>) = <<Table>>
    BY DEF TableGroups, PartitionGroups
  <2>3. QED
    BY <2>1, <2>2, SummariesAnswered
<1>3. /\ Len(whole) = 1 /\ DOMAIN whole[1] = 1..4
      /\ \A k \in 1..4 : whole[1][k] = GroupValue(Summaries(x)[k], Table)
  BY DEF Report
<1>4. Table \in Seq(Range(Table)) /\ Len(Table) = Len(rows)
  BY TableCounts
<1>5. whole[1][1] = IntV(Len(rows))
  <2>1. GroupValue(Leaf("COUNT"), Table) = IntV(Len(Table))
    BY <1>4, SummariesSay
  <2>2. Summaries(x)[1] = Leaf("COUNT") /\ 1 \in 1..4
    BY DEF Summaries
  <2>3. QED
    BY <1>3, <1>4, <2>1, <2>2
<1>6. ASSUME parts # <<>> PROVE Table # <<>>
  <2>1. SUFFICES ASSUME Table = <<>> PROVE parts = <<>>
    BY <1>6
  <2>2. groups = <<>>
    <3> DEFINE of == [k \in DOMAIN Table |-> KeyOf(keys, Table[k])]
               firsts == FirstOfEach(of)
               member(g) == At(Table, Chosen(Positions(of), {k \in DOMAIN of : of[k] = of[firsts[g]]}))
    <3>1. groups = [g \in DOMAIN firsts |-> member(g)]
      BY DEF TableGroups, PartitionGroups, Partition, Members
    <3>2. DOMAIN of = 1..0
      BY <2>1
    <3> HIDE DEF of
    <3>3. firsts \in Seq(1..0)
      BY <3>2, Positioned
    <3> HIDE DEF firsts, member
    <3>4. firsts = <<>>
      BY <3>3
    <3>5. QED
      BY <3>1, <3>4
  <2> HIDE DEF groups
  <2>3. QED
    BY <2>2 DEF Report
<1>7. ASSUME parts # <<>>, NEW k \in 1..4
      PROVE  ValsEqual(Total(<<"SUM", "SUM", "MIN", "MAX">>[k], parts, k), GroupValue(Summaries(x)[k], Table))
  <2>1. Table # <<>>
    BY <1>6, <1>7
  <2>2. \A j \in 1..2 : ValsEqual(Total("SUM", parts, j), GroupValue(Summaries(x)[j], Table))
    BY <2>1, CountsAgree
  <2>3. /\ ValsEqual(Total("MIN", parts, 3), GroupValue(Summaries(x)[3], Table))
        /\ ValsEqual(Total("MAX", parts, 4), GroupValue(Summaries(x)[4], Table))
    <3>1. \A sign \in {-1, 1} :
            LET j == IF sign = -1 THEN 3 ELSE 4
                func == IF sign = -1 THEN "MIN" ELSE "MAX"
            IN  ValsEqual(Total(func, parts, j), GroupValue(Summaries(x)[j], Table))
      BY <2>1, BestAgree
    <3> HIDE DEF parts
    <3>2. QED
      BY <3>1
  <2>4. k \in 1..2 \/ k = 3 \/ k = 4
    OBVIOUS
  <2> HIDE DEF parts
  <2>5. QED
    BY <2>2, <2>3, <2>4
<1> HIDE DEF parts, whole
<1>8. AddUp(parts, whole)
  BY <1>3, <1>5, <1>7 DEF AddUp
<1>9. QED
  BY <1>1, <1>2, <1>8

\* What is asked, and what is found.
ReportsAsked(x, keys) == {GroupBy(Summaries(x), keys), SelectList(Summaries(x))}
HavingAsked(h, keys) ==
  {GroupBy(<<Leaf("COUNT")>>, keys)} \union Range(<<Having(h, keys), Having(Not(h), keys), Having(Unknown(h), keys)>>)
GroupsShared(found, h, keys) ==
  Len(found[GroupBy(<<Leaf("COUNT")>>, keys)])
    = Len(found[Having(h, keys)]) + Len(found[Having(Not(h), keys)]) + Len(found[Having(Unknown(h), keys)])

\* HAVING h, HAVING NOT h and HAVING h IS NULL share out the groups.
LEMMA HavingAddsUp ==
  ASSUME StoredInv, NEW h \in Summary, h.op \in CompareOp, NEW keys,
         NEW found, found = Answers(HavingAsked(h, keys))
  PROVE  GroupsShared(found, h, keys)
<1> DEFINE groups == TableGroups(keys)
           count(c) == Len(Chosen(groups, Holding(c)))
<1>1. \A q \in HavingAsked(h, keys) : found[q] = Answer(q, Table)
  BY DEF Answers
<1>2. /\ GroupBy(<<Leaf("COUNT")>>, keys) \in HavingAsked(h, keys)
      /\ \A c \in {h, Not(h), Unknown(h)} : Having(c, keys) \in HavingAsked(h, keys)
  <2> DEFINE kept == <<Having(h, keys), Having(Not(h), keys), Having(Unknown(h), keys)>>
  <2>1. kept[1] = Having(h, keys) /\ kept[2] = Having(Not(h), keys) /\ kept[3] = Having(Unknown(h), keys) /\ DOMAIN kept = 1..3
    OBVIOUS
  <2> HIDE DEF kept
  <2>2. \A c \in {h, Not(h), Unknown(h)} : Having(c, keys) \in Range(kept)
    BY <2>1 DEF Range
  <2>3. QED
    BY <2>2 DEF HavingAsked, kept
<1>3. /\ MayFollow(h) /\ MayFollow(Not(h)) /\ MayFollow(Unknown(h))
      /\ Seq(Pairs) = (Holding(h) \union Holding(Not(h))) \union Holding(Unknown(h))
      /\ Holding(h) \intersect Holding(Not(h)) = {}
      /\ (Holding(h) \union Holding(Not(h))) \intersect Holding(Unknown(h)) = {}
  BY HavingShares
<1>4. \A c : MayFollow(c) => c # Absent
  BY AbsentIs DEF MayFollow
<1>5. Len(Answer(GroupBy(<<Leaf("COUNT")>>, keys), Table)) = Len(groups)
  <2>1. Having(Absent, keys) = GroupBy(<<Leaf("COUNT")>>, keys)
    BY Defaults DEF Having
  <2>2. Len(Answer(Having(Absent, keys), Table)) = Len(groups)
    BY HavingCounts
  <2>3. QED
    BY <2>1, <2>2
<1>6. \A c \in {h, Not(h), Unknown(h)} : Len(Answer(Having(c, keys), Table)) = count(c)
  BY <1>3, <1>4, HavingCounts
<1>7. Len(groups) = count(h) + count(Not(h)) + count(Unknown(h))
  <2>1. groups \in Seq(Seq(Pairs))
    <3>1. Table \in Seq(Pairs)
      BY TableRows
    <3>2. QED
      BY <3>1, GroupsOfRows DEF TableGroups
  <2> HIDE DEF groups
  <2> DEFINE A == Holding(h)
             B == Holding(Not(h))
             C == Holding(Unknown(h))
  <2>2. Range(groups) \subseteq (A \union B) \union C
    BY <1>3, <2>1 DEF Range
  <2>3. A \intersect B = {} /\ (A \union B) \intersect C = {}
    BY <1>3
  <2> HIDE DEF A, B, C
  <2>4. Chosen(groups, (A \union B) \union C) = groups
    BY <2>1, <2>2, ChosenAll
  <2>5. Len(Chosen(groups, (A \union B) \union C)) = Len(Chosen(groups, A \union B)) + Len(Chosen(groups, C))
    BY <2>1, <2>3, ChosenApart
  <2>6. Len(Chosen(groups, A \union B)) = Len(Chosen(groups, A)) + Len(Chosen(groups, B))
    BY <2>1, <2>3, ChosenApart
  <2>7. QED
    BY <2>4, <2>5, <2>6 DEF A, B, C
<1>8. QED
  BY <1>1, <1>2, <1>5, <1>6, <1>7 DEF GroupsShared

(* "A query without GROUP BY keys produces a single group containing every  *)
(* row (even when there are none)" (expr.go), for tables of any length and   *)
(* keys of any number: what COUNT, MIN and MAX say of the groups adds up to  *)
(* what they say of the table, and HAVING h, HAVING NOT h and HAVING h IS    *)
(* NULL share out the groups.                                               *)
THEOREM GroupsMakeUpTheTable == Spec => []GroupsAddUp
<1>1. ASSUME StoredInv, Sampled, NEW keys \in GroupList, NEW x \in Argument, NEW found, found = Answers(ReportsAsked(x, keys))
      PROVE  AddUp(found[GroupBy(Summaries(x), keys)], found[SelectList(Summaries(x))])
  <2>1. \A q \in ReportsAsked(x, keys) : found[q] = Answer(q, Table)
    BY <1>1 DEF Answers
  <2>2. GroupBy(Summaries(x), keys) \in ReportsAsked(x, keys) /\ SelectList(Summaries(x)) \in ReportsAsked(x, keys)
    BY DEF ReportsAsked
  <2>3. keys # <<>>
    BY DepthAssumption
  <2>4. QED
    BY <1>1, <2>1, <2>2, <2>3, ReportsAddUp
<1>2. ASSUME StoredInv PROVE GroupsAddUp
  <2>1. GroupsAddUp <=> (Sampled => \A keys \in GroupList :
          /\ \A x \in Argument :
               AddUp(Answers(ReportsAsked(x, keys))[GroupBy(Summaries(x), keys)],
                     Answers(ReportsAsked(x, keys))[SelectList(Summaries(x))])
          /\ \A h \in {e \in Summary : e.op \in CompareOp} : GroupsShared(Answers(HavingAsked(h, keys)), h, keys))
    BY DEF GroupsAddUp, ReportsAsked, HavingAsked, GroupsShared
  <2>2. \A keys, h : h \in Summary /\ h.op \in CompareOp => GroupsShared(Answers(HavingAsked(h, keys)), h, keys)
    BY <1>2, HavingAddsUp
  <2>3. QED
    BY <1>1, <1>2, <2>1, <2>2
<1>3. QED
  BY <1>2, Stored, PTL
=============================================================================
