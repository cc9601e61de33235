-------------------------------- MODULE Select --------------------------------
(***************************************************************************)
(* SELECT over a table of two columns: the evaluation of expression trees    *)
(* (internal/engine/expr.go) and the clauses of parseSelect (parser.go):     *)
(* WHERE, GROUP BY, HAVING, the select list, DISTINCT, ORDER BY, LIMIT.      *)
(***************************************************************************)
EXTENDS Query, Trees

CONSTANTS
  Sample,     \* bound: the values of the tables that are queried
  MaxDepth,   \* bound: depth of an expression
  Constant,   \* the values of the tokens that are literals
  Condition,  \* boolean expressions of WHERE
  Opposite,   \* condition -> the same with the operator that negates it
  Argument,   \* expressions that are aggregated and sorted
  GroupList,  \* sequences of expressions of GROUP BY
  Summary     \* expressions of select lists and HAVING with aggregates

\* The column under study and a column without affinity, which holds the literal
\* of the row after.
Column == [c \in {"a", "b"} |-> IF c = "a" THEN 1 ELSE 2]
Sampled == Range(given) \subseteq Sample
Table == [k \in DOMAIN rows |-> <<rows[k], given[(k % Len(rows)) + 1]>>]

\* The trees over the tokens, the operators of Expr.eval and the aggregates; a
\* slot is the place of an aggregate that has been computed.
Functional == Casts \union Operator \union CompareOp
                \union {"neg", "AND", "OR", "NOT", "IS", "IS NOT", "IN", "NOT IN", "BETWEEN", "NOT BETWEEN"}
Symbol == DOMAIN Column \union DOMAIN Constant \union Functional
            \union Aggregate \union DOMAIN Distinct \union {"absent"}
Slot(k) == [op |-> "slot", args |-> <<>>, slot |-> k]
Node(below) == [op : Symbol, args : Seq(below)] \union [op : {"slot"}, args : {<<>>}, slot : Nat]
Nested[n \in 0..MaxDepth] == Node(IF n = 0 THEN {} ELSE Nested[n - 1])
Expression == Nested[MaxDepth]

\* What an expression brings to a comparison, the column having affinity aff.
AffinityOf(e, aff) == CASE e = Leaf("a") -> aff
                        [] e = Leaf("b") -> "BLOB"
                        [] e.op \in Casts -> CastType(e.op)
                        [] OTHER -> "NONE"

\* The operators of Expr.eval on the values of their operands; with are the
\* affinities that the first brings together with each of the others.
Apply(op, v, with) ==
  CASE op \in Casts -> CastValue(v[1], CastType(op))
    [] op \in Operator -> Arith(op, v[1], v[2])
    [] op = "neg" -> Arith("-", IntV(0), v[1])
    [] op = "AND" -> AndValues(v[1], v[2])
    [] op = "OR" -> OrValues(v[1], v[2])
    [] op = "NOT" -> NotValue(v[1])
    [] op \in CompareOp \union {"IS", "IS NOT"} -> Compare(op, v[1], v[2], with[1])
    [] op = "IN" -> In(v[1], Tail(v), with)
    [] op = "NOT IN" -> NotValue(In(v[1], Tail(v), with))
    [] op = "BETWEEN" -> Between(v[1], v[2], v[3], with)
    [] op = "NOT BETWEEN" -> NotValue(Between(v[1], v[2], v[3], with))

\* Expr.eval; the aggregates of a group follow its columns.
Affinities(e, aff) == [k \in 1..(Len(e.args) - 1) |->
  ComparisonAffinity(AffinityOf(e.args[1], aff), AffinityOf(e.args[k + 1], aff))]
EvalIn(aff, e, row) ==
  LET eval[x \in Expression] ==
        IF x.op = "slot" THEN row[Cardinality(DOMAIN Column) + x.slot]
        ELSE IF x.op \in DOMAIN Column THEN row[Column[x.op]]
        ELSE IF x.op \in DOMAIN Constant THEN Constant[x.op]
        ELSE Apply(x.op, [k \in DOMAIN x.args |-> eval[x.args[k]]], Affinities(x, aff))
  IN  eval[e]
Eval(e, row) == EvalIn(affinity, e, row)

-----------------------------------------------------------------------------
IsAggregate(e) == e.op \in Aggregate \union DOMAIN Distinct

\* What collectAggregates, checkBareCols and collectGroupCols visit: the parts of
\* an expression that are not inside of an aggregate.
Outside(e) ==
  LET outside[x \in Expression] ==
        {x} \union (IF IsAggregate(x) THEN {} ELSE UNION {outside[x.args[k]] : k \in DOMAIN x.args})
  IN  outside[e]
HasAggregate(e) == \E x \in Outside(e) : IsAggregate(x)
BareColumns(e) == {x.op : x \in Outside(e)} \intersect DOMAIN Column

\* replaceAggregates: every aggregate becomes the place of its value behind the
\* columns.  slots collects them, over the select list and HAVING.
Slotted(e, slots) == [e |-> e, slots |-> slots]
WithOperand(done, operand) ==
  LET r == operand[done.slots]
  IN  Slotted(Tree(done.e.op, Append(done.e.args, r.e)), r.slots)
WithOperands(start, operands) == FoldLeft(WithOperand, start, operands)
ReplaceAggregates(e, slots) ==
  LET replace[x \in Expression] ==
        [before \in Seq(Expression) |->
           IF IsAggregate(x) THEN Slotted(Slot(Len(before) + 1), Append(before, x))
           ELSE WithOperands(Slotted(Leaf(x.op), before), [k \in DOMAIN x.args |-> replace[x.args[k]]])]
  IN  replace[e][slots]
WithSlots_Slip(es) ==
  FoldLeft(LAMBDA done, e : LET r == ReplaceAggregates(e, <<>>)
                            IN  Slotted(Append(done.e, r.e), done.slots \o r.slots),
           Slotted(<<>>, <<>>), es)
WithSlots(es) ==
  FoldLeft(LAMBDA done, e : LET r == ReplaceAggregates(e, done.slots)
                            IN  Slotted(Append(done.e, r.e), r.slots),
           Slotted(<<>>, <<>>), es)

EvalAgg(e, group) ==
  IF e = Leaf("COUNT") THEN IntV(Len(group))
  ELSE Agg(IF e.op \in DOMAIN Distinct THEN Distinct[e.op] ELSE e.op,
           AggArgs([k \in DOMAIN group |-> Eval(e.args[1], group[k])], e.op \in DOMAIN Distinct))

\* Those of a sequence that are in a set, in their order.
Chosen(s, these) == FoldLeft(LAMBDA out, v : IF v \in these THEN Append(out, v) ELSE out, <<>>, s)
Positions(s) == [k \in DOMAIN s |-> k]

(* partitionGroups: in the order of their first rows.  No key, one group.   *)
(* The code joins the texts of a key by control characters, which are taken  *)
(* not to occur in the texts themselves.                                    *)
KeyOf(keys, row) == [k \in DOMAIN keys |-> GroupKey(Eval(keys[k], row))]
FirstOfEach(s) == Chosen(Positions(s), {k \in DOMAIN s : \A j \in 1..(k - 1) : s[j] # s[k]})
At(table, ks) == [k \in DOMAIN ks |-> table[ks[k]]]
Members(table, of, firsts) ==
  [g \in DOMAIN firsts |-> At(table, Chosen(Positions(of), {k \in DOMAIN of : of[k] = of[firsts[g]]}))]
Partition(table, of) == Members(table, of, FirstOfEach(of))
PartitionGroups_Slip(table, keys) ==
  LET known == Chosen(table, {row \in Range(table) : NullText \notin Range(KeyOf(keys, row))})
  IN  IF keys = <<>> THEN Chosen(<<table>>, {table} \ {<<>>})
      ELSE Partition(known, [k \in DOMAIN known |-> KeyOf(keys, known[k])])
PartitionGroups(table, keys) ==
  IF keys = <<>> THEN <<table>> ELSE Partition(table, [k \in DOMAIN table |-> KeyOf(keys, table[k])])

-----------------------------------------------------------------------------
(* A query: its select list, WHERE, GROUP BY, HAVING, DISTINCT, ORDER BY    *)
(* (positions in the list, and DESC) and LIMIT with OFFSET; Absent where a  *)
(* clause is missing.                                                       *)
Absent == Leaf("absent")
SelectList(items) == [items |-> items, where |-> Absent, keys |-> <<>>, having |-> Absent,
                      distinct |-> FALSE, order |-> <<>>, limit |-> <<>>]

\* A group as a row: the first of its rows, and the values of the aggregates.
GroupRow(slots, group) ==
  (IF group = <<>> THEN [c \in 1..Cardinality(DOMAIN Column) |-> NullV] ELSE group[1])
    \o [k \in DOMAIN slots |-> EvalAgg(slots[k], group)]
GroupTable(slots, groups) == [g \in DOMAIN groups |-> GroupRow(slots, groups[g])]

\* WHERE on the rows of the table, HAVING on those of the groups; the select list.
Filter(table, condition) ==
  Chosen(table, {row \in Range(table) : condition = Absent \/ CondTrue(Eval(condition, row))})
Items(es, table) == [r \in DOMAIN table |-> [k \in DOMAIN es |-> Eval(es[k], table[r])]]

\* dedupRows
DedupRows(out) ==
  FoldLeft(LAMBDA kept, r :
             IF \E j \in DOMAIN kept : \A k \in DOMAIN r : ValsEqual(kept[j][k], r[k])
               THEN kept ELSE Append(kept, r),
           <<>>, out)

\* sortRowsByKeys: the first key that tells two rows apart.
CompareRows(r, s, order) ==
  FoldLeft(LAMBDA c, key : IF c # 0 THEN c ELSE OrderCompare(r[key.position], s[key.position], key.desc),
           0, order)
SortRowsByKeys(out, order) ==
  FoldLeft(LAMBDA sorted, r :
             LET k == Cardinality({j \in DOMAIN sorted : CompareRows(r, sorted[j], order) >= 0})
             IN  InsertAt(sorted, k + 1, r),
           <<>>, out)

\* LIMIT and OFFSET: a negative limit is none, a negative offset is 0.
Page_Slip(out, limit, offset) ==
  LET from == IF offset < 0 THEN 0 ELSE offset
  IN  SubSeq(out, from + 1, IF limit \in 0..Len(out) THEN limit ELSE Len(out))
Page(out, limit, offset) ==
  LET from == IF offset < 0 THEN 0 ELSE offset
      rest == SubSeq(out, from + 1, Len(out))
  IN  IF limit >= 0 /\ limit < Len(rest) THEN SubSeq(rest, 1, limit) ELSE rest

\* parseSelect
NotAnswered == <<"refused">>
Grouped(q) == q.keys # <<>> \/ \E e \in Range(q.items) \union {q.having} : HasAggregate(e)
Refuses(q) ==
  LET allowed == UNION {BareColumns(q.keys[k]) : k \in DOMAIN q.keys}
  IN  \/ q.having # Absent /\ ~Grouped(q)
      \/ q.keys # <<>> /\ \E e \in Range(q.items) \union {q.having} : ~(BareColumns(e) \subseteq allowed)
      \/ \E k \in DOMAIN q.order : q.order[k].position > Len(q.items)

GroupItems(q, slotted, table) ==
  Items(Front(slotted.e), Filter(GroupTable(slotted.slots, PartitionGroups(table, q.keys)), Last(slotted.e)))
Output(q, table) == IF Grouped(q) THEN GroupItems(q, WithSlots(Append(q.items, q.having)), table)
                    ELSE Items(q.items, table)
Deduped(q, out) == IF q.distinct THEN DedupRows(out) ELSE out
Ordered(q, out) == IF q.order = <<>> THEN out ELSE SortRowsByKeys(out, q.order)
Paged(q, out) == IF q.limit = <<>> THEN out ELSE Page(out, IntValueOf(q.limit[1]), IntValueOf(q.limit[2]))
Answer(q, table) ==
  IF Refuses(q) THEN NotAnswered
  ELSE Paged(q, Ordered(q, Deduped(q, Output(q, Filter(table, q.where)))))

-----------------------------------------------------------------------------
(* The expressions that the properties below are about.  A literal is no    *)
(* name of anything else; nothing is too deep to become an operand.         *)
ASSUME TokenAssumption ==
  /\ DOMAIN Constant \intersect (DOMAIN Column \union Functional \union Aggregate
                                  \union DOMAIN Distinct \union {"slot", "absent"}) = {}
  /\ "NULL" \in DOMAIN Constant /\ Constant["NULL"] = NullV
ASSUME DepthAssumption ==
  /\ MaxDepth \in Nat \ {0}
  /\ Condition \union Argument \union Summary \subseteq Nested[MaxDepth - 1]
  /\ GroupList \subseteq Seq(Expression) \ {<<>>}

\* A condition and its opposite differ in an operator, or are a disjunction and
\* the conjunction of the opposites of its operands.
Negation == {<<"=", "<>">>, <<"=", "!=">>, <<"<", ">=">>, <<">", "<=">>, <<"IS", "IS NOT">>,
             <<"IN", "NOT IN">>, <<"BETWEEN", "NOT BETWEEN">>}
Negates(e, f) == e.args = f.args /\ {<<e.op, f.op>>, <<f.op, e.op>>} \intersect Negation # {}
ASSUME ConditionAssumption == \A e \in Condition :
  LET f == Opposite[e]
  IN  /\ ~HasAggregate(e) /\ f \in Expression
      /\ \/ Negates(e, f)
         \/ /\ {e.op, f.op} = {"AND", "OR"} /\ Len(e.args) = 2 /\ Len(f.args) = 2
            /\ \A k \in 1..2 : Negates(e.args[k], f.args[k])

\* An argument has a value in every row.
ASSUME ArgumentAssumption == \A x \in Argument :
  /\ ~HasAggregate(x)
  /\ \A aff \in Affinity, w \in Sample : \A v \in UNION {ApplyAffinity(u, aff) : u \in Sample} :
       EvalIn(aff, x, <<v, w>>) \in Value

\* A summary is an operation on expressions of aggregates; no slot is written.
ASSUME SummaryAssumption == \A e \in Summary :
  /\ e.op \in Operator \union CompareOp /\ Len(e.args) = 2
  /\ \A x \in Outside(e) : x.op # "slot"
  /\ BareColumns(e) = {} /\ \A k \in 1..2 : HasAggregate(e.args[k])

\* The rows of a group can be counted.
ASSUME CountAssumption == MaxRows <= MaxInt

-----------------------------------------------------------------------------
Answers(qs) == [q \in qs |-> Answer(q, Table)]
Where(e) == [SelectList(<<Leaf("a"), Leaf("b")>>) EXCEPT !.where = e]
Shares(parts, whole) == /\ UNION Range(parts) = whole
                        /\ \A j, k \in DOMAIN parts : j # k => parts[j] \intersect parts[k] = {}
Not(e) == Tree("NOT", <<e>>)
Unknown(e) == Tree("IS", <<e, Leaf("NULL")>>)
Parted(e, found) == /\ Shares([k \in 1..3 |-> Range(found[Where(<<e, Not(e), Unknown(e)>>[k])])], Range(Table))
                    /\ found[Where(Opposite[e])] = found[Where(Not(e))]

(* NULL propagation in WHERE, through IN, BETWEEN, IS, CAST and the         *)
(* affinities of every comparison: a row is returned by exactly one of      *)
(* WHERE e, WHERE NOT e and WHERE e IS NULL, and by WHERE NOT e when the     *)
(* operator that negates e returns it.                                      *)
WherePartitions == Sampled => \A e \in Condition :
  Parted(e, Answers({Where(e), Where(Not(e)), Where(Unknown(e)), Where(Opposite[e])}))

GroupBy(items, keys) == [SelectList(items) EXCEPT !.keys = keys]
Summaries(x) == <<Leaf("COUNT"), Tree("COUNT", <<x>>), Tree("MIN", <<x>>), Tree("MAX", <<x>>)>>
Having(h, keys) == [GroupBy(<<Leaf("COUNT")>>, keys) EXCEPT !.having = h]
Total(func, parts, k) == Agg(func, AggArgs([g \in DOMAIN parts |-> parts[g][k]], FALSE))
AddUp(parts, whole) ==
  /\ Len(whole) = 1 /\ whole[1][1] = IntV(Len(rows))
  /\ parts # <<>> => \A k \in DOMAIN whole[1] :
       ValsEqual(Total(<<"SUM", "SUM", "MIN", "MAX">>[k], parts, k), whole[1][k])

(* "A query without GROUP BY keys produces a single group containing every  *)
(* row (even when there are none)" (expr.go): what the aggregates say of    *)
(* the groups adds up to what they say of the table, and HAVING h, HAVING   *)
(* NOT h and HAVING h IS NULL share out the groups.                         *)
GroupsAddUp == Sampled => \A keys \in GroupList :
  /\ \A x \in Argument :
       LET parts == GroupBy(Summaries(x), keys)
           whole == SelectList(Summaries(x))
           holds(found) == AddUp(found[parts], found[whole])
       IN  holds(Answers({parts, whole}))
  /\ \A h \in {e \in Summary : e.op \in CompareOp} :
       LET all  == GroupBy(<<Leaf("COUNT")>>, keys)
           kept == <<Having(h, keys), Having(Not(h), keys), Having(Unknown(h), keys)>>
           number(found, q) == Len(found[q])
           holds(found) == number(found, all) = number(found, kept[1]) + number(found, kept[2])
                                                  + number(found, kept[3])
       IN  holds(Answers({all} \union Range(kept)))

Together(s, t, keys) == [GroupBy(<<s, t>>, keys) EXCEPT !.having = Tree("<", <<t, s>>)]
Computed(op, xs, ys) == [g \in DOMAIN xs |-> <<Arith(op, xs[g][1], ys[g][1])>>]
Below(xs, ys) == LET both == [g \in DOMAIN xs |-> <<xs[g][1], ys[g][1]>>]
                 IN  Chosen(both, {r \in Range(both) : CondTrue(Compare("<", r[2], r[1], "NONE"))})

(* "Rewrite aggregates across items + HAVING into one shared slot list"     *)
(* (parser.go): every item, and every operand of one, has the value that it *)
(* has alone, and HAVING chooses the groups by what it has there.           *)
ItemsAreIndependent == Sampled => \A keys \in GroupList \union {<<>>} :
  LET alone(e) == GroupBy(<<e>>, keys)
      holds(found) == \A s, t \in Summary :
        /\ s.op \in Operator =>
             found[alone(s)] = Computed(s.op, found[alone(s.args[1])], found[alone(s.args[2])])
        /\ found[Together(s, t, keys)] = Below(found[alone(s)], found[alone(t)])
  IN  holds(Answers({alone(e) : e \in Summary \union UNION {Range(s.args) : s \in Summary}}
                      \union {Together(s, t, keys) : s, t \in Summary}))

Precedes(r, s, desc) == \/ OrderCompare(r[1], s[1], desc) < 0
                         \/ /\ OrderCompare(r[1], s[1], desc) = 0
                            /\ OrderCompare(r[2], s[2], ~desc) <= 0
Arranged(all, plain, desc) ==
  LET equalTo(r, out) == Chosen(out, {s \in Range(out) : \A k \in DOMAIN r : ValsEqual(s[k], r[k])})
  IN  /\ \A j, k \in DOMAIN all : j < k => Precedes(all[j], all[k], desc)
      /\ \A r \in Range(plain) : equalTo(r, all) = equalTo(r, plain)
PageOf(q, n, k) == [q EXCEPT !.limit = <<IntV(n), IntV(n * (k - 1))>>]
Joined(parts) == FoldLeft(LAMBDA whole, part : whole \o part, <<>>, parts)
Cover(found, all, plain, desc) ==
  /\ Arranged(found[all], found[plain], desc)
  /\ \A n \in DOMAIN rows : found[all] = Joined([k \in DOMAIN rows |-> found[PageOf(all, n, k)]])
  /\ found[PageOf(all, -1, 2)] = found[all] /\ found[PageOf(all, 0, 1)] = <<>>

Unsorted(x, distinct) == [SelectList(<<x, Leaf("b")>>) EXCEPT !.distinct = distinct]
ByBoth(q) == [q EXCEPT !.order = <<[position |-> 1, desc |-> ~q.distinct], [position |-> 2, desc |-> q.distinct]>>]
Pages(q) == {PageOf(q, n, k) : n, k \in DOMAIN rows} \union {PageOf(q, -1, 2), PageOf(q, 0, 1)}

(* ORDER BY with two keys orders by the first and, where it is equal, by    *)
(* the second, leaving the other rows as they were; LIMIT with OFFSET cuts  *)
(* the ordered rows into pages that make up the whole, and a negative LIMIT *)
(* is none.                                                                 *)
PagesCover == Sampled => \A x \in Argument, distinct \in BOOLEAN :
  LET plain == Unsorted(x, distinct)
      all   == ByBoth(plain)
  IN  Cover(Answers({plain, all} \union Pages(all)), all, plain, ~distinct)
=============================================================================
