---------------------------- MODULE CatalogProofs ----------------------------
EXTENDS Catalog, SequenceTheorems, WellFoundedInduction, TLAPS

\* A set of numbers that is not empty has a least one.
LEMMA Least == ASSUME NEW S \in SUBSET Nat, S # {}
               PROVE  \E i \in S : \A j \in S : i <= j
<1>1. PICK i \in S : \A j \in S : <<j, i>> \notin OpToRel(<, Nat)
  BY NatLessThanWellFounded, WFMin, Zenon
<1>2. ASSUME NEW j \in S PROVE i <= j
  <2>1. <<j, i>> \in Nat \X Nat
    OBVIOUS
  <2>2. ~(j < i)
    BY <1>1, <2>1 DEF OpToRel
  <2>3. QED
    BY <2>2
<1>3. QED
  BY <1>2

Named(columns, cn) == {i \in DOMAIN columns : columns[i].name = cn}

\* columnIndex returns the first column of the name, or 0 if there is none.
LEMMA ColumnIndexIs ==
  ASSUME NEW S, NEW columns \in Seq(S), NEW cn
  PROVE  /\ Named(columns, cn) = {} => ColumnIndex(columns, cn) = 0
         /\ Named(columns, cn) # {} =>
              /\ ColumnIndex(columns, cn) \in Named(columns, cn)
              /\ \A j \in Named(columns, cn) : ColumnIndex(columns, cn) <= j
<1>1. DOMAIN columns \subseteq Nat /\ 0 \notin DOMAIN columns
  BY LenProperties
<1>2. CASE Named(columns, cn) = {}
  BY <1>2 DEF ColumnIndex, Named
<1>3. CASE Named(columns, cn) # {}
  <2>1. \E i \in Named(columns, cn) : \A j \in Named(columns, cn) : i <= j
    BY <1>1, <1>3, Least DEF Named
  <2>2. ColumnIndex(columns, cn) = CHOOSE i \in Named(columns, cn) :
                                     \A j \in Named(columns, cn) : i <= j
    BY <1>3 DEF ColumnIndex, Named
  <2>3. QED
    BY <1>3, <2>1, <2>2
<1>4. QED
  BY <1>2, <1>3

\* It depends on nothing but the names.
LEMMA ColumnIndexSame ==
  ASSUME NEW columns \in Seq(ColumnType), NEW others \in Seq(ColumnType),
         Len(columns) = Len(others),
         \A i \in DOMAIN columns : columns[i].name = others[i].name,
         NEW cn
  PROVE  ColumnIndex(columns, cn) = ColumnIndex(others, cn)
<1>1. DOMAIN columns = DOMAIN others
  BY LenProperties
<1>2. Named(columns, cn) = Named(others, cn)
  BY <1>1 DEF Named
<1>3. Named(columns, cn) \subseteq Nat
  BY LenProperties DEF Named
<1>4. QED
  BY <1>2, <1>3, ColumnIndexIs

\* A column that is there keeps its index when another one is added.
LEMMA ColumnIndexAppend ==
  ASSUME NEW columns \in Seq(ColumnType), NEW column \in ColumnType, NEW cn,
         ColumnIndex(columns, cn) # 0
  PROVE  ColumnIndex(Append(columns, column), cn) = ColumnIndex(columns, cn)
<1> DEFINE longer == Append(columns, column)
<1>1. /\ longer \in Seq(ColumnType) /\ Len(columns) \in Nat
      /\ DOMAIN columns = 1..Len(columns) /\ DOMAIN longer = 1..(Len(columns) + 1)
      /\ \A i \in DOMAIN columns : longer[i] = columns[i]
  BY AppendProperties, LenProperties
<1> HIDE DEF longer
<1>2. /\ Named(columns, cn) # {}
      /\ ColumnIndex(columns, cn) \in Named(columns, cn)
      /\ \A j \in Named(columns, cn) : ColumnIndex(columns, cn) <= j
  BY ColumnIndexIs
<1>3. /\ Named(columns, cn) \subseteq Named(longer, cn)
      /\ \A j \in Named(longer, cn) : j \in Named(columns, cn) \/ j = Len(columns) + 1
  BY <1>1 DEF Named
<1>4. /\ ColumnIndex(longer, cn) \in Named(longer, cn)
      /\ \A j \in Named(longer, cn) : ColumnIndex(longer, cn) <= j
  BY <1>1, <1>2, <1>3, ColumnIndexIs
<1>5. ColumnIndex(columns, cn) \in 1..Len(columns)
  BY <1>1, <1>2 DEF Named
<1>6. /\ ColumnIndex(longer, cn) <= ColumnIndex(columns, cn)
      /\ ColumnIndex(longer, cn) \in 1..(Len(columns) + 1)
  BY <1>1, <1>2, <1>3, <1>4 DEF Named
<1>7. ColumnIndex(columns, cn) <= ColumnIndex(longer, cn)
  BY <1>1, <1>2, <1>3, <1>4, <1>5, <1>6
<1>8. QED
  BY <1>1, <1>5, <1>6, <1>7 DEF longer
-----------------------------------------------------------------------------
\* No two columns in a CREATE TABLE have the same name; the code does not check it.
DistinctNames == \A def \in Definition : \A i, j \in DOMAIN def.columns :
                   def.columns[i].name = def.columns[j].name => i = j

\* No renaming hits the word TABLE of a stored text.
KeywordKept == \A old, new \in TableName : Untouched("TABLE", old, new)

(* What is true of every table on its own and kept by every statement.  A   *)
(* stored definition must agree with the columns, or a restart would declare *)
(* keys the rows were never checked against; the columns of a key must       *)
(* exist, and a unique column be the first of its name, or INSERT would      *)
(* compare the values of another one.  That last one, and so the keys, takes *)
(* distinct names.  The key lists take the word TABLE as well: a text without *)
(* it is not read, and read again, with the keys of old, once a second       *)
(* renaming puts it back.                                                   *)
SqlColumns(t) ==
  /\ Len(t.sql.columns) = Len(t.columns)
  /\ \A i \in DOMAIN t.columns : /\ t.sql.columns[i].name = t.columns[i].name
                                 /\ t.sql.columns[i].notNull = t.columns[i].notNull
                                 /\ t.sql.columns[i].unique = t.columns[i].unique
SqlKeys(t) == KeywordKept => /\ t.sql.head[2] = "TABLE"
                             /\ t.sql.parses => t.sql.keys = t.uniqueKeys
SqlFits(t) == (t.sql.parses => SqlColumns(t)) /\ SqlKeys(t)
KeysNamed(t) == KeywordKept =>
  \A key \in t.uniqueKeys : \A cn \in key : ColumnIndex(t.columns, cn) # 0
UniqueFirst(t) == DistinctNames => \A i \in DOMAIN t.columns :
  t.columns[i].unique => ColumnIndex(t.columns, t.columns[i].name) = i
Typed(t) == DOMAIN t.rows \subseteq Row /\ t \in Table(DOMAIN t.rows) /\ RowsFit(t)
Kept(t) == ~t.updated => (DistinctNames /\ KeywordKept => KeysUnique(t)) /\ NoNulls(t)
Good(t) == Typed(t) /\ SqlFits(t) /\ KeysNamed(t) /\ UniqueFirst(t) /\ Kept(t)

\* The stored text of a table.
SqlType == [head : [1..3 -> Word], columns : Seq(ColumnType), keys : KeyLists, parses : BOOLEAN]

\* What a definition of columns renders to.
LEMMA RenderIs ==
  ASSUME NEW name \in TableName, NEW columns \in Seq(ColumnType), NEW keys \in KeyLists
  PROVE  LET sql == Render(name, columns, keys) IN
         /\ sql \in SqlType
         /\ sql.head = <<"CREATE", "TABLE", name>> /\ sql.head[2] = "TABLE"
         /\ sql.keys = keys /\ Len(sql.columns) = Len(columns)
         /\ \A i \in DOMAIN columns : /\ sql.columns[i].name = columns[i].name
                                      /\ sql.columns[i].notNull = columns[i].notNull
                                      /\ sql.columns[i].unique = columns[i].unique
<1> DEFINE cols == [i \in DOMAIN columns |-> Unresolved(columns[i])]
<1>1. Len(columns) \in Nat /\ DOMAIN columns = 1..Len(columns) /\ columns \in [1..Len(columns) -> ColumnType]
  BY LenProperties
<1>2. \A c \in ColumnType : /\ Unresolved(c) \in ColumnType
                            /\ Unresolved(c).name = c.name
                            /\ Unresolved(c).notNull = c.notNull
                            /\ Unresolved(c).unique = c.unique
  BY DEF Unresolved, ColumnType
<1>3. cols \in [1..Len(columns) -> ColumnType]
  BY <1>1, <1>2
<1>4. cols \in Seq(ColumnType) /\ Len(cols) = Len(columns)
  BY <1>1, <1>3, SeqDef, LenProperties
<1>5. <<"CREATE", "TABLE", name>> \in [1..3 -> Word] /\ <<"CREATE", "TABLE", name>>[2] = "TABLE"
  BY WordAssumption
<1> HIDE DEF cols
<1>6. /\ Render(name, columns, keys) \in SqlType
      /\ Render(name, columns, keys).head = <<"CREATE", "TABLE", name>>
      /\ Render(name, columns, keys).keys = keys
      /\ Render(name, columns, keys).columns = cols
  BY <1>4, <1>5 DEF Render, SqlType, cols
<1>7. QED
  BY <1>1, <1>2, <1>4, <1>5, <1>6 DEF cols
\* Marking columns as unique changes nothing else.
LEMMA MarkIs ==
  ASSUME NEW columns \in Seq(ColumnType), NEW groups
  PROVE  /\ Mark(columns, groups) \in Seq(ColumnType)
         /\ Len(Mark(columns, groups)) = Len(columns)
         /\ DOMAIN Mark(columns, groups) = DOMAIN columns
         /\ \A i \in DOMAIN columns : Mark(columns, groups)[i].name = columns[i].name
<1>1. Len(columns) \in Nat /\ DOMAIN columns = 1..Len(columns) /\ columns \in [1..Len(columns) -> ColumnType]
  BY LenProperties
<1>2. \A c \in ColumnType, u \in BOOLEAN :
        [c EXCEPT !.unique = u] \in ColumnType /\ [c EXCEPT !.unique = u].name = c.name
  BY DEF ColumnType
<1>3. ASSUME NEW i \in DOMAIN columns
      PROVE  Mark(columns, groups)[i] \in ColumnType /\ Mark(columns, groups)[i].name = columns[i].name
  <2>1. columns[i] \in ColumnType /\ columns[i].unique \in BOOLEAN
    BY <1>1 DEF ColumnType
  <2>2. PICK u \in BOOLEAN : Mark(columns, groups)[i] = [columns[i] EXCEPT !.unique = u]
    BY <2>1 DEF Mark
  <2>3. QED
    BY <1>2, <2>1, <2>2
<1>4. Mark(columns, groups) \in [1..Len(columns) -> ColumnType]
  BY <1>1, <1>3 DEF Mark
<1>5. QED
  BY <1>1, <1>3, <1>4, SeqDef, LenProperties

\* A table is created with keys on columns it has, and without rows.
LEMMA CreateGood ==
  ASSUME NEW name \in TableName, NEW def \in Definition,
         \A group \in GroupsOf(def) : \A cn \in group : ColumnIndex(def.columns, cn) > 0
  PROVE  LET columns == Mark(def.columns, GroupsOf(def))
             keys    == GroupsOf(def) \ {{cn} : cn \in ColName}
         IN  Good([columns |-> columns, rows |-> <<>>, uniqueKeys |-> keys,
                   sql |-> Render(name, columns, keys),
                   declared |-> DeclaredKeys(def), updated |-> FALSE])
<1> DEFINE columns == Mark(def.columns, GroupsOf(def))
           keys    == GroupsOf(def) \ {{cn} : cn \in ColName}
           t == [columns |-> columns, rows |-> <<>>, uniqueKeys |-> keys,
                 sql |-> Render(name, columns, keys),
                 declared |-> DeclaredKeys(def), updated |-> FALSE]
<1>1. /\ def.columns \in Seq(ColumnType) /\ def.primary \in KeyLists /\ def.unique \in KeyLists
  BY DefinitionAssumption
<1>2. /\ columns \in Seq(ColumnType) /\ Len(columns) = Len(def.columns)
      /\ DOMAIN columns = DOMAIN def.columns
      /\ \A i \in DOMAIN columns : columns[i].name = def.columns[i].name
  BY <1>1, MarkIs
<1>3. keys \in KeyLists
  BY <1>1 DEF GroupsOf, KeyLists
<1>4. DeclaredKeys(def) \in KeyLists
  <2>1. \A i \in DOMAIN def.columns : def.columns[i] \in ColumnType
    BY <1>1, LenProperties
  <2>2. \A i \in DOMAIN def.columns : def.columns[i].name \in ColName
    BY <2>1 DEF ColumnType
  <2>3. QED
    BY <1>1, <2>2 DEF DeclaredKeys, KeyLists
<1>5. DOMAIN <<>> = {}
  OBVIOUS
<1>6. DistinctNames => \A i \in DOMAIN columns : ColumnIndex(columns, columns[i].name) = i
  <2> SUFFICES ASSUME DistinctNames, NEW i \in DOMAIN columns PROVE ColumnIndex(columns, columns[i].name) = i
    OBVIOUS
  <2>1. Named(columns, columns[i].name) = {i}
    BY <1>2 DEF Named, DistinctNames
  <2>2. QED
    BY <1>2, <2>1, ColumnIndexIs
<1>7. \A key \in keys : \A cn \in key : ColumnIndex(columns, cn) # 0
  BY <1>1, <1>2, ColumnIndexSame
<1> HIDE DEF columns, keys
<1>8. Typed(t)
  BY <1>2, <1>3, <1>4, <1>5, RenderIs DEF Typed, Table, RowsFit, SqlType
<1>9. SqlFits(t)
  BY <1>2, <1>3, RenderIs DEF SqlFits, SqlColumns, SqlKeys
<1>10. KeysNamed(t) /\ UniqueFirst(t)
  BY <1>6, <1>7 DEF KeysNamed, UniqueFirst
<1>11. Kept(t)
  BY <1>5 DEF Kept, KeysUnique, NoNulls, Distinct
<1>12. QED
  BY <1>8, <1>9, <1>10, <1>11 DEF Good, columns, keys
\* Renaming touches the words before the columns at most.
LEMMA RenameGood ==
  ASSUME NEW old \in TableName, NEW new \in TableName, NEW t, Good(t)
  PROVE  Good([t EXCEPT !.sql = Rewrite(@, old, new)])
<1> DEFINE u == [t EXCEPT !.sql = Rewrite(@, old, new)]
<1>1. t \in Table(DOMAIN t.rows)
  BY DEF Good, Typed
<1> DEFINE head == [k \in 1..3 |-> IF \A j \in 1..(k - 1) : Untouched(t.sql.head[j], old, new)
                                    THEN Replaced(t.sql.head[k], old, new) ELSE t.sql.head[k]]
<1>a. head \in [1..3 -> Word]
  BY <1>1, WordAssumption DEF Table
<1>b. KeywordKept => head[2] = "TABLE"
  BY DEF KeywordKept, Untouched, Good, SqlFits, SqlKeys
<1>c. t.sql \in SqlType
  BY <1>1 DEF Table, SqlType
<1> HIDE DEF head
<1>2. /\ Rewrite(t.sql, old, new) \in SqlType
      /\ Rewrite(t.sql, old, new).head = head
      /\ Rewrite(t.sql, old, new).columns = t.sql.columns
      /\ Rewrite(t.sql, old, new).keys = t.sql.keys
      /\ Rewrite(t.sql, old, new).parses = t.sql.parses
  BY <1>a, <1>c DEF Rewrite, SqlType, head
<1>3. /\ u \in Table(DOMAIN t.rows) /\ u.sql = Rewrite(t.sql, old, new)
      /\ u.columns = t.columns /\ u.rows = t.rows /\ u.uniqueKeys = t.uniqueKeys
      /\ u.updated = t.updated
  BY <1>1, <1>2 DEF Table, SqlType
<1> HIDE DEF u
<1>4. SqlFits(u)
  BY <1>b, <1>2, <1>3 DEF Good, SqlFits, SqlColumns, SqlKeys
<1>5. QED
  BY <1>3, <1>4 DEF Good, Typed, RowsFit, KeysNamed, UniqueFirst, Kept, KeysUnique,
                    NoNulls, Distinct, u

\* ADD COLUMN: the new column comes last, is in no key and fits NOT NULL.
LEMMA AddGood ==
  ASSUME NEW name \in TableName, NEW column \in ColumnType, NEW t, Good(t),
         column.notNull => column.default.value # Null, ~column.unique
  PROVE  LET columns == Append(t.columns, Unresolved(column))
         IN  Good([t EXCEPT !.columns = columns,
                            !.rows = [k \in DOMAIN @ |-> Append(@[k], column.default.value)],
                            !.sql = Render(name, columns, t.uniqueKeys)])
<1> DEFINE new == Unresolved(column)
           columns == Append(t.columns, new)
           rows == [k \in DOMAIN t.rows |-> Append(t.rows[k], column.default.value)]
           sql == Render(name, columns, t.uniqueKeys)
           u == [t EXCEPT !.columns = columns,
                          !.rows = [k \in DOMAIN @ |-> Append(@[k], column.default.value)],
                          !.sql = sql]
<1>1. /\ t \in Table(DOMAIN t.rows) /\ DOMAIN t.rows \subseteq Row /\ RowsFit(t)
      /\ t.columns \in Seq(ColumnType) /\ t.rows \in [DOMAIN t.rows -> Seq(Cell)]
      /\ t.uniqueKeys \in KeyLists
  BY DEF Good, Typed, Table
<1>2. /\ new \in ColumnType /\ new.notNull = column.notNull /\ ~new.unique
      /\ column.default.value \in Cell
  BY DEF Unresolved, ColumnType
<1>3. /\ columns \in Seq(ColumnType) /\ Len(columns) = Len(t.columns) + 1
      /\ Len(t.columns) \in Nat
      /\ DOMAIN t.columns = 1..Len(t.columns) /\ DOMAIN columns = 1..(Len(t.columns) + 1)
      /\ \A i \in DOMAIN t.columns : columns[i] = t.columns[i]
      /\ columns[Len(t.columns) + 1] = new
  BY <1>1, <1>2, AppendProperties, LenProperties
<1>4. /\ rows \in [DOMAIN t.rows -> Seq(Cell)]
      /\ \A k \in DOMAIN t.rows :
           /\ Len(rows[k]) = Len(t.columns) + 1
           /\ \A i \in DOMAIN t.columns : rows[k][i] = t.rows[k][i]
           /\ rows[k][Len(t.columns) + 1] = column.default.value
  BY <1>1, <1>2, <1>3, AppendProperties DEF RowsFit
<1> HIDE DEF columns, new, u, rows
<1>5. /\ sql \in SqlType /\ sql.head[2] = "TABLE"
      /\ sql.keys = t.uniqueKeys /\ Len(sql.columns) = Len(columns)
      /\ \A i \in DOMAIN columns : /\ sql.columns[i].name = columns[i].name
                                   /\ sql.columns[i].notNull = columns[i].notNull
                                   /\ sql.columns[i].unique = columns[i].unique
  BY <1>1, <1>3, RenderIs
<1> HIDE DEF sql
<1>6. /\ u.columns = columns /\ u.rows = rows /\ u.sql = sql /\ u.uniqueKeys = t.uniqueKeys
      /\ u.updated = t.updated /\ u \in Table(DOMAIN t.rows)
  BY <1>1, <1>3, <1>4, <1>5 DEF Table, SqlType, u, rows
<1>7. \A cn : ColumnIndex(t.columns, cn) # 0 => ColumnIndex(columns, cn) = ColumnIndex(t.columns, cn)
  BY <1>1, <1>2, ColumnIndexAppend DEF columns
<1>8. DOMAIN rows = DOMAIN t.rows
  BY <1>4
<1>9. Typed(u) /\ SqlFits(u)
  BY <1>1, <1>3, <1>4, <1>5, <1>6, <1>8 DEF Typed, RowsFit, SqlFits, SqlColumns, SqlKeys
<1>10. KeysNamed(u)
  BY <1>6, <1>7 DEF KeysNamed, Good
<1>11. UniqueFirst(u)
  <2> SUFFICES ASSUME DistinctNames, NEW i \in DOMAIN columns, columns[i].unique
               PROVE  ColumnIndex(columns, columns[i].name) = i
    BY <1>6 DEF UniqueFirst
  <2>1. i \in DOMAIN t.columns /\ columns[i] = t.columns[i] /\ i # 0
    BY <1>2, <1>3
  <2>2. ColumnIndex(t.columns, t.columns[i].name) = i
    BY <2>1 DEF Good, UniqueFirst
  <2>3. QED
    BY <1>7, <2>1, <2>2
<1>12. ASSUME DistinctNames, KeywordKept, ~t.updated PROVE KeysUnique(u)
  <2>1. KeysUnique(t)
    BY <1>12 DEF Good, Kept
  <2>2. ASSUME NEW i \in DOMAIN columns, columns[i].unique PROVE Distinct(u, {i})
    <3>1. i \in DOMAIN t.columns /\ t.columns[i].unique
      BY <1>2, <1>3, <2>2
    <3>2. Distinct(t, {i})
      BY <2>1, <3>1 DEF KeysUnique
    <3>3. QED
      BY <1>4, <1>6, <1>8, <3>1, <3>2 DEF Distinct
  <2>3. ASSUME NEW key \in t.uniqueKeys PROVE Distinct(u, Positions(columns, key))
    <3>1. Positions(columns, key) = Positions(t.columns, key)
      BY <1>7, <1>12 DEF Positions, Good, KeysNamed
    <3>2. Positions(t.columns, key) \subseteq DOMAIN t.columns
      BY <1>1, <1>12, ColumnIndexIs DEF Positions, Good, KeysNamed, Named
    <3>3. Distinct(t, Positions(t.columns, key))
      BY <2>1 DEF KeysUnique
    <3>4. QED
      BY <1>4, <1>6, <1>8, <3>1, <3>2, <3>3 DEF Distinct
  <2>4. QED
    BY <1>6, <2>2, <2>3 DEF KeysUnique
<1>13. ASSUME ~t.updated PROVE NoNulls(u)
  <2>1. NoNulls(t)
    BY <1>13 DEF Good, Kept
  <2>2. ASSUME NEW i \in DOMAIN columns, NEW k \in DOMAIN t.rows, columns[i].notNull
        PROVE  rows[k][i] # Null
    <3>1. CASE i \in DOMAIN t.columns
      BY <1>3, <1>4, <2>1, <2>2, <3>1 DEF NoNulls
    <3>2. CASE i = Len(t.columns) + 1
      BY <1>2, <1>3, <1>4, <2>2, <3>2
    <3>3. QED
      BY <1>3, <3>1, <3>2
  <2>3. QED
    BY <1>6, <1>8, <2>2 DEF NoNulls
<1>14. QED
  BY <1>6, <1>9, <1>10, <1>11, <1>12, <1>13 DEF Good, Kept, u, sql, columns, new

\* A set of columns keeps its rows distinct if a new row meets no equal one.
LEMMA DistinctPut ==
  ASSUME NEW t, NEW u, NEW k, NEW row, NEW positions, u.rows = Put(t.rows, k, row),
         k \notin DOMAIN t.rows, Distinct(t, positions),
         \A j \in DOMAIN t.rows : \E i \in positions :
           row[i] = Null \/ ~SameKey(t.rows[j][i], row[i])
  PROVE  Distinct(u, positions)
<1>1. /\ DOMAIN u.rows = DOMAIN t.rows \union {k} /\ u.rows[k] = row
      /\ \A j \in DOMAIN t.rows : u.rows[j] = t.rows[j]
  BY DEF Put
<1>2. ASSUME NEW j \in DOMAIN t.rows
      PROVE  \E i \in positions : row[i] = Null \/ t.rows[j][i] # row[i]
  BY DEF SameKey
<1>3. ASSUME NEW j \in DOMAIN u.rows, NEW l \in DOMAIN u.rows, j # l
      PROVE  \E i \in positions : u.rows[j][i] = Null \/ u.rows[j][i] # u.rows[l][i]
  <2>1. CASE j \in DOMAIN t.rows /\ l \in DOMAIN t.rows
    BY <1>1, <1>3, <2>1 DEF Distinct
  <2>2. CASE j = k /\ l \in DOMAIN t.rows
    BY <1>1, <1>2, <2>2
  <2>3. CASE j \in DOMAIN t.rows /\ l = k
    BY <1>1, <1>2, <2>3
  <2>4. QED
    BY <1>1, <1>3, <2>1, <2>2, <2>3
<1>4. QED
  BY <1>3 DEF Distinct

\* INSERT: the new row has a value for every column and contradicts no key.
LEMMA InsertGood ==
  ASSUME NEW t, Good(t), NEW k \in Row, k \notin DOMAIN t.rows,
         NEW given \in [DOMAIN t.columns -> Literal \union {Absent}],
         RowAccepted(t.columns, NewRow(t.columns, given)),
         KeysFree(t, NewRow(t.columns, given))
  PROVE  Good([t EXCEPT !.rows = Put(@, k, NewRow(t.columns, given))])
<1> DEFINE row == NewRow(t.columns, given)
           rows == Put(t.rows, k, row)
           u == [t EXCEPT !.rows = Put(@, k, row)]
<1>1. /\ t \in Table(DOMAIN t.rows) /\ DOMAIN t.rows \subseteq Row /\ RowsFit(t)
      /\ t.columns \in Seq(ColumnType) /\ t.rows \in [DOMAIN t.rows -> Seq(Cell)]
  BY DEF Good, Typed, Table
<1>2. /\ Len(t.columns) \in Nat /\ DOMAIN t.columns = 1..Len(t.columns)
      /\ \A i \in DOMAIN t.columns : t.columns[i] \in ColumnType
  BY <1>1, LenProperties
<1>3. row \in [1..Len(t.columns) -> Cell]
  <2>1. \A i \in DOMAIN t.columns : /\ t.columns[i].type \in DOMAIN Affinity
                                    /\ t.columns[i].default.value \in Cell
    BY <1>2 DEF ColumnType
  <2>2. \A i \in DOMAIN t.columns : given[i] \in Cell \/ given[i] = Absent
    BY CellAssumption
  <2>3. \A type \in DOMAIN Affinity, v \in Cell : Affinity[type][v] \in Cell
    BY AffinityAssumption
  <2>4. ASSUME NEW i \in DOMAIN t.columns PROVE row[i] \in Cell
    <3>1. (IF given[i] = Absent THEN t.columns[i].default.value ELSE given[i]) \in Cell
      BY <2>1, <2>2
    <3>2. QED
      BY <2>1, <2>3, <3>1, Zenon DEF NewRow
  <2>5. QED
    BY <1>2, <2>4, Zenon DEF NewRow
<1>4. row \in Seq(Cell) /\ Len(row) = Len(t.columns)
  BY <1>2, <1>3, SeqDef, LenProperties
<1> HIDE DEF row
<1>5. /\ rows \in [DOMAIN t.rows \union {k} -> Seq(Cell)]
      /\ rows[k] = row /\ \A j \in DOMAIN t.rows : rows[j] = t.rows[j]
  BY <1>1, <1>4 DEF Put
<1>6. /\ u.columns = t.columns /\ u.rows = rows /\ u.sql = t.sql /\ u.uniqueKeys = t.uniqueKeys
      /\ u.updated = t.updated /\ u \in Table(DOMAIN rows)
      /\ DOMAIN rows = DOMAIN t.rows \union {k}
  BY <1>1, <1>5 DEF Table
<1> HIDE DEF u, rows
<1>7. Typed(u) /\ SqlFits(u) /\ KeysNamed(u) /\ UniqueFirst(u)
  BY <1>1, <1>4, <1>5, <1>6 DEF Good, Typed, RowsFit, SqlFits, SqlColumns, SqlKeys, KeysNamed, UniqueFirst
<1>8. ASSUME NEW positions, Distinct(t, positions),
             \A j \in DOMAIN t.rows : \E i \in positions :
               row[i] = Null \/ ~SameKey(t.rows[j][i], row[i])
      PROVE  Distinct(u, positions)
  BY <1>6, <1>8, DistinctPut DEF rows
<1>9. ASSUME DistinctNames, KeywordKept, ~t.updated PROVE KeysUnique(u)
  <2>1. KeysUnique(t) /\ KeysFree(t, row)
    BY <1>9 DEF Good, Kept, row
  <2>2. ASSUME NEW i \in DOMAIN t.columns, t.columns[i].unique PROVE Distinct(u, {i})
    <3>1. Distinct(t, {i}) /\ ColumnIndex(t.columns, t.columns[i].name) = i
      BY <1>9, <2>1, <2>2 DEF KeysUnique, Good, UniqueFirst
    <3>2. row[i] # Null => \A j \in DOMAIN t.rows : ~SameKey(t.rows[j][i], row[i])
      BY <2>1, <2>2, <3>1 DEF KeysFree
    <3>3. QED
      BY <1>8, <3>1, <3>2
  <2>3. ASSUME NEW key \in t.uniqueKeys PROVE Distinct(u, Positions(t.columns, key))
    <3>1. Distinct(t, Positions(t.columns, key))
      BY <2>1 DEF KeysUnique
    <3>2. ~Duplicate(t.rows, Positions(t.columns, key), row)
      BY <2>1 DEF KeysFree
    <3>3. \A j \in DOMAIN t.rows : \E i \in Positions(t.columns, key) :
            row[i] = Null \/ ~SameKey(t.rows[j][i], row[i])
      BY <3>2 DEF Duplicate
    <3>4. QED
      BY <1>8, <3>1, <3>3
  <2>4. QED
    BY <1>6, <2>2, <2>3 DEF KeysUnique
<1>10. ASSUME ~t.updated PROVE NoNulls(u)
  <2>1. NoNulls(t) /\ \A i \in DOMAIN t.columns : t.columns[i].notNull => row[i] # Null
    BY <1>10 DEF Good, Kept, RowAccepted, row
  <2>2. QED
    BY <1>5, <1>6, <2>1 DEF NoNulls
<1>11. QED
  BY <1>6, <1>7, <1>9, <1>10 DEF Good, Kept, u, row
\* UPDATE: rows keep their width; what they hold is not looked at.
LEMMA UpdateGood ==
  ASSUME NEW t, Good(t), NEW picked,
         NEW set \in [DOMAIN t.columns -> Literal \union {Absent}]
  PROVE  Good(Updated(t, set, picked))
<1> DEFINE rows == [k \in DOMAIN t.rows |-> IF t.rows[k] \in picked THEN Assign(t.rows[k], set)
                                                                   ELSE t.rows[k]]
           u == Updated(t, set, picked)
<1>1. /\ t \in Table(DOMAIN t.rows) /\ DOMAIN t.rows \subseteq Row /\ RowsFit(t)
      /\ t.columns \in Seq(ColumnType) /\ t.rows \in [DOMAIN t.rows -> Seq(Cell)]
  BY DEF Good, Typed, Table
<1>2. Len(t.columns) \in Nat /\ DOMAIN t.columns = 1..Len(t.columns)
  BY <1>1, LenProperties
<1>3. ASSUME NEW k \in DOMAIN t.rows
      PROVE  rows[k] \in Seq(Cell) /\ Len(rows[k]) = Len(t.columns)
  <2> DEFINE row == t.rows[k]
  <2>1. row \in [1..Len(t.columns) -> Cell] /\ row \in Seq(Cell) /\ Len(row) = Len(t.columns)
    BY <1>1, LenProperties DEF RowsFit
  <2>2. \A i \in DOMAIN t.columns : set[i] \in Cell \/ set[i] = Absent
    BY CellAssumption
  <2>3. Assign(row, set) \in [1..Len(t.columns) -> Cell]
    BY <1>2, <2>1, <2>2 DEF Assign
  <2>4. Assign(row, set) \in Seq(Cell) /\ Len(Assign(row, set)) = Len(t.columns)
    BY <1>2, <2>3, SeqDef, LenProperties
  <2>5. QED
    BY <2>1, <2>4
<1>4. /\ u.columns = t.columns /\ u.rows = rows /\ u.sql = t.sql /\ u.uniqueKeys = t.uniqueKeys
      /\ u.updated /\ u \in Table(DOMAIN rows) /\ DOMAIN rows = DOMAIN t.rows
  BY <1>1, <1>3 DEF Table, Updated
<1> HIDE DEF u, rows
<1>5. QED
  BY <1>1, <1>3, <1>4 DEF Good, Typed, RowsFit, SqlFits, SqlColumns, SqlKeys, KeysNamed,
                         UniqueFirst, Kept, u

\* DELETE: fewer rows contradict no more keys.
LEMMA DeleteGood ==
  ASSUME NEW t, Good(t), NEW picked
  PROVE  Good([t EXCEPT !.rows = Without(@, {k \in DOMAIN @ : @[k] \in picked})])
<1> DEFINE rows == Without(t.rows, {k \in DOMAIN t.rows : t.rows[k] \in picked})
           u == [t EXCEPT !.rows = Without(@, {k \in DOMAIN @ : @[k] \in picked})]
<1>1. /\ t \in Table(DOMAIN t.rows) /\ DOMAIN t.rows \subseteq Row /\ RowsFit(t)
      /\ t.rows \in [DOMAIN t.rows -> Seq(Cell)]
  BY DEF Good, Typed, Table
<1>2. /\ rows \in [DOMAIN rows -> Seq(Cell)] /\ DOMAIN rows \subseteq DOMAIN t.rows
      /\ \A k \in DOMAIN rows : rows[k] = t.rows[k]
  BY <1>1 DEF Without, Restrict
<1>3. /\ u.columns = t.columns /\ u.rows = rows /\ u.sql = t.sql /\ u.uniqueKeys = t.uniqueKeys
      /\ u.updated = t.updated /\ u \in Table(DOMAIN rows)
  BY <1>1, <1>2 DEF Table
<1> HIDE DEF u, rows
<1>4. Typed(u) /\ SqlFits(u) /\ KeysNamed(u) /\ UniqueFirst(u)
  BY <1>1, <1>2, <1>3 DEF Good, Typed, RowsFit, SqlFits, SqlColumns, SqlKeys, KeysNamed, UniqueFirst
<1>5. Kept(u)
  <2>1. ASSUME NEW positions, Distinct(t, positions) PROVE Distinct(u, positions)
    BY <1>2, <1>3, <2>1 DEF Distinct
  <2>2. KeysUnique(t) => KeysUnique(u)
    BY <1>3, <2>1 DEF KeysUnique
  <2>3. NoNulls(t) => NoNulls(u)
    BY <1>2, <1>3 DEF NoNulls
  <2>4. QED
    BY <1>3, <2>2, <2>3 DEF Good, Kept
<1>6. QED
  BY <1>4, <1>5 DEF Good, u

\* A restart takes the columns and keys from a definition that agrees with them.
LEMMA ReparsedGood == ASSUME NEW t, Good(t), Parses(t.sql) PROVE Good(Reparsed(t))
<1> DEFINE u == Reparsed(t)
<1>1. /\ t \in Table(DOMAIN t.rows) /\ t.columns \in Seq(ColumnType)
      /\ t.sql.columns \in Seq(ColumnType) /\ t.sql.parses
  BY DEF Good, Typed, Table, Parses
<1>2. /\ u.columns = t.sql.columns /\ u.rows = t.rows /\ u.sql = t.sql
      /\ u.uniqueKeys = t.sql.keys /\ u.updated = t.updated /\ u \in Table(DOMAIN t.rows)
  BY <1>1 DEF Table, Reparsed
<1> HIDE DEF u
<1>3. /\ Len(u.columns) = Len(t.columns) /\ DOMAIN u.columns = DOMAIN t.columns
      /\ \A i \in DOMAIN t.columns : /\ u.columns[i].name = t.columns[i].name
                                     /\ u.columns[i].notNull = t.columns[i].notNull
                                     /\ u.columns[i].unique = t.columns[i].unique
  BY <1>1, <1>2, LenProperties DEF Good, SqlFits, SqlColumns
<1>4. \A cn : ColumnIndex(u.columns, cn) = ColumnIndex(t.columns, cn)
  BY <1>1, <1>2, <1>3, ColumnIndexSame
<1>5. \A key : Positions(u.columns, key) = Positions(t.columns, key)
  BY <1>4 DEF Positions
<1>6. Typed(u) /\ SqlFits(u)
  BY <1>1, <1>2, <1>3 DEF Good, Typed, RowsFit, SqlFits, SqlColumns, SqlKeys
<1>7. KeywordKept => u.uniqueKeys = t.uniqueKeys
  BY <1>1, <1>2 DEF Good, SqlFits, SqlKeys
<1>8. KeysNamed(u) /\ UniqueFirst(u)
  BY <1>3, <1>4, <1>7 DEF Good, KeysNamed, UniqueFirst
<1>9. ASSUME DistinctNames, KeywordKept, ~t.updated PROVE KeysUnique(u)
  <2>1. KeysUnique(t) /\ u.uniqueKeys = t.uniqueKeys
    BY <1>7, <1>9 DEF Good, Kept
  <2>2. QED
    BY <1>2, <1>3, <1>5, <2>1 DEF KeysUnique, Distinct
<1>10. ~t.updated => NoNulls(u)
  BY <1>2, <1>3 DEF Good, Kept, NoNulls
<1>11. QED
  BY <1>2, <1>6, <1>8, <1>9, <1>10 DEF Good, Kept, u
\* Or it takes them from the flags: the same columns, and fewer keys.
LEMMA FromFlagsGood == ASSUME NEW t, Good(t), ~Parses(t.sql) PROVE Good(FromFlags(t))
<1> DEFINE u == FromFlags(t)
           columns == [i \in DOMAIN t.columns |->
                         [t.columns[i] EXCEPT !.default = NoDefault, !.check = NoCheck]]
<1>1. t \in Table(DOMAIN t.rows) /\ t.columns \in Seq(ColumnType)
  BY DEF Good, Typed, Table
<1>2. /\ Len(t.columns) \in Nat /\ DOMAIN t.columns = 1..Len(t.columns)
      /\ \A i \in DOMAIN t.columns : t.columns[i] \in ColumnType
  BY <1>1, LenProperties
<1>3. ASSUME NEW i \in DOMAIN t.columns
      PROVE  /\ columns[i] \in ColumnType
             /\ columns[i].name = t.columns[i].name
             /\ columns[i].notNull = t.columns[i].notNull
             /\ columns[i].unique = t.columns[i].unique
  <2>1. NoDefault \in [value : Cell, reparses : BOOLEAN]
        /\ NoCheck \in [accepts : SUBSET Cell, unresolved : SUBSET Cell]
    BY CellAssumption DEF NoDefault, NoCheck
  <2> HIDE DEF NoDefault, NoCheck
  <2>2. QED
    BY <1>2, <2>1 DEF ColumnType
<1>4. columns \in [1..Len(t.columns) -> ColumnType]
  BY <1>2, <1>3
<1> HIDE DEF columns
<1>5. columns \in Seq(ColumnType) /\ Len(columns) = Len(t.columns) /\ DOMAIN columns = DOMAIN t.columns
  BY <1>2, <1>4, SeqDef, LenProperties
<1>6. \A cn : ColumnIndex(columns, cn) = ColumnIndex(t.columns, cn)
  BY <1>1, <1>3, <1>5, ColumnIndexSame
<1>7. {} \in KeyLists
  BY DEF KeyLists
<1>8. /\ u.columns = columns /\ u.rows = t.rows /\ u.sql = t.sql /\ u.uniqueKeys = {}
      /\ u.updated = t.updated /\ u \in Table(DOMAIN t.rows)
  BY <1>1, <1>5, <1>7 DEF Table, FromFlags, columns
<1> HIDE DEF u
<1>9. /\ Typed(u) /\ KeysNamed(u)
      /\ t.sql.parses => SqlColumns(u)
  BY <1>3, <1>5, <1>8 DEF Good, Typed, RowsFit, SqlFits, SqlColumns, KeysNamed
<1>a. SqlKeys(u)
  BY <1>8, WordAssumption DEF Good, SqlFits, SqlKeys, Parses
<1>10. UniqueFirst(u)
  BY <1>3, <1>5, <1>6, <1>8 DEF Good, UniqueFirst
<1>11. Kept(u)
  BY <1>3, <1>5, <1>8 DEF Good, Kept, KeysUnique, NoNulls, Distinct
<1>12. QED
  BY <1>8, <1>9, <1>a, <1>10, <1>11 DEF Good, SqlFits, u

-----------------------------------------------------------------------------
(* The inductive invariant: every table is good on its own.                 *)
KInv == /\ DOMAIN tables \subseteq TableName
        /\ \A n \in DOMAIN tables : Good(tables[n])

\* An empty catalog has no bad table...
LEMMA KInvInit == Init => KInv
BY DEF Init, KInv

\* ... and a statement that is accepted leaves none.
LEMMA KInvStep == KInv /\ [Next]_vars => KInv'
<1> SUFFICES ASSUME KInv, [Next]_vars PROVE KInv'
  OBVIOUS
<1> USE DEF KInv
<1>1. CASE UNCHANGED vars
  BY <1>1 DEF vars
<1>2. ASSUME NEW n \in TableName, NEW def \in Definition, CreateTable(n, def) PROVE KInv'
  BY <1>2, CreateGood DEF CreateTable, Put
<1>3. ASSUME NEW i \in IndexName, NEW n \in TableName, NEW columns \in IndexKey,
             NEW unique \in BOOLEAN, CreateIndex(i, n, columns, unique)
      PROVE  KInv'
  BY <1>3 DEF CreateIndex
<1>4. ASSUME NEW old \in TableName, NEW new \in TableName, Rename(old, new) PROVE KInv'
  BY <1>4, RenameGood DEF Rename, Put, Without, Restrict
<1>5. ASSUME NEW n \in TableName, NEW column \in NewColumn, AddColumn(n, column) PROVE KInv'
  BY <1>5, AddGood, DefinitionAssumption DEF AddColumn, Rerender
<1>6. ASSUME NEW n \in DOMAIN tables, NEW given \in Given(n), Insert(n, given) PROVE KInv'
  BY <1>6, InsertGood DEF Insert, Given, Free
<1>7. ASSUME NEW n \in DOMAIN tables, NEW set \in Given(n), NEW picked, Update(n, set, picked)
      PROVE  KInv'
  BY <1>7, UpdateGood DEF Update, Given
<1>8. ASSUME NEW n \in DOMAIN tables, NEW picked, Delete(n, picked) PROVE KInv'
  BY <1>8, DeleteGood DEF Delete
<1>9. ASSUME NEW n \in TableName, DropTable(n) PROVE KInv'
  BY <1>9 DEF DropTable, Without, Restrict
<1>10. ASSUME NEW i \in IndexName, DropIndex(i) PROVE KInv'
  BY <1>10 DEF DropIndex
<1>11. CASE Reload
  BY <1>11, ReparsedGood, FromFlagsGood DEF Reload
<1>12. QED
  BY <1>1, <1>2, <1>3, <1>4, <1>5, <1>6, <1>7, <1>8, <1>9, <1>10, <1>11
     DEF Next, Create, Index, Alter, Change, Drop

(* The indexes: an index has the type its declaration gives it, and one     *)
(* that had a table has a table whose name folds like the name it bears.    *)
IndexOK(i) == /\ indexes[i] \in IndexType
              /\ indexes[i].attached =>
                   \E n \in DOMAIN tables : Fold[n] = Fold[indexes[i].table]
XInv == DOMAIN indexes \subseteq IndexName /\ \A i \in DOMAIN indexes : IndexOK(i)

\* Renaming and dropping find the indexes that lose their table.
LEMMA XInvStep == KInv /\ XInv /\ [Next]_vars => XInv'
<1> SUFFICES ASSUME KInv, XInv, [Next]_vars PROVE XInv'
  OBVIOUS
<1> USE DEF XInv, IndexOK, IndexType
\* It is enough that no table goes away while the indexes stay.
<1>0. ASSUME UNCHANGED indexes, DOMAIN tables \subseteq DOMAIN tables' PROVE XInv'
  BY <1>0
<1>1. CASE UNCHANGED vars
  BY <1>0, <1>1 DEF vars
<1>2. ASSUME NEW n \in TableName, NEW def \in Definition, CreateTable(n, def) PROVE XInv'
  BY <1>0, <1>2 DEF CreateTable, Put
<1>3. ASSUME NEW i \in IndexName, NEW n \in TableName, NEW columns \in IndexKey,
             NEW unique \in BOOLEAN, CreateIndex(i, n, columns, unique)
      PROVE  XInv'
  BY <1>3 DEF CreateIndex, Put
<1>4. ASSUME NEW old \in TableName, NEW new \in TableName, Rename(old, new) PROVE XInv'
  <2>1. DOMAIN tables' = (DOMAIN tables \ {old}) \union {new}
    BY <1>4 DEF Rename, Put, Without, Restrict
  <2>2. /\ DOMAIN indexes' = DOMAIN indexes
        /\ \A i \in IndexesOn(old) : indexes'[i] = [indexes[i] EXCEPT !.table = new]
        /\ \A i \in DOMAIN indexes \ IndexesOn(old) : indexes'[i] = indexes[i]
    BY <1>4 DEF Rename, Repoint, IndexesOn
  <2>3. ASSUME NEW i \in IndexesOn(old) PROVE IndexOK(i)'
    BY <2>1, <2>2 DEF IndexesOn
  <2>4. ASSUME NEW i \in DOMAIN indexes \ IndexesOn(old) PROVE IndexOK(i)'
    BY <2>1, <2>2 DEF IndexesOn
  <2>5. QED
    BY <2>2, <2>3, <2>4
<1>5. ASSUME NEW n \in TableName, NEW column \in NewColumn, AddColumn(n, column) PROVE XInv'
  BY <1>0, <1>5 DEF AddColumn
<1>6. ASSUME NEW n \in DOMAIN tables, NEW given \in Given(n), Insert(n, given) PROVE XInv'
  BY <1>0, <1>6 DEF Insert
<1>7. ASSUME NEW n \in DOMAIN tables, NEW set \in Given(n), NEW picked, Update(n, set, picked)
      PROVE  XInv'
  BY <1>0, <1>7 DEF Update
<1>8. ASSUME NEW n \in DOMAIN tables, NEW picked, Delete(n, picked) PROVE XInv'
  BY <1>0, <1>8 DEF Delete
<1>9. ASSUME NEW n \in TableName, DropTable(n) PROVE XInv'
  BY <1>9 DEF DropTable, Without, Restrict, IndexesOn
<1>10. ASSUME NEW i \in IndexName, DropIndex(i) PROVE XInv'
  BY <1>10 DEF DropIndex, Without, Restrict
<1>11. CASE Reload
  BY <1>0, <1>11 DEF Reload
<1>12. QED
  BY <1>1, <1>2, <1>3, <1>4, <1>5, <1>6, <1>7, <1>8, <1>9, <1>10, <1>11
     DEF Next, Create, Index, Alter, Change, Drop

\* Both invariants hold in every reachable state.
LEMMA CatalogInvariance == Spec => [](KInv /\ XInv)
<1>1. Init => XInv
  BY DEF Init, XInv
<1>2. QED
  BY <1>1, KInvInit, KInvStep, XInvStep, PTL DEF Spec

(* Every row has a value for every column and everything has its type.      *)
THEOREM CatalogTyped == Spec => []CatalogTypeOK
<1>1. KInv /\ XInv => CatalogTypeOK
  BY DEF KInv, XInv, IndexOK, Good, Typed, CatalogTypeOK
<1>2. QED
  BY <1>1, CatalogInvariance, PTL

(* No two rows of a table agree on a key it has, unless UPDATE ran on it:   *)
(* no sequence of the other statements and restarts gets around INSERT.  It  *)
(* takes two assumptions: columns have distinct names, and no table is named *)
(* by letters of the word TABLE.                                            *)
THEOREM KeysAreUnique == ASSUME DistinctNames, KeywordKept PROVE Spec => []KeysHold
<1>1. DistinctNames /\ KeywordKept /\ KInv => KeysHold
  BY DEF KInv, Good, Kept, KeysHold
<1>2. QED
  BY <1>1, CatalogInvariance, PTL

(* No column that is NOT NULL holds NULL, unless UPDATE ran on the table.   *)
THEOREM NotNullIsKept == Spec => []NotNullHolds
<1>1. KInv => NotNullHolds
  BY DEF KInv, Good, Kept, NotNullHolds
<1>2. QED
  BY <1>1, CatalogInvariance, PTL

(* An index that had a table has one: renaming and dropping tables take     *)
(* their indexes along.                                                     *)
THEOREM IndexesHaveTables == Spec => []NoOrphanIndex
<1>1. XInv => NoOrphanIndex
  BY DEF XInv, IndexOK, NoOrphanIndex
<1>2. QED
  BY <1>1, CatalogInvariance, PTL

-----------------------------------------------------------------------------
(* What sqlite_master shows.  Two things keep the stored text from being    *)
(* what the table is: a table whose name occurs in CREATE or in TABLE, and a *)
(* default that does not parse again.  A CHECK that means something else when it is *)
(* parsed again changes the table with the text.                            *)
AllColumns == NewColumn \union UNION {Range(def.columns) : def \in Definition}
Reversible == /\ \A old, new \in TableName : Untouched("CREATE", old, new) /\ Untouched("TABLE", old, new)
              /\ \A column \in AllColumns : column.default.reparses
Resolved == \A column \in AllColumns : column.check.accepts = column.check.unresolved

Faithful(column) == /\ column.default.reparses
                    /\ Resolved => column.check.accepts = column.check.unresolved
TextFits(n, t) == Reversible => /\ t.sql = Render(n, t.columns, t.uniqueKeys)
                                /\ \A i \in DOMAIN t.columns : Faithful(t.columns[i])
TextInv == /\ tables = [n \in DOMAIN tables |-> tables[n]]
           /\ \A n \in DOMAIN tables : TextFits(n, tables[n])

\* Rendering a column loses nothing but the affinities in its CHECK.
LEMMA UnresolvedIs ==
  ASSUME NEW column \in ColumnType
  PROVE  LET new == Unresolved(column) IN
         /\ new \in ColumnType /\ new.default = column.default
         /\ Unresolved(new) = new
         /\ new.check.accepts = new.check.unresolved
         /\ column.check.accepts = column.check.unresolved => new = column
BY DEF Unresolved, ColumnType

\* In the text of a table, renaming replaces the name if it is in neither word before.
LEMMA HeadRewritten ==
  ASSUME NEW old \in TableName, NEW new \in TableName, Reversible,
         NEW sql, sql.head = <<"CREATE", "TABLE", old>>
  PROVE  [k \in 1..3 |-> IF \A j \in 1..(k - 1) : Untouched(sql.head[j], old, new)
                           THEN Replaced(sql.head[k], old, new) ELSE sql.head[k]]
         = <<"CREATE", "TABLE", new>>
<1> DEFINE word(k) == IF \A j \in 1..(k - 1) : Untouched(sql.head[j], old, new)
                        THEN Replaced(sql.head[k], old, new) ELSE sql.head[k]
<1>1. sql.head[1] = "CREATE" /\ sql.head[2] = "TABLE" /\ sql.head[3] = old
  OBVIOUS
<1>2. /\ Untouched("CREATE", old, new) /\ Untouched("TABLE", old, new)
      /\ Replaced("CREATE", old, new) = "CREATE" /\ Replaced("TABLE", old, new) = "TABLE"
      /\ Replaced(old, old, new) = new
  BY WordAssumption DEF Reversible, Untouched
<1>3. word(1) = "CREATE"
  BY <1>1, <1>2
<1>4. word(2) = "TABLE"
  BY <1>1, <1>2
<1>5. \A j \in 1..(3 - 1) : Untouched(sql.head[j], old, new)
  <2>1. \A j \in 1..(3 - 1) : j = 1 \/ j = 2
    OBVIOUS
  <2>2. QED
    BY <1>1, <1>2, <2>1
<1>6. word(3) = new
  BY <1>1, <1>2, <1>5
<1> HIDE DEF word
<1>7. [k \in 1..3 |-> word(k)] = <<word(1), word(2), word(3)>>
  OBVIOUS
<1>8. QED
  BY <1>3, <1>4, <1>6, <1>7 DEF word

\* A restart of a table whose text fits takes the same columns from it.
LEMMA ReparsedText ==
  ASSUME NEW n, NEW t, Typed(t), TextFits(n, t), Reversible
  PROVE  /\ Parses(t.sql) /\ TextFits(n, Reparsed(t))
         /\ Resolved => Reparsed(t) = t
<1>1. /\ t \in Table(DOMAIN t.rows) /\ t.columns \in Seq(ColumnType)
      /\ \A i \in DOMAIN t.columns : t.columns[i] \in ColumnType
      /\ t.columns = [i \in DOMAIN t.columns |-> t.columns[i]]
  BY LenProperties DEF Typed, Table
<1>2. t.sql = Render(n, t.columns, t.uniqueKeys)
  BY DEF TextFits
<1>3. /\ Parses(t.sql) /\ t.sql.keys = t.uniqueKeys
      /\ t.sql.columns = [i \in DOMAIN t.columns |-> Unresolved(t.columns[i])]
      /\ Render(n, t.sql.columns, t.uniqueKeys) = t.sql
  <2> DEFINE C == [i \in DOMAIN t.columns |-> Unresolved(t.columns[i])]
             P == \A i \in DOMAIN t.columns : t.columns[i].default.reparses
             CC == [i \in DOMAIN C |-> Unresolved(C[i])]
             PP == \A i \in DOMAIN C : C[i].default.reparses
             H == <<"CREATE", "TABLE", n>>
  <2>1. t.sql = [head |-> H, columns |-> C, keys |-> t.uniqueKeys, parses |-> P]
    BY <1>2 DEF Render
  <2>2. Render(n, C, t.uniqueKeys) = [head |-> H, columns |-> CC, keys |-> t.uniqueKeys, parses |-> PP]
    BY DEF Render
  <2>3. \A i \in DOMAIN t.columns : Unresolved(C[i]) = C[i] /\ C[i].default = t.columns[i].default
    BY <1>1, UnresolvedIs
  <2>4. CC = C /\ PP = P /\ P
    BY <2>3 DEF TextFits, Faithful
  <2>a. H[2] = "TABLE"
    OBVIOUS
  <2> HIDE DEF C, P, CC, PP, H
  <2>5. t.sql.parses /\ t.sql.head[2] = "TABLE" /\ t.sql.keys = t.uniqueKeys /\ t.sql.columns = C
    BY <2>1, <2>4, <2>a
  <2>6. Render(n, C, t.uniqueKeys) = t.sql
    BY <2>1, <2>2, <2>4
  <2>7. QED
    BY <2>5, <2>6, WordAssumption DEF C, Parses
<1>5. /\ Reparsed(t).columns = t.sql.columns /\ Reparsed(t).sql = t.sql
      /\ Reparsed(t).uniqueKeys = t.sql.keys
  BY <1>1 DEF Reparsed, Table
<1>7. \A i \in DOMAIN t.columns : Faithful(Unresolved(t.columns[i]))
  BY <1>1, UnresolvedIs DEF TextFits, Faithful
<1>8. TextFits(n, Reparsed(t))
  BY <1>3, <1>5, <1>7 DEF TextFits
<1>9. ASSUME Resolved PROVE Reparsed(t) = t
  <2>1. \A i \in DOMAIN t.columns : Unresolved(t.columns[i]) = t.columns[i]
    BY <1>1, <1>9, UnresolvedIs DEF TextFits, Faithful
  <2>2. t.sql.columns = t.columns
    BY <1>1, <1>3, <2>1
  <2>3. QED
    BY <1>1, <1>3, <2>2 DEF Reparsed, Table
<1>10. QED
  BY <1>3, <1>8, <1>9

\* An empty catalog shows nothing ...
LEMMA TextInit == Init => TextInv
BY DEF Init, TextInv

\* ... and every statement that changes a table renders its text anew.
LEMMA TextStep == KInv /\ TextInv /\ [Next]_vars => TextInv'
<1> SUFFICES ASSUME KInv, TextInv, [Next]_vars PROVE TextInv'
  OBVIOUS
<1>0. /\ tables = [n \in DOMAIN tables |-> tables[n]]
      /\ \A n \in DOMAIN tables : Typed(tables[n]) /\ TextFits(n, tables[n])
  BY DEF KInv, Good, TextInv
<1>1. CASE UNCHANGED vars
  BY <1>1 DEF vars, TextInv
<1>2. ASSUME NEW n \in TableName, NEW def \in Definition, CreateTable(n, def) PROVE TextInv'
  <2> DEFINE columns == Mark(def.columns, GroupsOf(def))
             keys == GroupsOf(def) \ {{cn} : cn \in ColName}
             t == [columns |-> columns, rows |-> <<>>, uniqueKeys |-> keys,
                   sql |-> Render(n, columns, keys),
                   declared |-> DeclaredKeys(def), updated |-> FALSE]
  <2>1. tables' = Put(tables, n, t)
    BY <1>2 DEF CreateTable
  <2>2. ASSUME Reversible, NEW i \in DOMAIN columns PROVE Faithful(columns[i])
    <3>1. i \in DOMAIN def.columns /\ def.columns[i] \in AllColumns
      BY DEF AllColumns, Range, Mark
    <3>2. def.columns[i] \in ColumnType
      BY <3>1, DefinitionAssumption, LenProperties
    <3>3. columns[i].default = def.columns[i].default /\ columns[i].check = def.columns[i].check
      BY <3>1, <3>2 DEF Mark, ColumnType
    <3>4. QED
      BY <2>2, <3>1, <3>3 DEF Faithful, Reversible, Resolved
  <2> HIDE DEF columns, keys
  <2>3. TextFits(n, t)
    BY <2>2 DEF TextFits
  <2>4. QED
    BY <1>0, <2>1, <2>3 DEF Put, TextInv
<1>3. ASSUME NEW i \in IndexName, NEW n \in TableName, NEW columns \in IndexKey,
             NEW unique \in BOOLEAN, CreateIndex(i, n, columns, unique)
      PROVE  TextInv'
  BY <1>3 DEF CreateIndex, TextInv
<1>4. ASSUME NEW old \in TableName, NEW new \in TableName, Rename(old, new) PROVE TextInv'
  <2> DEFINE t == tables[old]
             u == [t EXCEPT !.sql = Rewrite(@, old, new)]
  <2>1. old \in DOMAIN tables /\ tables' = Put(Without(tables, {old}), new, u)
    BY <1>4 DEF Rename
  <2>2. Typed(t) /\ TextFits(old, t)
    BY <1>0, <2>1
  <2>3. u.sql = Rewrite(t.sql, old, new) /\ u.columns = t.columns /\ u.uniqueKeys = t.uniqueKeys
    BY <2>2 DEF Typed, Table
  <2> HIDE DEF u, t
  <2>4. Reversible => Rewrite(t.sql, old, new) = Render(new, t.columns, t.uniqueKeys)
    <3>1. SUFFICES ASSUME Reversible
                   PROVE  Rewrite(t.sql, old, new) = Render(new, t.columns, t.uniqueKeys)
      OBVIOUS
    <3>2. t.sql = Render(old, t.columns, t.uniqueKeys)
      BY <2>2, <3>1 DEF TextFits
    <3>3. t.sql.head = <<"CREATE", "TABLE", old>>
      BY <3>2 DEF Render
    <3> DEFINE C == [i \in DOMAIN t.columns |-> Unresolved(t.columns[i])]
               P == \A i \in DOMAIN t.columns : t.columns[i].default.reparses
               H == <<"CREATE", "TABLE", old>>
               N == <<"CREATE", "TABLE", new>>
    <3>4. /\ t.sql = [head |-> H, columns |-> C, keys |-> t.uniqueKeys, parses |-> P]
          /\ Render(new, t.columns, t.uniqueKeys) =
               [head |-> N, columns |-> C, keys |-> t.uniqueKeys, parses |-> P]
      BY <3>2 DEF Render
    <3>5. Rewrite(t.sql, old, new) = [t.sql EXCEPT !.head = N]
      BY <3>1, <3>3, HeadRewritten DEF Rewrite
    <3> HIDE DEF C, P, H, N
    <3>6. QED
      BY <3>4, <3>5
  <2>5. TextFits(new, u)
    BY <2>2, <2>3, <2>4 DEF TextFits
  <2>6. QED
    BY <1>0, <2>1, <2>5 DEF Put, Without, Restrict, TextInv
<1>5. ASSUME NEW n \in TableName, NEW column \in NewColumn, AddColumn(n, column) PROVE TextInv'
  <2> DEFINE t == tables[n]
             new == Unresolved(column)
             columns == Append(t.columns, new)
             rows == [k \in DOMAIN t.rows |-> Append(t.rows[k], column.default.value)]
             u == [t EXCEPT !.columns = columns,
                            !.rows = [k \in DOMAIN @ |-> Append(@[k], column.default.value)],
                            !.sql = Render(n, columns, t.uniqueKeys)]
  <2>1. n \in DOMAIN tables /\ tables' = [tables EXCEPT ![n] = u]
    BY <1>5 DEF AddColumn, Rerender
  <2>2. Typed(t) /\ TextFits(n, t) /\ t.columns \in Seq(ColumnType)
    BY <1>0, <2>1 DEF Typed, Table
  <2>3. column \in ColumnType /\ column \in AllColumns
    BY DefinitionAssumption DEF AllColumns
  <2>4. new \in ColumnType /\ (Reversible => Faithful(new))
    BY <2>3, UnresolvedIs DEF Faithful, Reversible
  <2>5. Reversible => \A i \in DOMAIN columns : Faithful(columns[i])
    <3> HIDE DEF new
    <3>1. /\ DOMAIN columns = 1..(Len(t.columns) + 1) /\ DOMAIN t.columns = 1..Len(t.columns)
          /\ \A i \in DOMAIN t.columns : columns[i] = t.columns[i]
          /\ columns[Len(t.columns) + 1] = new /\ Len(t.columns) \in Nat
      BY <2>2, <2>4, AppendProperties, LenProperties
    <3> HIDE DEF columns
    <3>2. \A i \in DOMAIN columns : i \in DOMAIN t.columns \/ i = Len(t.columns) + 1
      BY <3>1
    <3>3. QED
      BY <2>2, <2>4, <3>1, <3>2 DEF TextFits
  <2> HIDE DEF columns
  <2>6. /\ u.columns = columns /\ u.uniqueKeys = t.uniqueKeys
        /\ u.sql = Render(n, columns, t.uniqueKeys)
    BY <2>2 DEF Typed, Table
  <2> HIDE DEF u, t
  <2>7. TextFits(n, u)
    BY <2>5, <2>6 DEF TextFits
  <2>8. QED
    BY <1>0, <2>1, <2>7 DEF TextInv
\* INSERT, UPDATE and DELETE leave the text and what it shows alone.
<1>6. ASSUME NEW n \in DOMAIN tables, NEW u, tables' = [tables EXCEPT ![n] = u],
             u.columns = tables[n].columns, u.sql = tables[n].sql,
             u.uniqueKeys = tables[n].uniqueKeys
      PROVE  TextInv'
  <2>1. TextFits(n, u)
    BY <1>0, <1>6 DEF TextFits
  <2>2. QED
    BY <1>0, <1>6, <2>1 DEF TextInv
<1>7. ASSUME NEW n \in DOMAIN tables, NEW given \in Given(n), Insert(n, given) PROVE TextInv'
  <2>1. PICK k \in Row : tables' = [tables EXCEPT ![n] =
                           [tables[n] EXCEPT !.rows = Put(tables[n].rows, k, NewRow(tables[n].columns, given))]]
    BY <1>7 DEF Insert
  <2>2. QED
    BY <1>0, <1>6, <2>1 DEF Typed, Table
<1>8. ASSUME NEW n \in DOMAIN tables, NEW set \in Given(n), NEW picked, Update(n, set, picked)
      PROVE  TextInv'
  BY <1>0, <1>6, <1>8 DEF Update, Updated, Typed, Table
<1>9. ASSUME NEW n \in DOMAIN tables, NEW picked, Delete(n, picked) PROVE TextInv'
  BY <1>0, <1>6, <1>9 DEF Delete, Typed, Table
<1>10. ASSUME NEW n \in TableName, DropTable(n) PROVE TextInv'
  BY <1>0, <1>10 DEF DropTable, Without, Restrict, TextInv
<1>11. ASSUME NEW i \in IndexName, DropIndex(i) PROVE TextInv'
  BY <1>11 DEF DropIndex, TextInv
<1>12. CASE Reload
  <2>1. ASSUME NEW n \in DOMAIN tables
        PROVE  TextFits(n, tables'[n])
    <3> DEFINE t == tables[n]
    <3>1. tables'[n] = (IF Parses(t.sql) THEN Reparsed(t) ELSE FromFlags(t)) /\ Good(t)
      BY <1>12 DEF Reload, KInv
    <3>2. CASE Reversible
      BY <1>0, <3>1, <3>2, ReparsedText
    <3>3. CASE ~Reversible
      BY <3>3 DEF TextFits
    <3>4. QED
      BY <3>2, <3>3
  <2>2. QED
    BY <1>12, <2>1 DEF Reload, TextInv
<1>13. QED
  BY <1>1, <1>2, <1>3, <1>4, <1>5, <1>7, <1>8, <1>9, <1>10, <1>11, <1>12
     DEF Next, Create, Index, Alter, Change, Drop

(* What sqlite_master shows of a table is what the table is, after any      *)
(* sequence of statements and restarts.                                     *)
THEOREM TextIsTable == ASSUME Reversible PROVE Spec => []SchemaText
<1>1. TextInv => SchemaText
  BY DEF TextInv, TextFits, SchemaText
<1>2. QED
  BY <1>1, KInvInit, KInvStep, TextInit, TextStep, PTL DEF Spec

(* A restart changes nothing: every column, key and constraint is in the    *)
(* stored text.                                                             *)
THEOREM RestartChangesNothing ==
  ASSUME Reversible, Resolved PROVE Spec => ReloadKeepsSchema
<1>1. KInv /\ TextInv => [Reload => UNCHANGED vars]_vars
  <2>1. SUFFICES ASSUME KInv, TextInv, Reload PROVE tables' = tables
    BY DEF Reload, vars
  <2>2. \A n \in DOMAIN tables : tables'[n] = tables[n]
    BY <2>1, ReparsedText DEF Reload, KInv, Good, TextInv
  <2>3. QED
    BY <2>1, <2>2 DEF Reload, TextInv
<1>2. QED
  BY <1>1, KInvInit, KInvStep, TextInit, TextStep, PTL DEF Spec, ReloadKeepsSchema

-----------------------------------------------------------------------------
\* What IndexesKept says of one index in one step.
Undisturbed(i) ==
  /\ indexes'[i] = indexes[i] /\ indexes[i].unique /\ Consistent(i)
  /\ ~\E n \in DOMAIN tables' : Fold[n] = Fold[indexes[i].table] /\ Altered(n)

\* It is enough to look at one table of the index: either it is as it was, but for
\* rows that went or met no equal one, or it is empty.
LEMMA ConsistentAfter ==
  ASSUME NEW i \in DOMAIN indexes \intersect DOMAIN indexes', Undisturbed(i),
         \A n \in DOMAIN tables' : Fold[n] = Fold[indexes[i].table] =>
           \/ DOMAIN tables'[n].rows = {}
           \/ /\ n \in DOMAIN tables /\ tables'[n].columns = tables[n].columns
              /\ LET positions == Positions(tables[n].columns, indexes[i].columns)
                 IN  0 \notin positions /\ Distinct(tables[n], positions) => Distinct(tables'[n], positions)
  PROVE  Consistent(i)'
<1> SUFFICES ASSUME NEW n \in DOMAIN tables', (i \in IndexesOn(n))',
                    0 \notin Positions(tables'[n].columns, indexes'[i].columns)
             PROVE  Distinct(tables'[n], Positions(tables'[n].columns, indexes'[i].columns))
  BY DEF Consistent
<1>1. indexes'[i] = indexes[i] /\ Fold[n] = Fold[indexes[i].table] /\ i \in IndexesOn(n)
  BY DEF Undisturbed, IndexesOn
<1>2. CASE DOMAIN tables'[n].rows = {}
  BY <1>2 DEF Distinct
<1>3. CASE n \in DOMAIN tables /\ tables'[n].columns = tables[n].columns
           /\ LET positions == Positions(tables[n].columns, indexes[i].columns)
              IN  0 \notin positions /\ Distinct(tables[n], positions) => Distinct(tables'[n], positions)
  BY <1>1, <1>3 DEF Undisturbed, Consistent
<1>4. QED
  BY <1>1, <1>2, <1>3

\* No step but an UPDATE or an ALTER makes rows under a unique index equal.
LEMMA IndexStep ==
  ASSUME KInv, [Next]_vars, NEW i \in DOMAIN indexes \intersect DOMAIN indexes', Undisturbed(i)
  PROVE  Consistent(i)'
<1> DEFINE On(n) == Fold[n] = Fold[indexes[i].table]
           Same(n) == \/ DOMAIN tables'[n].rows = {}
                      \/ /\ n \in DOMAIN tables /\ tables'[n].columns = tables[n].columns
                         /\ LET positions == Positions(tables[n].columns, indexes[i].columns)
                            IN  0 \notin positions /\ Distinct(tables[n], positions)
                                => Distinct(tables'[n], positions)
<1>0. /\ \A n \in DOMAIN tables' : On(n) => ~Altered(n)
      /\ \A n \in DOMAIN tables : Typed(tables[n])
  BY DEF Undisturbed, KInv, Good
<1>1. ASSUME NEW n \in DOMAIN tables' \intersect DOMAIN tables, tables'[n] = tables[n] PROVE Same(n)
  BY <1>1
<1>2. SUFFICES ASSUME NEW n \in DOMAIN tables', On(n) PROVE Same(n)
  BY ConsistentAfter
<1>3. ~Altered(n)
  BY <1>0, <1>2
<1>4. CASE UNCHANGED vars
  BY <1>1, <1>4 DEF vars
<1>5. ASSUME NEW m \in TableName, NEW def \in Definition, CreateTable(m, def) PROVE Same(n)
  <2>1. n # m => n \in DOMAIN tables /\ tables'[n] = tables[n]
    BY <1>5 DEF CreateTable, Put
  <2>2. n = m => DOMAIN tables'[n].rows = {}
    BY <1>5 DEF CreateTable, Put
  <2>3. QED
    BY <1>1, <2>1, <2>2
<1>6. CASE UNCHANGED tables
  BY <1>1, <1>6
<1>7. ASSUME NEW old \in TableName, NEW new \in TableName, Rename(old, new) PROVE Same(n)
  <2>1. n # new => n \in DOMAIN tables /\ tables'[n] = tables[n]
    BY <1>7 DEF Rename, Put, Without, Restrict
  <2>2. n = new => DOMAIN tables'[n].rows = {}
    BY <1>3, <1>7 DEF Altered, Rename
  <2>3. QED
    BY <1>1, <2>1, <2>2
<1>8. ASSUME NEW m \in TableName, NEW column \in NewColumn, AddColumn(m, column) PROVE Same(n)
  <2> DEFINE t == tables[m]
             columns == Append(t.columns, Unresolved(column))
  <2>1. m \in DOMAIN tables /\ DOMAIN tables' = DOMAIN tables
    BY <1>8 DEF AddColumn
  <2>2. n # m => tables'[n] = tables[n]
    BY <1>8 DEF AddColumn
  <2>3. t \in Table(DOMAIN t.rows) /\ t.columns \in Seq(ColumnType)
    BY <1>0, <2>1 DEF Typed, Table
  <2>4. tables'[m].columns = columns
    BY <1>8, <2>3 DEF AddColumn, Table
  <2>5. Len(columns) = Len(t.columns) + 1 /\ Len(t.columns) \in Nat
    BY <2>3, DefinitionAssumption, AppendProperties, UnresolvedIs
  <2>6. n # m
    BY <1>3, <2>1, <2>4, <2>5 DEF Altered
  <2>7. QED
    BY <1>1, <2>1, <2>2, <2>6
<1>9. ASSUME NEW m \in DOMAIN tables, NEW given \in Given(m), Insert(m, given) PROVE Same(n)
  <2> DEFINE t == tables[m]
             row == NewRow(t.columns, given)
             positions == Positions(t.columns, indexes[i].columns)
  <2>1. PICK k \in Row : Free(k) /\ tables' = [tables EXCEPT ![m].rows = Put(@, k, row)]
    BY <1>9 DEF Insert
  <2>2. DOMAIN tables' = DOMAIN tables /\ (n # m => tables'[n] = tables[n])
    BY <2>1
  <2>3. t \in Table(DOMAIN t.rows) /\ k \notin DOMAIN t.rows
    BY <1>0, <2>1 DEF Typed, Free
  <2>4. tables'[m].columns = t.columns /\ tables'[m].rows = Put(t.rows, k, row)
    BY <2>1, <2>3 DEF Table
  <2>5. ASSUME n = m, 0 \notin positions, Distinct(t, positions) PROVE Distinct(tables'[m], positions)
    <3>1. i \in IndexesOn(m) /\ indexes[i].unique
      BY <1>2, <2>5 DEF IndexesOn, Undisturbed
    <3>2. ~Duplicate(t.rows, positions, row)
      BY <1>9, <2>5, <3>1 DEF Insert, IndexesHold
    <3>3. \A j \in DOMAIN t.rows : \E p \in positions : row[p] = Null \/ ~SameKey(t.rows[j][p], row[p])
      BY <3>2 DEF Duplicate
    <3> HIDE DEF row, positions
    <3>4. QED
      BY <2>3, <2>4, <2>5, <3>3, DistinctPut
  <2>6. QED
    BY <1>1, <2>2, <2>4, <2>5
<1>10. ASSUME NEW m \in DOMAIN tables, NEW set \in Given(m), NEW picked, Update(m, set, picked)
       PROVE  Same(n)
  <2>1. DOMAIN tables' = DOMAIN tables /\ (n # m => tables'[n] = tables[n])
    BY <1>10 DEF Update
  <2>2. tables'[m].updated
    BY <1>0, <1>10 DEF Update, Updated, Typed, Table
  <2>3. n # m
    BY <1>3, <2>1, <2>2 DEF Altered
  <2>4. QED
    BY <1>1, <2>1, <2>3
<1>11. ASSUME NEW m \in DOMAIN tables, NEW picked, Delete(m, picked) PROVE Same(n)
  <2> DEFINE t == tables[m]
             rows == Without(t.rows, {k \in DOMAIN t.rows : t.rows[k] \in picked})
  <2>1. DOMAIN tables' = DOMAIN tables /\ (n # m => tables'[n] = tables[n])
    BY <1>11 DEF Delete
  <2>2. tables'[m].columns = t.columns /\ tables'[m].rows = rows
    BY <1>0, <1>11 DEF Delete, Typed, Table
  <2>3. DOMAIN rows \subseteq DOMAIN t.rows /\ \A k \in DOMAIN rows : rows[k] = t.rows[k]
    BY DEF Without, Restrict
  <2>4. ASSUME NEW positions, Distinct(t, positions) PROVE Distinct(tables'[m], positions)
    <3> HIDE DEF rows, t
    <3>1. QED
      BY <2>2, <2>3, <2>4 DEF Distinct
  <2>5. QED
    BY <1>1, <2>1, <2>2, <2>4
<1>12. ASSUME NEW m \in TableName, DropTable(m) PROVE Same(n)
  <2>1. n \in DOMAIN tables /\ tables'[n] = tables[n]
    BY <1>12 DEF DropTable, Without, Restrict
  <2>2. QED
    BY <1>1, <2>1
<1>13. CASE Reload
  <2> DEFINE t == tables[n]
  <2>1. n \in DOMAIN tables /\ tables'[n] = IF Parses(t.sql) THEN Reparsed(t) ELSE FromFlags(t)
    BY <1>13 DEF Reload
  <2>2. tables'[n].rows = t.rows
    BY <1>0, <2>1 DEF Typed, Table, Reparsed, FromFlags
  <2>3. tables'[n].columns = t.columns
    BY <1>3, <2>1 DEF Altered
  <2>4. QED
    BY <2>1, <2>2, <2>3 DEF Distinct
<1>14. QED
  BY <1>4, <1>5, <1>6, <1>7, <1>8, <1>9, <1>10, <1>11, <1>12, <1>13
     DEF Next, Create, Index, Alter, Change, Drop, CreateIndex, DropIndex

(* A unique index that no two rows contradict stays so, until UPDATE runs    *)
(* or ALTER puts rows under it that never met it.                           *)
THEOREM IndexesStayUnique == Spec => IndexesKept
<1>1. KInv /\ [Next]_vars => [\A i \in DOMAIN indexes \intersect DOMAIN indexes' :
        /\ indexes'[i] = indexes[i] /\ indexes[i].unique /\ Consistent(i)
        /\ ~\E n \in DOMAIN tables' : Fold[n] = Fold[indexes[i].table] /\ Altered(n)
        => Consistent(i)']_vars
  BY IndexStep DEF Undisturbed
<1>2. QED
  BY <1>1, KInvInit, KInvStep, PTL DEF Spec, IndexesKept
=============================================================================
