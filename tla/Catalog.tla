------------------------------- MODULE Catalog -------------------------------
(***************************************************************************)
(* Tables, indexes and constraints: what CREATE, ALTER, DROP, INSERT, UPDATE *)
(* and DELETE do to one copy of the catalog (internal/engine/parser.go), and *)
(* what is left of it when the process starts again and loadTables rebuilds  *)
(* every table from its stored CREATE TABLE text (internal/engine/persist.go).*)
(*                                                                          *)
(* A Cell is NULL or a class of values that compareValues calls equal; the   *)
(* empty text is named because compareValues does not tell NULL from it.  A  *)
(* column's CHECK is the set of cells for which it is true or unknown, and    *)
(* its DEFAULT the value it yields.  The stored text of a table is the three *)
(* words before its parenthesis, CREATE, TABLE and the name, and what        *)
(* parsing the rest gives.  A key list is the set of its columns, and rows   *)
(* are kept under names from Row, since nothing here depends on either order. *)
(* A statement that is refused changes nothing and has no action.            *)
(***************************************************************************)
EXTENDS Integers, Sequences, FiniteSets, Functions

CONSTANTS
  TableName, IndexName,
  ColName,     \* in lower case: columns are looked up by folded names
  Fold,        \* table name -> its lower-case form (strings.EqualFold)
  Word,        \* the words that may begin a stored text
  TableWord,   \* those that strings.EqualFold takes for TABLE
  Replaced(_, _, _), \* a word with the first occurrence of a name replaced by another
  Cell, Null, Empty,
  Literal,     \* the cells that statements write down
  Affinity,    \* declared type -> what applyAffinity makes of each cell
  Definition,  \* the bodies of CREATE TABLE: columns and table-level key lists
  NewColumn,   \* the columns that ADD COLUMN adds
  IndexKey,    \* the column lists of CREATE INDEX
  Row,         \* bound: names for the rows of all tables
  MaxColumns,  \* bound: columns of a table
  MaxTables,   \* bound: tables at a time
  Absent       \* in INSERT: DEFAULT, or a column that is not named

ASSUME NameAssumption == DOMAIN Fold = TableName
ASSUME WordAssumption ==
  /\ {"CREATE", "TABLE"} \union TableName \subseteq Word
  /\ "TABLE" \in TableWord
  /\ \A old, new \in TableName : /\ \A word \in Word : Replaced(word, old, new) \in Word
                                 /\ Replaced(old, old, new) = new
ASSUME CellAssumption == /\ {Null, Empty} \subseteq Cell /\ Null # Empty
                         /\ Literal \subseteq Cell /\ Absent \notin Cell
ASSUME AffinityAssumption == \A type \in DOMAIN Affinity :
  /\ Affinity[type] \in [Cell -> Cell]
  /\ Affinity[type][Null] = Null
  /\ \A v \in Cell : Affinity[type][Affinity[type][v]] = Affinity[type][v]

\* Column
ColumnType == [name : ColName, type : DOMAIN Affinity, notNull : BOOLEAN, unique : BOOLEAN,
               default : [value : Cell, reparses : BOOLEAN],
               check : [accepts : SUBSET Cell, unresolved : SUBSET Cell]]
KeyLists == SUBSET SUBSET ColName

ASSUME DefinitionAssumption ==
  /\ Definition \subseteq [columns : Seq(ColumnType), primary : KeyLists, unique : KeyLists]
  /\ NewColumn \subseteq ColumnType
  /\ IndexKey \subseteq SUBSET ColName
  /\ MaxColumns \in Nat /\ MaxTables \in Nat

VARIABLES tables,  \* name -> columns, rows, uniqueKeys, sql, and two histories:
                   \* the key lists as declared, and whether UPDATE ran on it
          indexes  \* name -> table, columns, unique, and whether it had a table

vars == <<tables, indexes>>

Init == tables = <<>> /\ indexes = <<>>

-----------------------------------------------------------------------------
Put(f, x, y) == [z \in DOMAIN f \union {x} |-> IF z = x THEN y ELSE f[z]]
Without(f, S) == Restrict(f, DOMAIN f \ S)

NoDefault == [value |-> Null, reparses |-> TRUE]
NoCheck == [accepts |-> Cell, unresolved |-> Cell]

\* columnIndex: the first column of that name, 0 if there is none.
ColumnIndex(columns, name) ==
  LET found == {i \in DOMAIN columns : columns[i].name = name}
  IN  IF found = {} THEN 0 ELSE CHOOSE i \in found : \A j \in found : i <= j

\* compareValues(a, b) == 0: NULL is no number and its text is empty.
SameKey(a, b) == a = b \/ {a, b} = {Null, Empty}

\* A CHECK whose column affinities nobody has resolved.
Unresolved(column) == [column EXCEPT !.check.accepts = column.check.unresolved]

\* renderCreateTableSQL, down to what parsing the text gives.
Render_Slip(name, columns, keys) ==
  [head |-> <<"CREATE", "TABLE", name>>, keys |-> {},
   columns |-> [i \in DOMAIN columns |-> Unresolved(columns[i])],
   parses |-> \A i \in DOMAIN columns : columns[i].default.reparses]
Render(name, columns, keys) ==
  [head |-> <<"CREATE", "TABLE", name>>, keys |-> keys,
   columns |-> [i \in DOMAIN columns |-> Unresolved(columns[i])],
   parses |-> \A i \in DOMAIN columns : columns[i].default.reparses]

(* CREATE TABLE.  All PRIMARY KEY lists are collected into one list and all *)
(* UNIQUE lists into another; a list of one column marks the column.        *)
GroupsOf(def) == {UNION def.primary, UNION def.unique} \ {{}}
Mark(columns, groups) ==
  [i \in DOMAIN columns |->
     [columns[i] EXCEPT !.unique = @ \/ \E cn \in ColName :
        {cn} \in groups /\ ColumnIndex(columns, cn) = i]]
DeclaredKeys(def) == def.primary \union def.unique
  \union {{def.columns[i].name} : i \in {i \in DOMAIN def.columns : def.columns[i].unique}}

CreateTable(name, def) ==
  LET groups  == GroupsOf(def)
      columns == Mark(def.columns, groups)
      keys    == groups \ {{cn} : cn \in ColName}
  IN  /\ name \notin DOMAIN tables /\ Cardinality(DOMAIN tables) < MaxTables
      /\ \A group \in groups : \A cn \in group : ColumnIndex(def.columns, cn) > 0
      /\ tables' = Put(tables, name,
                       [columns |-> columns, rows |-> <<>>, uniqueKeys |-> keys,
                        sql |-> Render(name, columns, keys),
                        declared |-> DeclaredKeys(def), updated |-> FALSE])
      /\ UNCHANGED indexes

\* strings.EqualFold(ix.Table, name)
IndexesOn_Slip(name) == {i \in DOMAIN indexes : indexes[i].table = name}
IndexesOn(name) == {i \in DOMAIN indexes : Fold[indexes[i].table] = Fold[name]}

\* CREATE [UNIQUE] INDEX looks neither at the table nor at its rows.
CreateIndex(i, name, columns, unique) ==
  /\ i \notin DOMAIN indexes
  /\ indexes' = Put(indexes, i,
       [table |-> name, columns |-> columns, unique |-> unique,
        attached |-> \E n \in DOMAIN tables : Fold[n] = Fold[name]])
  /\ UNCHANGED tables

(* ALTER TABLE ... RENAME TO.  The first occurrence of the old name in the  *)
(* stored text is replaced, inside of whatever word it is: T is in CREATE.  *)
Untouched(word, old, new) == Replaced(word, old, new) = word
Rewrite(sql, old, new) == [sql EXCEPT !.head =
  [k \in 1..3 |-> IF \A j \in 1..(k - 1) : Untouched(sql.head[j], old, new)
                    THEN Replaced(sql.head[k], old, new) ELSE sql.head[k]]]

Repoint(old, new) == indexes' = [i \in DOMAIN indexes |->
  IF i \in IndexesOn(old) THEN [indexes[i] EXCEPT !.table = new] ELSE indexes[i]]

Rename(old, new) ==
  /\ old \in DOMAIN tables /\ new \notin DOMAIN tables
  /\ tables' = Put(Without(tables, {old}), new,
                   [tables[old] EXCEPT !.sql = Rewrite(@, old, new)])
  /\ Repoint(old, new)

(* ALTER TABLE ... ADD COLUMN.  Existing rows get the default as it is: no  *)
(* affinity, no CHECK.  The stored text is rendered anew.                   *)
Rerender_Slip(t, name, columns) == t.sql
Rerender(t, name, columns) == Render(name, columns, t.uniqueKeys)

AddColumn(name, column) ==
  /\ name \in DOMAIN tables /\ Len(tables[name].columns) < MaxColumns
  /\ column.notNull => column.default.value # Null
  /\ ~column.unique
  /\ LET t == tables[name]
         columns == Append(t.columns, Unresolved(column))
     IN  tables' = [tables EXCEPT ![name] =
           [t EXCEPT !.columns = columns,
                     !.rows = [k \in DOMAIN @ |-> Append(@[k], column.default.value)],
                     !.sql = Rerender(t, name, columns)]]
  /\ UNCHANGED indexes

(* INSERT: the defaults, the supplied values over them, each under the      *)
(* affinity of its column, then every constraint against the rows there are.*)
NewRow(columns, given) == [i \in DOMAIN columns |-> Affinity[columns[i].type]
  [IF given[i] = Absent THEN columns[i].default.value ELSE given[i]]]

RowAccepted_Slip(columns, row) == \A i \in DOMAIN columns : row[i] \in columns[i].check.accepts
RowAccepted(columns, row) == \A i \in DOMAIN columns :
  /\ columns[i].notNull => row[i] # Null
  /\ row[i] \in columns[i].check.accepts

Positions(columns, names) == {ColumnIndex(columns, cn) : cn \in names}

\* Some row there is has the key of the new row, and no part of it is NULL.
Duplicate(rows, positions, row) ==
  /\ \A i \in positions : row[i] # Null
  /\ \E k \in DOMAIN rows : \A i \in positions : SameKey(rows[k][i], row[i])

IndexesHold_Slip(name, row) == TRUE
IndexesHold(name, row) ==
  LET t == tables[name]
  IN  \A i \in IndexesOn(name) :
        LET positions == Positions(t.columns, indexes[i].columns)
        IN  indexes[i].unique /\ 0 \notin positions => ~Duplicate(t.rows, positions, row)

KeysFree_Slip(t, row) == \A i \in DOMAIN t.columns : t.columns[i].unique => ~Duplicate(t.rows, {i}, row)
KeysFree(t, row) ==
  /\ \A i \in DOMAIN t.columns : t.columns[i].unique /\ row[i] # Null =>
       LET first == ColumnIndex(t.columns, t.columns[i].name)
       IN  ~\E k \in DOMAIN t.rows : SameKey(t.rows[k][first], row[first])
  /\ \A key \in t.uniqueKeys : ~Duplicate(t.rows, Positions(t.columns, key), row)

\* A name for a new row.
Free(k) == k \in Row /\ \A n \in DOMAIN tables : k \notin DOMAIN tables[n].rows

Insert(name, given) ==
  /\ name \in DOMAIN tables
  /\ DOMAIN given = DOMAIN tables[name].columns
  /\ LET row == NewRow(tables[name].columns, given)
     IN  /\ RowAccepted(tables[name].columns, row)
         /\ KeysFree(tables[name], row)
         /\ IndexesHold(name, row)
         /\ \E k \in Row : /\ Free(k)
                           /\ tables' = [tables EXCEPT ![name].rows = Put(@, k, row)]
  /\ UNCHANGED indexes

(* UPDATE and DELETE.  A WHERE clause picks rows by their contents.  UPDATE *)
(* checks no constraint and converts nothing.                               *)
Assign(row, set) == [i \in DOMAIN row |-> IF set[i] = Absent THEN row[i] ELSE set[i]]

Updated(t, set, picked) == [t EXCEPT
  !.rows = [k \in DOMAIN @ |-> IF @[k] \in picked THEN Assign(@[k], set) ELSE @[k]],
  !.updated = TRUE]

Update(name, set, picked) ==
  /\ name \in DOMAIN tables
  /\ DOMAIN set = DOMAIN tables[name].columns
  /\ tables' = [tables EXCEPT ![name] = Updated(@, set, picked)]
  /\ UNCHANGED indexes

Delete(name, picked) ==
  /\ name \in DOMAIN tables
  /\ tables' = [tables EXCEPT ![name].rows = Without(@, {k \in DOMAIN @ : @[k] \in picked})]
  /\ UNCHANGED indexes

\* DROP TABLE drops the indexes on it, or on a table whose name folds alike.
DropTable(name) == /\ name \in DOMAIN tables
                   /\ tables' = Without(tables, {name})
                   /\ indexes' = Without(indexes, IndexesOn(name))

DropIndex(i) == /\ i \in DOMAIN indexes
                /\ indexes' = Without(indexes, {i})
                /\ UNCHANGED tables

(* loadTables: the columns and keys come from the stored text, or, when     *)
(* that cannot be parsed, from the flags stored beside it.  The first word   *)
(* of the text is not looked at, nor is the name in it.                     *)
Parses(sql) == sql.head[2] \in TableWord /\ sql.parses
Reparsed(t) == [t EXCEPT !.columns = t.sql.columns, !.uniqueKeys = t.sql.keys]
FromFlags(t) == [t EXCEPT
  !.columns = [i \in DOMAIN @ |-> [@[i] EXCEPT !.default = NoDefault, !.check = NoCheck]],
  !.uniqueKeys = {}]

Reload == /\ tables' = [n \in DOMAIN tables |->
               LET t == tables[n] IN
               IF Parses(t.sql) THEN Reparsed(t) ELSE FromFlags(t)]
          /\ UNCHANGED indexes

-----------------------------------------------------------------------------
Given(name) == [DOMAIN tables[name].columns -> Literal \union {Absent}]

Create == \E n \in TableName, def \in Definition : CreateTable(n, def)

Index == \E i \in IndexName, n \in TableName, columns \in IndexKey, unique \in BOOLEAN :
           CreateIndex(i, n, columns, unique)

Alter == \/ \E old, new \in TableName : Rename(old, new)
         \/ \E n \in TableName, column \in NewColumn : AddColumn(n, column)

Change == \E n \in DOMAIN tables :
            \/ \E given \in Given(n) : Insert(n, given)
            \/ \E set \in Given(n), picked \in SUBSET Range(tables[n].rows) : Update(n, set, picked)
            \/ \E picked \in SUBSET Range(tables[n].rows) : Delete(n, picked)

Drop == \/ \E n \in TableName : DropTable(n)
        \/ \E i \in IndexName : DropIndex(i)

Next == Create \/ Index \/ Alter \/ Change \/ Drop \/ Reload

Spec == Init /\ [][Next]_vars

-----------------------------------------------------------------------------
Table(names) ==
         [columns : Seq(ColumnType), rows : [names -> Seq(Cell)], uniqueKeys : KeyLists,
          sql : [head : [1..3 -> Word], columns : Seq(ColumnType), keys : KeyLists, parses : BOOLEAN],
          declared : KeyLists, updated : BOOLEAN]

IndexType == [table : TableName, columns : IndexKey, unique : BOOLEAN, attached : BOOLEAN]

(* Every row has a cell for every column, through ALTER and through a       *)
(* restart, which takes the columns from one place and the rows from        *)
(* another.                                                                 *)
RowsFit(t) == \A k \in DOMAIN t.rows : Len(t.rows[k]) = Len(t.columns)
CatalogTypeOK ==
  /\ DOMAIN tables \subseteq TableName
  /\ \A n \in DOMAIN tables :
       /\ DOMAIN tables[n].rows \subseteq Row
       /\ tables[n] \in Table(DOMAIN tables[n].rows)
       /\ RowsFit(tables[n])
  /\ DOMAIN indexes \subseteq IndexName
  /\ \A i \in DOMAIN indexes : indexes[i] \in IndexType

\* No two rows have the same values in these columns, unless one is NULL.
Distinct(t, positions) == \A j, k \in DOMAIN t.rows :
  j # k => \E i \in positions : t.rows[j][i] = Null \/ t.rows[j][i] # t.rows[k][i]

(* UNIQUE and PRIMARY KEY: in a table no UPDATE ran on, which enforces      *)
(* nothing, no two rows agree on a key the table has.                       *)
KeysUnique(t) ==
  /\ \A i \in DOMAIN t.columns : t.columns[i].unique => Distinct(t, {i})
  /\ \A key \in t.uniqueKeys : Distinct(t, Positions(t.columns, key))
KeysHold == \A n \in DOMAIN tables : ~tables[n].updated => KeysUnique(tables[n])

(* "each group is unique as a whole" (engine.go): the same for the key      *)
(* lists as CREATE TABLE was written.                                       *)
DeclaredKeysHold == \A n \in DOMAIN tables : ~tables[n].updated =>
  \A key \in tables[n].declared : Distinct(tables[n], Positions(tables[n].columns, key))

(* NOT NULL is kept by every statement but UPDATE: by INSERT, by the        *)
(* back-fill of ADD COLUMN, by a restart.                                   *)
NoNulls(t) == \A i \in DOMAIN t.columns, k \in DOMAIN t.rows :
                t.columns[i].notNull => t.rows[k][i] # Null
NotNullHolds == \A n \in DOMAIN tables : ~tables[n].updated => NoNulls(tables[n])

(* A unique index that no two rows contradict stays so, except that UPDATE  *)
(* checks nothing and that ALTER can put rows under it that never met it.   *)
Consistent(i) == \A n \in DOMAIN tables : i \in IndexesOn(n) =>
  LET positions == Positions(tables[n].columns, indexes[i].columns)
  IN  0 \notin positions => Distinct(tables[n], positions)
Altered(n) == IF n \in DOMAIN tables
                THEN tables'[n].updated \/ tables[n].columns # tables'[n].columns
                ELSE DOMAIN tables'[n].rows # {}
IndexesKept == [][\A i \in DOMAIN indexes \intersect DOMAIN indexes' :
  /\ indexes'[i] = indexes[i] /\ indexes[i].unique /\ Consistent(i)
  /\ ~\E n \in DOMAIN tables' : Fold[n] = Fold[indexes[i].table] /\ Altered(n)
  => Consistent(i)']_vars

(* "Dropping a table also drops every index on it" (parser.go), and         *)
(* renaming one takes them along: an index that had a table has one.        *)
NoOrphanIndex == \A i \in DOMAIN indexes : indexes[i].attached =>
  \E n \in DOMAIN tables : Fold[n] = Fold[indexes[i].table]

(* A restart reconstructs every constraint "exactly, not only the booleans" *)
(* (persist.go).                                                            *)
ReloadKeepsSchema == [][Reload => UNCHANGED vars]_vars

\* What sqlite_master shows of a table is what the table is.
SchemaText == \A n \in DOMAIN tables :
  tables[n].sql = Render(n, tables[n].columns, tables[n].uniqueKeys)
=============================================================================
