------------------------------ MODULE MCCatalog ------------------------------
(* Small catalogs: table names of which two differ in case only, an integer  *)
(* and a text column, and the cells NULL, the empty text, 1 and '1'.        *)
EXTENDS Catalog, TLC

CONSTANTS IntOne, TextOne,
          Declared,  \* which key lists CREATE TABLE may have
          Defaults,  \* the defaults of columns
          Checks     \* the CHECK constraints of columns

MCFold == [n \in TableName |-> IF n = "U" THEN "u" ELSE n]

\* strings.Index, and the text around what it found.
MCReplaced(word, old, new) ==
  LET found == {i \in 1..(Len(word) - Len(old) + 1) : SubSeq(word, i, i + Len(old) - 1) = old}
      first == CHOOSE i \in found : \A j \in found : i <= j
  IN  IF found = {} THEN word
      ELSE SubSeq(word, 1, first - 1) \o new \o SubSeq(word, first + Len(old), Len(word))

\* After one name has got into a keyword, another may take its place.
Whole == {"CREATE", "TABLE"} \union TableName
MCWord == Whole \union {MCReplaced(w, old, new) : w \in Whole, old, new \in TableName}
MCCell == {Null, Empty, IntOne, TextOne}

MCAffinity == [type \in {"INTEGER", "TEXT"} |->
  [v \in MCCell |-> IF v \in {IntOne, TextOne}
                      THEN IF type = "INTEGER" THEN IntOne ELSE TextOne
                      ELSE v]]

Column(name, type, notNull, unique, default, check) ==
  [name |-> name, type |-> type, notNull |-> notNull, unique |-> unique,
   default |-> default, check |-> check]

One == [value |-> IntOne, reparses |-> TRUE]
\* DEFAULT (-1), a number like any other, is rendered as DEFAULT -(1), which does not parse again.
Negative == [value |-> IntOne, reparses |-> FALSE]
\* CHECK (b > 0) on a TEXT column compares as text until it is reloaded.
OneOnly == [accepts |-> {Null, TextOne}, unresolved |-> {Null, TextOne}]

MCDefault == [none |-> NoDefault, one |-> One, negative |-> Negative]
MCCheck == [none |-> NoCheck, one |-> OneOnly]

Keys == [none  |-> [primary |-> {}, unique |-> {}],
         pair  |-> [primary |-> {}, unique |-> {{"a", "b"}}],
         both  |-> [primary |-> {}, unique |-> {{"a"}, {"b"}}]]

MCDefinition ==
  {[columns |-> <<Column("a", "INTEGER", FALSE, FALSE, MCDefault[d], NoCheck),
                  Column("b", "TEXT", FALSE, FALSE, NoDefault, MCCheck[c])>>,
    primary |-> Keys[k].primary, unique |-> Keys[k].unique] :
     k \in Declared, d \in Defaults, c \in Checks}
  \union
  {[columns |-> <<Column("a", "INTEGER", FALSE, TRUE, MCDefault[d], NoCheck)>>,
    primary |-> {}, unique |-> {}] : d \in Defaults}

MCNewColumn == {Column("b", "TEXT", notNull, FALSE, IF notNull THEN One ELSE NoDefault, NoCheck) :
                  notNull \in BOOLEAN}
  \union {Column("b", "TEXT", TRUE, FALSE, NoDefault, NoCheck),
          Column("b", "TEXT", FALSE, TRUE, NoDefault, NoCheck)}
MCIndexKey == {{"b"}}
Symmetry == Permutations(Row)
=============================================================================
