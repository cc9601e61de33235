\* Three names of tables, two of which differ in case, and one index.
CONSTANTS
  TableName = {"u", "U", "v"}
  IndexName = {"i"}
  Fold <- MCFold
  Word <- MCWord
  TableWord = {"TABLE"}
  Replaced <- MCReplaced
  Null = Null
  Empty = Empty
  IntOne = IntOne
  TextOne = TextOne
  Absent = Absent
  Literal = {Null, TextOne}
  Cell <- MCCell
  Affinity <- MCAffinity
  Definition <- MCDefinition
  NewColumn <- MCNewColumn
  IndexKey <- MCIndexKey
  ColName = {"a", "b"}
  Row = {k1, k2}
  MaxColumns = 2
  MaxTables = 2
  Declared = {"pair"}
  Defaults = {"none"}
  Checks = {"one"}
SPECIFICATION Spec
SYMMETRY Symmetry
INVARIANTS
  CatalogTypeOK
  KeysHold
  NotNullHolds
  NoOrphanIndex
  SchemaText
PROPERTIES
  IndexesKept
  ReloadKeepsSchema
