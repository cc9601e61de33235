\* A column whose default is negative.
CONSTANTS
  TableName = {"t"}
  IndexName = {}
  Fold <- MCFold
  Word <- MCWord
  TableWord = {"TABLE"}
  Replaced <- MCReplaced
  Null = Null
  Empty = Empty
  IntOne = IntOne
  TextOne = TextOne
  Absent = Absent
  Literal = {Null, IntOne}
  Cell <- MCCell
  Affinity <- MCAffinity
  Definition <- MCDefinition
  NewColumn <- MCNewColumn
  IndexKey <- MCIndexKey
  ColName = {"a", "b"}
  Row = {k1, k2}
  MaxColumns = 2
  MaxTables = 2
  Declared = {"pair"}
  Defaults = {"negative"}
  Checks = {"none"}
SPECIFICATION Spec
SYMMETRY Symmetry
PROPERTIES
  ReloadKeepsSchema
