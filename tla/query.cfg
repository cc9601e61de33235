\* Every column of up to three of eighteen values; queries over those of six of them.
CONSTANTS
  Bits = 8
  Mantissa = 3
  MaxExp = 7
  One = 2
  MaxPower = 4
  Bytes <- MCBytes
  NullText <- MCNullText
  LeadingNumber <- MCLeadingNumber
  LeadingInt <- MCLeadingInt
  Shown <- MCShown
  Literal <- MCLiteral
  MaxRows = 3
  Atom <- MCAtom
  Printed <- MCPrinted
  Sample <- MCSample
  MaxDepth = 4
  Constant <- MCConstant
  Condition <- MCCondition
  Opposite <- MCOpposite
  Argument <- MCArgument
  GroupList <- MCGroupList
  Summary <- MCSummary
SPECIFICATION Spec
INVARIANTS
  QueryTypeOK
  NumbersKept
  ComparisonIsOrder
  IntegersExact
  LogicIsKleene
  OrderIsOrder
  DistinctIsExact
  WherePartitions
  GroupsAddUp
  ItemsAreIndependent
  PagesCover
\* The bound on the rows ends every behaviour.
CHECK_DEADLOCK FALSE
