\* GROUP BY over every column of up to three of eighteen values.
CONSTANTS
  Bits = 8
  Mantissa = 3
  MaxExp = 7
  One = 2
  MaxPower = 4
  Bytes <- MCBytes
  NullText <- MCNullText
  LeadingNumber <- MCLeadingNumber
  LeadingInt <- MCLeadingInt
  Shown <- MCShown
  Literal <- MCLiteral
  MaxRows = 3
  Atom <- MCAtom
  Printed <- MCPrinted
  Sample <- MCSample
  MaxDepth = 4
  Constant <- MCConstant
  Condition <- MCCondition
  Opposite <- MCOpposite
  Argument <- MCArgument
  GroupList <- MCGroupList
  Summary <- MCSummary
SPECIFICATION Spec
INVARIANTS
  GroupsAreClasses
\* The bound on the rows ends every behaviour.
CHECK_DEADLOCK FALSE
