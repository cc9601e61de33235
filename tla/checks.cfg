\* NOT, =, and parentheses around an operand.
CONSTANTS
  Bits = 8
  Mantissa = 5
  MaxExp = 7
  One = 16
  MaxPower = 4
  Code <- MCCode
  Lower <- MCLower
  Subject <- MCSubject
  Atom <- MCAtom
  Printed <- MCPrinted
  Letter <- MCLetter
  Figure <- MCFigure
  HexDigit <- MCHexDigit
  OpChar <- MCOpChar
  Header <- MCHeader
  Answer <- MCAnswer
  Unsupported <- MCUnsupported
  HashOf <- MCHashOf
  Before <- MCBefore
  Seed <- ColumnSeed
  Piece <- NotPiece
  MaxPieces <- MCMaxPieces
SPECIFICATION Spec
INVARIANTS
  ChecksReadBack
\* The bound on the pieces ends every behaviour.
CHECK_DEADLOCK FALSE
