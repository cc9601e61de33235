\* Numerals, patterns, expressions, scripts and files of a few pieces.
CONSTANTS
  Bits = 8
  Mantissa = 5
  MaxExp = 7
  One = 16
  MaxPower = 4
  Code <- MCCode
  Lower <- MCLower
  Subject <- MCSubject
  Atom <- MCAtom
  Printed <- MCPrinted
  Letter <- MCLetter
  Figure <- MCFigure
  HexDigit <- MCHexDigit
  OpChar <- MCOpChar
  Header <- MCHeader
  Answer <- MCAnswer
  Unsupported <- MCUnsupported
  HashOf <- MCHashOf
  Before <- MCBefore
  Seed <- MCSeed
  Piece <- MCPiece
  MaxPieces <- MCMaxPieces
SPECIFICATION Spec
INVARIANTS
  NumeralsKeepTheirWorth
  IntegersReadBack
  PatternsMatch
  
  RenderedIsReparsed
  PrecedenceIsDeclared
  ScriptsAreCutAtTokens
  FilesAreJudged
\* The bound on the pieces ends every behaviour.
CHECK_DEADLOCK FALSE
