\* Two connections in autocommit persist at the same time.
CONSTANTS
  Conn = {c1, c2}
  TxConn = {}
  WriteConn = {c1, c2}
  Write = {w1, w2}
  Ref = {r1, r2, r3}
  None = None
  Persistent = TRUE
  Inode = {i1, i2, i3, i4}
  Empty = Empty
  Garbage = Garbage
  Failures = {}
  Crashes = {"kill"}
  MaxCrash = 0
SPECIFICATION PSpec
SYMMETRY Symmetry
VIEW View
INVARIANTS
  Recoverable
