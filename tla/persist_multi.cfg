\* Two connections write in autocommit and persist at the same time; calls fail
\* under them, and the file may end up unreadable.
CONSTANTS
  Conn = {c1, c2}
  TxConn = {}
  WriteConn = {c1, c2}
  Write = {w1, w2, w3}
  Ref = {r1, r2, r3}
  None = None
  Persistent = TRUE
  Inode = {i1, i2, i3, i4}
  Empty = Empty
  Garbage = Garbage
  Failures = {"syncdir", "write"}
  Crashes = {"kill"}
  MaxCrash = 0
SPECIFICATION PSpec
SYMMETRY Symmetry
VIEW View
INVARIANTS
  FileIsACommit
  AckedVisible
CHECK_DEADLOCK FALSE
