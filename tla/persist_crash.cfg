\* One connection writes; system calls fail; the process is killed and the
\* power fails.  The directory sync, whose error persist() ignores, succeeds.
CONSTANTS
  Conn = {c1}
  TxConn = {c1}
  WriteConn = {c1}
  Write = {w1, w2}
  Ref = {r1, r2, r3}
  None = None
  Persistent = TRUE
  Inode = {i1, i2, i3, i4}
  Empty = Empty
  Garbage = Garbage
  Failures = {"marshal", "create", "write", "sync", "rename"}
  Crashes = {"kill", "power"}
  MaxCrash = 2
SPECIFICATION PSpec
SYMMETRY Symmetry
VIEW View
INVARIANTS
  FileTypeOK
  AckedDurable
  AckedOnDisk
  Recoverable
PROPERTIES
  ImplementsDurableStore
