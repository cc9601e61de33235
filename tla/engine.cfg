\* Two connections, which read, write and open transactions and whose clients
\* end the transactions they open.
CONSTANTS
  Conn = {c1, c2}
  TxConn = {c1, c2}
  WriteConn = {c1, c2}
  Write = {w1, w2}
  Ref = {r1, r2, r3}
  None = None
  Persistent = FALSE
SPECIFICATION FairClientSpec
INVARIANTS
  TypeOK
  WriteExclusion
  NothingLeaked
  NoSharing
PROPERTIES
  ImplementsTxStore
  StatementsReturn
  LockIsFreed
