\* Two connections write in transactions.
CONSTANTS
  Conn = {c1, c2}
  TxConn = {c1, c2}
  WriteConn = {c1, c2}
  Write = {w1, w2}
  Ref = {r1, r2, r3}
  None = None
  Persistent = FALSE
SPECIFICATION Spec
INVARIANTS
  AckedVisible
