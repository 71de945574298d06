SPECIFICATION Spec
CONSTANTS
  a = a
  b = b
  c = c
  r1 = r1
  r2 = r2
  pool = pool
  none = none
  admin = admin
  Clients = {a, b, c}
  Resources = {r1, r2}
  Pools = {pool}
  None = none
  Admin = admin
  PoolDefs = {}
  Script <- Contended
  Budget <- NoFaults
  HistoryLimit = 1
INVARIANT MutualExclusion
CHECK_DEADLOCK FALSE
