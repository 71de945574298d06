SPECIFICATION CoreSpec
CONSTANTS
  a = a
  b = b
  c = c
  r1 = r1
  r2 = r2
  pool = pool
  none = none
  admin = admin
  Clients = {a, b, c}
  Resources = {r1, r2}
  Pools = {pool}
  None = none
  Admin = admin
  PoolDefs <- BothResources
  Script <- MixedScript
  Budget <- Unreliable
  HistoryLimit = 30
INVARIANT TypeOK
INVARIANT OneTokenPerLock
PROPERTY ReleasesOnlyOwnLock
PROPERTY ServedInOrder
PROPERTY IsLockService
CHECK_DEADLOCK FALSE
