SPECIFICATION RegisteredFirst
CONSTANTS
  a = a
  b = b
  c = c
  r1 = r1
  r2 = r2
  pool = pool
  none = none
  admin = admin
  Clients = {a, b, c}
  Resources = {r1, r2}
  Pools = {pool}
  None = none
  Admin = admin
  PoolDefs <- BothResources
  Script <- MixedScript
  Budget <- Pooled
  HistoryLimit = 30
INVARIANT ServedAsAsked
PROPERTY EveryWaiterServed
PROPERTY LocksComeBack
CHECK_DEADLOCK FALSE
