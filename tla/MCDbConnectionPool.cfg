SPECIFICATION FairSpec
CONSTANTS
  Clients = {c1, c2, c3}
  Acquirers = {a1, a2}
  NoClient = NoClient
  MaxSize = 2
  HealthCheck = TRUE
  InitialBackoff = 1
  MaxBackoff = 2
  MaxBreaks = 2
CHECK_DEADLOCK FALSE
INVARIANT NoIdleWhileWaiting
INVARIANT ExclusiveUse
INVARIANT ReconnectingExact
INVARIANT PoolAccounted
PROPERTY WaiterServed
