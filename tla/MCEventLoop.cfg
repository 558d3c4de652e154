SPECIFICATION Spec
CONSTANTS
  Loops = {l1, l2}
  NoLoop = NoLoop
  Clients = {c1, c2}
  MaxConnections = 1
  AcceptBatch = 2
  Stoppable = {l1, l2}
  MaxFdErrors = 1
SYMMETRY Symmetry
CHECK_DEADLOCK FALSE
INVARIANT SlotsExact
INVARIANT LimitKept
INVARIANT ListenerWatched
INVARIANT GracefulExit
INVARIANT ClosedStaysClosed
