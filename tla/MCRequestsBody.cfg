SPECIFICATION Spec
CONSTANTS
  Workers = {w1, w2}
  Loop = Loop
  Kinds = {"upload"}
  MaxRequests = 2
  MaxStreamed = 2
CHECK_DEADLOCK FALSE
INVARIANT BodyToItsHandler
