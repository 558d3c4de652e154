SPECIFICATION Spec
CONSTANTS
  Workers = {w1, w2}
  Loop = Loop
  TlsModes = {TRUE}
  Modes = {"http"}
  Kinds = {"plain"}
  FileParts = 1
  MaxQueued = 2
  MaxQueuedTls = 2
  MaxRecords = 1
SYMMETRY Symmetry
CHECK_DEADLOCK FALSE
INVARIANT AllSentAtClose
