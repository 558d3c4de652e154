SPECIFICATION FairSpec
CONSTANTS
  Workers = {w1, w2}
  Loop = Loop
  TlsModes = {FALSE, TRUE}
  Modes = {"http", "stream"}
  Kinds = {"plain", "file"}
  FileParts = 1
  MaxQueued = 3
  MaxQueuedTls = 2
  MaxRecords = 1
CHECK_DEADLOCK FALSE
INVARIANT OutputSound
PROPERTY OutputStable
PROPERTY OutputDelivered
