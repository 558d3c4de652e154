SPECIFICATION MCSpec
CONSTANTS
  Parts = {"requests", "app", "rooms"}
  Workers = {w1, w2}
  Loop = Loop
  Kinds = {"get", "upload", "empty", "bad", "badBody"}
  MaxRequests = 2
  MaxStreamed = 1
  ErIds = {i1, i2}
  ErRooms = {r1, r2}
  Loops = {l1, l2}
  Front = l1
  Main = Main
  Callers = {t1, t2}
  MaxSignals = 1
  DeadlineComes = TRUE
CHECK_DEADLOCK FALSE
INVARIANT RequestsInOrder
INVARIANT StopsClean
INVARIANT RoomsSound
PROPERTY NoticeKeepsRequests
PROPERTY RequestServed
PROPERTY StopEnds
PROPERTY ErLeaves
