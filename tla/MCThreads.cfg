SPECIFICATION MCSpec
CONSTANTS
  Parts = {"pool", "scheduler", "loop"}
  Loops = {l1}
  NoLoop = NoLoop
  Clients = {c1, c2}
  MaxConnections = 1
  AcceptBatch = 2
  Stoppable = {l1}
  MaxFdErrors = 1
  Workers = {w1, w2}
  Users = {u1, u2}
  Tasks = {a, b, c}
  Owner = Owner
  Nobody = Nobody
  NoTask = NoTask
  Timers = {p, s}
  Periodic = {p}
  NoTimer = NoTimer
INVARIANT ThreadsSound
PROPERTY RunsTasks
PROPERTY ThreadsLive
