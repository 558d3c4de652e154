CONSTANTS
  Parts = {"uploads"}
  Conns = {c1, c2}
  Fds = {f1, f2}
  Ids = {i1, i2, i3, i4}
  Timeouts = {1, 2}
  Cap = 2
  Slack = 0
  NoConn = NoConn
  NoId = NoId
  PaFds = {f1, f2}
  PaOps = {"accept", "read", "connect", "sendfile", "wait_write"}
  PaMaxBatch = 2
  IuFds = {f1, f2}
  IuRequests = {r1, r2}
  IcFds = {f1, f2}
  IcOps = {o1, o2, o3}
  TlReloaders = {r1, r2}
  TlMaxRewrites = 2
  SkFds = {1, 2, 3, 4, 5}
  SkMaxAddrs = 2
  WsFrames <- MCFrames
  WsThreads = {t1}
  WsMaxSize = 4
  WsMaxSent = 3
  WsMaxSends = 1
  H2Last = 2
  H2MaxBody = 1
  H2Sizes = {1}
  H2Credit = 1
  H2MaxWritten = 2
  H3Ids = {q1}
  H3MaxBody = 1
  H3Chunk = 2
  H3MaxChunks = 2
  H3Grants = 3
  QcConns = {c1, c2}
  QcIds = {d1, d2, d3, d4}
  RlMaxRequests = 2
  RlCallbacks = {b1, b2}
  MpBodies <- MCBodies
  MpHeaders <- MCHeaders
  MpMaxTotal = 40
  MpMaxParts = 2
  MpMaxFile = 2
  MpMaxField = 2
  MpMaxHeaders = 6
  UpClients <- MCClients
  HpStreams <- MCStreams
  HpMaxLine = 2
  HpMaxHeaderBytes = 5
  HpMaxHeaders = 2
  HpMaxBody = 2
SPECIFICATION MCSpec
CHECK_DEADLOCK FALSE
INVARIANT ClosingSeen
