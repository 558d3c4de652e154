CONSTANTS
  Parts = {"client", "proxy", "router", "limiters", "sessions", "jwt", "browsers", "messages", "redis", "postgres", "awaits", "migrations", "observability", "texts", "contents", "files", "headers", "forwarding", "statements", "settings", "json", "patches"}
  ClRequests = {u1, u2}
  ClMaxBody = 1
  PxRequests = {p1, p2}
  PxFds = {f1, f2}
  PxResponses <- MCResponses
  PxNobody = PxNobody
  RtPatterns <- MCPatterns
  RtPaths <- MCPaths
  RtMaxRoutes = 2
  RtMaxUses = 1
  LmClients = {k1, k2, k3}
  LmMaxRequests = 2
  LmWindow = 2
  LmMaxTracked = 2
  SmClients = {k1, k2}
  SmRequests = {q1, q2}
  SmIds = {s1, s2}
  SmMaxSessions = 2
  SmNone = SmNone
  JwKeys = {"r", "e", "w"}
  JwAlg <- MCAlg
  JwSecret = "secret"
  JwPublishes <- MCPublishes
  JwConfigs <- MCConfigs
  JwSigners = {"secret", "r"}
  JwSignKids = {"a"}
  JwFirst <- MCFirst
  JwKids = {"a", "b"}
  JwTokens <- MCTokens
  JwRefresh = 2
  JwMinRefetch = 1
  JwTimeout = 1
  JwLeeway = 1
  JwExpiresIn = 2
  JwMaxTime = 4
  BfBrowsers = {b1, b2}
  b1 = b1
  b2 = b2
  Tabs <- MCTabs
  BfTokens = {x1, x2}
  BfNone = BfNone
  MsObjects = {o1, o2}
  MsFds = {1, 2}
  MsSizes = {0, 2}
  MsTypes = {t1, t2, t3}
  MsInline = 2
  MsMaxSets = 4
  RdThreads = {t1, t2}
  RdMaxCalls = 3
  RdNobody = RdNobody
  PgSqls = {"a", "b"}
  PgMaxPrepared = 1
  PgMaxNames = 3
  PgMaxLosses = 2
  AqCoros = {q1, q2}
  AqWorkers = {w1, w2}
  AqClients = 1
  AqMaxOps = 2
  AqMaxWaits = 1
  MgRunners = {"r1", "r2"}
  MgFiles <- MCMgFiles
  MgBroken = {3}
  MgMaxFaults = 3
  ObConns = {c1, c2}
  ObMaxRequests = 2
  ObBounds <- MCObBounds
  ObDurations = {1, 2, 4}
  TxBytes = {97, 50, 53, 37, 43, 47, 44, 32, 70}
  TxMaxLen = 4
  CmElements <- MCElements
  CmAvailable = {"br"}
  CmOptions <- MCCmOptions
  CmResponses <- MCCmResponses
  HmOrigins = {"us", "them"}
  HmListed = {"us"}
  HmFields = {"f", "g"}
  SfBase <- MCBase
  SfWorlds <- MCWorlds
  SfPaths <- MCSfPaths
  SfOptions <- MCSfOptions
  SfHidden = {".git"}
  SfVariant <- MCVariant
  SfMaxU64 = 7
  FwBytes = 3
  FwBits = 2
  FwV4Bytes = 1
  FwProxy <- MCFwProxy
  FwChunks <- MCFwChunks
  OrmColumns <- MCOrmColumns
  OrmReserved = {"user"}
  OrmValues = {"u", "v"}
  OrmTexts <- MCOrmTexts
  OrmLengths = {0, 2}
  CfKinds <- MCCfKinds
  CfFlags <- MCCfFlags
  CfJson <- MCCfJson
  CfEnvs <- MCCfEnvs
  CfFiles <- MCCfFiles
  CfArgs = {"p", "t", "a", "x", "auto", "three"}
  CfMaxArgs = 3
  CfNoLimit = 9
  CfLetters = {"a", "b"}
  CfMaxWord = 3
  JtBytes = {10, 34, 92, 195, 169, 237, 160, 240}
  JtMaxBytes = 4
  JtNumbers = {45, 48, 49, 46, 101, 43}
  JtMaxNumber = 4
  JtTokens <- MCJtTokens
  JtMaxTokens = 5
  JtValues <- MCJtValues
  JtMaxUnsigned = 99
  JtMaxNegative = 99
  JtMaxOrder = 12
  JpPairs <- MCJpPairs
  JpPointers <- MCJpPointers
SPECIFICATION MCSpec
CHECK_DEADLOCK FALSE
INVARIANT UpstreamsSound
INVARIANT RoutedAsRegistered
INVARIANT ClientsApart
INVARIANT CredentialsSound
INVARIANT MessagesSound
INVARIANT DatabaseSound
INVARIANT ContentSound
INVARIANT JsonSound
