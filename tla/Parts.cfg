SPECIFICATION PartsSpec
CONSTANTS
  Issuers = {A, B}
  None = none
  Callers = {c1}
  Flows = {f1}
  Refresher = refresher
  MaxOnces = 2
  MaxURLs = 1
  MaxTokens = 2
  MaxVersions = 2
  Kinds = {"tools", "resources", "templates", "prompts"}
  RegistryItems <- TwoItems
  DisplayName <- SameName
  MaxRedefined = 2
  Changers = {1, 2}
  PageLimit = 1
  ChannelCap = 1
  MaxChanges = 2
  MaxLogs = 1
  Gets = {1, 2}
  Posts = {p1}
  InitPost = initialize
  Cleaners = {1, 2}
  EventStore = FALSE
  Starters = {s1, s2}
  Closers = {k1, k2}
  Requests = {r1, r2}
  Ids = {a, b}
  MaxRoundTrips = 4
  MaxLoadShedding = 3
  Newest = 4
  Known = {1, 2, 3}
  FirstModern = 3
  MaxRequests = 4
  Listens = {l1, l2}
  Topics = {changed}
  Offered = {changed}
  Casters = {b1}
  StreamCap = 1
  MaxCasts = 1
  CallItems <- ManyItems
  MaxCalls = 2
  MaxMoves = 1
  Params = {m1, m2}
  HeaderNames = {h1}
  Listers = {j1}
  MaxDefinitions = 2
  MaxAsks = 2
  Methods = {"elicitation/create", "sampling/createMessage"}
  Streams = {v1}
  QueueCap = 1
  WriteCap = 1
  MaxAnswers = 2
  MaxMessages = 3
  IntSize = 5
  Significand = 3
  NarrowSizes = {3}
  MaxHops = 2
  Definers = {1, 2}
  Savers = {1}
  MaxBuilds = 2
  ToolTypes = {"t", "u"}
  SchemaKeys = {"k"}
  NoKey = ""
  Null = null
  InSession = {1}
  ToolCallers = {1, 2}
  MaxRedefinitions = 1
  Values = {1, 2}
  Schemas = {{1}}
  MaxProxies = 2
  MaxEvents = 2
  MaxReceipts = 1
  MaxStreams = 3
INVARIANTS CredentialsStayHome LeavesNothing ClientSeesTheRegistry StdioLetsGo InProcessLetsGo AnswersComplete Negotiated StreamsDeliver Served HeadersAgree AsksAnswered DataArrives SchemasFit
CHECK_DEADLOCK FALSE
