CONSTANTS
  Interceptors = {"requestid", "propagation", "auth", "errors", "user"}
  MaxInterceptors = 2
  Calls <- GRPCCalls
  AuthRoles <- MethodRoles
  HandlerErrors <- GRPCErrors
  Middlewares = {"requestid", "recoverer", "logger", "sentry"}
  Errors <- HTTPErrors
  Rows <- PageRows
  Sizes <- MCSizes
  Backends = {"psql", "redis"}
  Shapes <- PageShapes
  ColonIDs = {3}
  Now = 9
  MaxWrites = 1
  Ints = {"v", "w"}
  Bigs = {"b"}
  Numbers <- MCNumbers
  Cells <- MCCells
  Texts <- IntTexts
  CookieName = "session"
  Payloads = {"a", "b"}
  Rings <- Keys
  Instances = {"i1", "i2"}
SPECIFICATION MCSpec
INVARIANTS
  ErrorsKeepTheirType
  FailuresReportedOnce
  PanicsAreRecovered
  
  AuthorizedHandler
  RequestIDPassedOn
  
  FailuresAreTold
  EveryRowVisited
  OrderedVisit
  RotationKeepsCookies
PROPERTIES
  ListingEnds
  OwnWords
CHECK_DEADLOCK FALSE
