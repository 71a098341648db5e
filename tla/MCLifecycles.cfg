CONSTANTS
  Requests = {"r1", "r2"}
  Callers = {"c1", "c2", "signal"}
  GatewayRequests = {"r1"}
  RPCs = {"d1"}
  Closers = {"c1", "c2"}
  NoOne = "none"
  Brokers = 2
  Networks = {11, 12}
  Stoppers = {"s1"}
  Kinds = {"psql", "clickhouse", "rabbitmq"}
  NumSQLs = 2
  MaxStarts = 2
SPECIFICATION MCSpec
INVARIANTS
  ReturnedIsDrained
  RefusedByGroupOnly
  StoppableWhileUp
  NothingLeftBehind
  ReadyOnReturn
PROPERTIES
  CleanStop
  ShutdownEndsServe
  CancelDrains
  StopsTogether
  CloseStops
CHECK_DEADLOCK FALSE
