CONSTANTS
  t1 = t1
  t2 = t2
  r1 = r1
  r2 = r2
  NoOne = NoOne
  N = 3
  Takers = {t1, t2}
  Refillers = {r1, r2}
  MaxTakes = 8
  GroupPartitions = {"q1"}
  GroupMessages = 2
  MaxSessions = 2
  MaxFails = 0
  Partitions = {"q1", "q2"}
  NumMessages = 3
  MaxErrors = 1
  Subs = {"s1", "s2"}
  SubMessages = 3
  Messages = {"m1", "m2"}
  NoMessage = "none"
  Closers = {"c1", "c2"}
  MaxRetries = 1
  LiteStarts = 2
  Jobs = {"j1", "j2"}
  NoJob = "none"
  maxConcurrency = 1
  Delays <- MCDelays
  WorkerStarts = 2
SPECIFICATION MCSpec
INVARIANTS
  Types
  RoundRobin
  AckedByApplication
  AckedAfterSuccess
PROPERTIES
  RefillReturns
  GroupCloseTerminates
  AllDecided
  CloseTerminates
  ForwarderStops
  CloseEndsLoop
  CancelCloses
CHECK_DEADLOCK FALSE
