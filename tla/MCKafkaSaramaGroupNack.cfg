CONSTANTS
  q1 = q1
  Partitions = {q1}
  NumMessages = 2
  MaxSessions = 2
  MaxFails = 1
SPECIFICATION Spec
INVARIANTS
  NackedNotCommitted
CHECK_DEADLOCK FALSE
