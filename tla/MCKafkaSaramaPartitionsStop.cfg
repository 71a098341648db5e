CONSTANTS
  q1 = q1
  q2 = q2
  Partitions = {q1, q2}
  NumMessages = 2
  MaxErrors = 1
SPECIFICATION FairSpec
PROPERTIES
  StopsOnCancel
CHECK_DEADLOCK FALSE
