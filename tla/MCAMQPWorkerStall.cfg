CONSTANTS
  j1 = j1
  j2 = j2
  Jobs = {j1, j2}
  NoJob = NoJob
  maxConcurrency = 1
  Delays <- MCDelays
  MaxStarts = 1
SPECIFICATION FairSpec
PROPERTIES
  EveryJobAttempted
CHECK_DEADLOCK FALSE
