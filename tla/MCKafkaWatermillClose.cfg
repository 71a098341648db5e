CONSTANTS
  s1 = s1
  s2 = s2
  Subs = {s1, s2}
  NumMessages = 3
SPECIFICATION Spec
INVARIANTS
  CloseIsSafe
CHECK_DEADLOCK FALSE
