CONSTANTS
  r1 = r1
  c1 = c1
  Requests = {r1}
  RPCs = {}
  Closers = {c1}
  NoOne = NoOne
SPECIFICATION Spec
INVARIANTS
  GatewayDrainedFirst
CHECK_DEADLOCK FALSE
