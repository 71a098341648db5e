CONSTANTS
  s1 = s1
  s2 = s2
  a = a
  b = b
  p1 = p1
  p2 = p2
  NoOne = NoOne
  Subs = {s1, s2}
  Channels = {a, b}
  Publishers = {p1, p2}
  eventBufferSize = 1
  MaxEvents = 2
  MaxChannels = 2
  Partitions = {"q1"}
  NumMessages = 2
  MaxSessions = 2
  MaxFails = 1
SPECIFICATION MCSpec
INVARIANTS
  TypeOK
  MapAgrees
  NoSendOnClosed
  NothingSkipped
PROPERTIES
  KeepsContract
  PublishReturns
CHECK_DEADLOCK FALSE
