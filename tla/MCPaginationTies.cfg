CONSTANTS
  Rows <- MCRows
  Sizes = {1, 2}
  Backends = {"redis"}
  Shapes <- MCShapes
  ColonIDs <- MCColonIDs
  Now = 3
  MaxWrites = 1
SPECIFICATION Spec
INVARIANTS
  FurtherItemsAnnounced
CHECK_DEADLOCK FALSE
