SPECIFICATION MovesSpec
CONSTANTS
  Ids = {1, 2, 3}
  MaxPos = 4
  g1 = g1  g2 = g2
  Goroutines = {g1, g2}
  NoId = NoId
  MaxLimit = 2
  WriteFaults = FALSE
  InitTables <- StartTables
  Externals = {"create", "delete", "restore", "exit"}
  SetStatuses = {}
SYMMETRY Symmetry
INVARIANTS TypeOK SlotHasOneOwner WorkConserving 
PROPERTIES ImplementsSlotPool 
