SPECIFICATION FairSpec
CONSTANTS
  Ids = {1, 2}
  MaxPos = 3
  g1 = g1  g2 = g2  g3 = g3
  Goroutines = {g1, g2}
  NoId = NoId
  MaxLimit = 1
  WriteFaults = FALSE
  InitTables <- PausedTable
  Externals <- EveryExternal
  SetStatuses <- EveryStatus
  Ops = {"resume", "shutdown", "cancel"}
PROPERTIES ShutdownReturns CancelReleasesSlot
