SPECIFICATION Spec
CONSTANTS
  Ids = {1, 2}
  MaxPos = 3
  g1 = g1  g2 = g2  g3 = g3
  Goroutines = {g1, g2}
  NoId = NoId
  MaxLimit = 2
  WriteFaults = FALSE
  InitTables <- EmptyTable
  Externals <- EveryExternal
  SetStatuses <- EveryStatus
  Ops = {"start", "schedule", "delete", "limit", "crash"}
SYMMETRY Symmetry
INVARIANTS AppTypeOK CompletedHasFile DownloadingHasWorker
