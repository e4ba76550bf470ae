SPECIFICATION FairQueueSpec
CONSTANTS
  Ids = {1, 2}
  MaxPos = 3
  g1 = g1  g2 = g2
  Goroutines = {g1, g2}
  NoId = NoId
  MaxLimit = 2
  WriteFaults = TRUE
  InitTables <- PausedTable
  Externals = {"schedule", "delete", "restore", "purge", "reset", "exit"}
  SetStatuses = {"cancelled"}
PROPERTIES MutexReleased LoopIsBounded
