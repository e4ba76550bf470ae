SPECIFICATION FairSpec
CONSTANTS
  t1 = t1  t2 = t2  u1 = u1  u2 = u2
  Transfers = {t1, t2}
  Urls = {u1}
  NoUrl = NoUrl
  Cap = 1
  UrlOf <- OneUrl
  Ways <- MixedWays
  NoEntry = NoEntry
  MaxFailures = 2
INVARIANTS HandoffTypeOK UniqueUrls
PROPERTIES ImplementsCustody FailureIsKept HeldIsSettled PendingIsAnswered
