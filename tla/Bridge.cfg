SPECIFICATION FairSpec
CONSTANTS
  a = a
  b = b
  NoDb = nodb
  Dbs = {a, b}
  InitialDb = a
  MayNotify = TRUE
  MayHang = TRUE
  MaxLines = 2
  MaxFailures = 3
INVARIANT TypeOK
INVARIANT AnswersFromWantedDb
INVARIANT NoLeftovers
PROPERTY ErrorsNeedFailures
PROPERTY KeepsChannel
PROPERTY StopsAfterHangup
CHECK_DEADLOCK FALSE
