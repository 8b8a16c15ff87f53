SPECIFICATION FairSpec
CONSTANTS
  a = a
  b = b
  NoDb = nodb
  Dbs = {a, b}
  InitialDb = a
  MayNotify = TRUE
  MayHang = FALSE
  MaxLines = 2
  MaxFailures = 0
PROPERTY AllAnswered
CHECK_DEADLOCK FALSE
