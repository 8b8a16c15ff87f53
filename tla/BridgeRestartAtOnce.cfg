SPECIFICATION Spec
CONSTANTS
  a = a
  b = b
  NoDb = nodb
  Dbs = {a, b}
  InitialDb = a
  MayNotify = FALSE
  MayHang = FALSE
  MaxLines = 2
  MaxFailures = 2
INVARIANT NoDegradedAnswer
