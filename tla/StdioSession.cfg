SPECIFICATION LiveSpec
CONSTANTS
  w1 = w1
  Workers = {w1}
  Health = health
  Main = main
  Nobody = nobody
  CanTimeOut = TRUE
  MaxCalls = 1
INVARIANT TypeOK
INVARIANT ShiftedByTimeouts
INVARIANT ClosedUntilTimeout
PROPERTY CallsReturn
PROPERTY CloseEnds
PROPERTY ChildEnds
