SPECIFICATION FairSpec
CONSTANTS
  w1 = w1
  Workers = {w1}
  Monitor = monitor
  Shared = TRUE
  CanTimeOut = TRUE
  Retries = 1
  Jobs = 1
  MaxOutages = 1
  MaxFlaws = 0
PROPERTY RunEnds
