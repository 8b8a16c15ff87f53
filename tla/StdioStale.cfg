SPECIFICATION Spec
CONSTANTS
  w1 = w1
  w2 = w2
  Workers = {w1, w2}
  Health = health
  Main = main
  Nobody = nobody
  CanTimeOut = TRUE
  MaxCalls = 1
INVARIANT AnswersOwnRequest
