SPECIFICATION RecoveringSpec
CONSTANTS
  w1 = w1
  w2 = w2
  Workers = {w1, w2}
  Monitor = monitor
  Shared = FALSE
  CanTimeOut = TRUE
  Retries = 2
  Jobs = 1
  MaxOutages = 1
  MaxFlaws = 1
INVARIANT TypeOK
INVARIANT EventMatchesState
INVARIANT PauseHolds
INVARIANT RestartCostsOneAttempt
INVARIANT RetriesAddUp
INVARIANT RecoveriesAreReal
PROPERTY JobsEnd
