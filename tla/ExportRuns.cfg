SPECIFICATION Spec
CONSTANTS
  f1 = f1
  f2 = f2
  f3 = f3
  Funcs <- MCFuncs
  Root = f1
  Graphs <- MCGraphs
  Databases <- MCDatabases
  MaxRuns = 2
INVARIANT TypeOK
INVARIANT FirstManifestIsTrue
INVARIANT CleanWalkIsComplete
INVARIANT RecoveredIsTrue
PROPERTY RetryWritesOnlyFailed
PROPERTY RetryNeverGrows
