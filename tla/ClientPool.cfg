SPECIFICATION Spec
CONSTANTS
  f1 = f1
  f2 = f2
  f3 = f3
  f4 = f4
  f5 = f5
  t1 = t1
  t2 = t2
  Funcs <- MCFuncs
  Root = f1
  Graphs <- MCGraphs
  Chosen <- MCChosen
  Threads = {t1, t2}
  Limit = 2
  MaxFaults = 1
SYMMETRY ThreadSymmetry
INVARIANT TypeOK
INVARIANT WalkIsExact
INVARIANT OrderIsDeterministic
INVARIANT CopiesArePrivate
INVARIANT NothingLeft
