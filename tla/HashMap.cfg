SPECIFICATION Spec
CONSTANTS
  k1 = k1
  k2 = k2
  k3 = k3
  k4 = k4
  Keys <- MCKeys
  v = v
  w = w
  Vals = {v, w}
  Absent = absent
  HashSize = 16
  Hash <- MCHash
  Fp <- MCFp
  Group = 2
  MinCap = 4
  FillPart = 2
  PurgeUnit = 8
  PurgeKeep = 3
  MaxCap = 8
INVARIANT TypeOK
INVARIANT SearchesEnd
INVARIANT GrowthIsEarned
PROPERTY RefinesStore
