SPECIFICATION FairSpec
CONSTANTS
  x = x
  y = y
  px = px
  px2 = px2
  py = py
  f = f
  g = g
  c = c
  d = d
  v1 = v1
  v2 = v2
  e1 = e1
  e2 = e2
  n = n
  Files = {x, y}
  Paths = {px, px2, py}
  FileOf <- MCFileOf
  NoPath = nopath
  Funcs = {f, g}
  Targets = {c, d}
  Types = {v1, v2}
  NoType = notype
  Notes = {n}
  Originals <- MCOriginals
  NoTarget = notarget
  Code <- MCCode
  Indirect = {c}
  PtrProtos <- MCPtrProtos
  Protos <- MCProtos
  Backwalk = 1
  AddrLists <- MCAddrLists
  Events = {e1, e2}
  Deadly = {e1}
  MaxRequests = 2
INVARIANT TypeOK
INVARIANT DiskNeedsAsking
INVARIANT NameIsOfOpenDatabase
INVARIANT OnlyHelpfulKept
INVARIANT ClosedBeforeEnd
PROPERTY ServerStops
