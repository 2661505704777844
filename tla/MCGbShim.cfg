SPECIFICATION Spec
SYMMETRY Symmetry
CONSTANTS
  a = a
  b = b
  d1 = d1
  h1 = h1
  h2 = h2
  Threads = {a, b}
  NoThread = NoThread
  Dev = {d1}
  Host = {h1, h2}
  Registered = {h1}
  PoolUnits = 2
  HtSize = 2
  HtLocks = 2
  Hash <- MCHash
  Empty = Empty
  Tombstone = Tombstone
  Sizes = {1, 2}
  ClassMax <- MCClassMax
  Cap = 2
  Mid = 2
  Word = 16
  MaxHeld = 0
  MaxReclaims = 1
INVARIANTS
  TableExact
  RegionsExact
  CountersKept
