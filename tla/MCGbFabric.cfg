CONSTANTS
  t1 = t1
  t2 = t2
  Threads = {t1, t2}
  Does <- MCDoes
  Hb = Hb
  NoOne = NoOne
  NumSlots = 1
  p1 = p1
  Ptrs = {p1}
  NoPtr = NoPtr
  Copied = {"x"}
  Filled = {"y"}
  Junk = "junk"
  Cap = 2
  MaxHandle = 2
  MaxConn = 2
  MaxNotes = 1
  CudaFails = FALSE
  Careless = FALSE
SPECIFICATION FairSpec
INVARIANT FabricExact
PROPERTIES
  ReadsTrue
  Recovers
