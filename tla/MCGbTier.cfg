SPECIFICATION Spec
CONSTANTS
  b1 = b1
  b2 = b2
  b3 = b3
  e1 = e1
  e2 = e2
  m1 = m1
  m2 = m2
  NoBuf = NoBuf
  NoOne = NoOne
  Bufs = {b1, b2, b3}
  Kv = {b2}
  Pin = {b3}
  Evictors = {e1, e2}
  Workers = {e1}
  Sweepers = {e1}
  Callers = {e2}
  Importers = {m1}
  T2Max = 1
  T3Max = 1
  FileMax = 2
  Wrap = 256
  Advices = {"prefer"}
  Failing = "last"
  Overtaken = FALSE
INVARIANTS
  TiersExact
  ContentsKept
  KvStaysInT2
CHECK_DEADLOCK FALSE
