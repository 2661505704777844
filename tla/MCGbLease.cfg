SPECIFICATION Spec
CONSTANTS
  p1 = p1
  p2 = p2
  p3 = p3
  k1 = k1
  k2 = k2
  k3 = k3
  k4 = k4
  m1 = m1
  Procs = {p1, p2, p3}
  Mortal = {p1}
  Keys = {k1, k2, k3, k4}
  NoKey = NoKey
  Models = {m1}
  Requests <- MCRequests
  ClientBudgets <- MCClientBudgets
  Phys = 5
  Reserve = 1
  Unreadable = Unreadable
  FreeReadings = {3}
  NoBudget = NoBudget
  QueueMax = 2
  Aging = 30000
  StarveT = 1
  TtlT = 0
  SettleT = 1
  MaxAge = 2
  MaxIdle = 1
  MaxSeq = 4
  MaxRepairs = 0
INVARIANTS
  SoloKeptApart
  ClaimsExact
  TokensFence
PROPERTIES
  HeadOfLine
  LiveHolderNeverEvicted
  ReleaseInTwoCalls
CHECK_DEADLOCK FALSE
