SPECIFICATION FairSpec
CONSTANTS
  p1 = p1
  p2 = p2
  p3 = p3
  k1 = k1
  k2 = k2
  k3 = k3
  k4 = k4
  m1 = m1
  Procs = {p1, p2, p3}
  Mortal = {p1}
  Keys = {k1, k2, k3, k4}
  NoKey = NoKey
  Models = {}
  Requests <- MCQueueRequests
  ClientBudgets <- MCQueueBudgets
  Phys = 5
  Reserve = 1
  Unreadable = Unreadable
  FreeReadings = {}
  NoBudget = NoBudget
  QueueMax = 3
  Aging = 30000
  StarveT = 1
  TtlT = 1
  SettleT = 1
  MaxAge = 4
  MaxIdle = 0
  MaxSeq = 3
  MaxRepairs = 1
PROPERTIES
  StarvedPassedOnlyByInteractive
  
CHECK_DEADLOCK FALSE
