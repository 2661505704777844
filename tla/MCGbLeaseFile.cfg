CONSTANTS
  c1 = c1
  c2 = c2
  c3 = c3
  o1 = o1
  o2 = o2
  Clients = {c1, c2, c3}
  Patient = {c1, c2}
  Dying = {c1, c3}
  MaxHarm = 1
  MaxFull = 1
  Damaged = Damaged
  Nobody = Nobody
  Operators = {o1}
SPECIFICATION FFairSpec
INVARIANT HolderRecorded
PROPERTIES
  ImplementsStore
  Served
CHECK_DEADLOCK FALSE
