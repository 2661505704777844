SPECIFICATION FairSpec
CONSTANTS
  p1 = p1
  p2 = p2
  p3 = p3
  m1 = m1
  Procs = {p1, p2}
  UserOf <- MCOneUser
  Mortal = {p1, p2}
  Patient = {p1}
  Slow = {p1, p2}
  NeedsVram = {p2}
  Pausers = {p2}
  Raising = {p2}
  Models = {m1}
  Inodes = {1, 2, 3, 4, 5}
  NoFile = NoFile
INVARIANTS
  ExclusionUntilTakenForStale
  FailedLeavesNoLock
PROPERTIES
  PatientServed
CHECK_DEADLOCK FALSE
