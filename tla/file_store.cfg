SPECIFICATION FairSpec
CONSTANTS
  p1 = p1
  p2 = p2
  p3 = p3
  Processes = {p1, p2, p3}
  Kinds <- AllKinds
  InitialLocks <- FreeOrLeftover
  MaxCalls = 1
  MaxCrashes = 1
  Window = TRUE
  Absent = Absent
  NoLock = NoLock
  NoRequest = NoRequest
INVARIANTS
  NoLockLeft
PROPERTIES
  RefinesRegister
  CallsReturn
