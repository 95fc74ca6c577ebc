SPECIFICATION Spec
CONSTANTS
  p1 = p1
  p2 = p2
  p3 = p3
  Processes = {p1, p2, p3}
  Kinds <- CasOnly
  InitialLocks <- Leftover
  MaxCalls = 1
  MaxCrashes = 0
  Window = FALSE
  Absent = Absent
  NoLock = NoLock
  NoRequest = NoRequest
PROPERTIES
  NoLostUpdate
