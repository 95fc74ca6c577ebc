SPECIFICATION FairSpec
CONSTANTS
  t1 = t1
  t2 = t2
  t3 = t3
  p1 = p1
  p2 = p2
  Keys = {k1}
  Threads = {t1, t2, t3}
  Processes = {p1, p2}
  ProcessOf <- MCProcessOf
  Requests <- MCRequests
  InitialStores <- MCStores
  Home = p1
  MaxAttempts = 2
  MaxCalls = 1
  MaxFailures = 1
  NoCall = NoCall
  Absent = Absent
  Malformed = Malformed
INVARIANTS
  HistoryChained
  OutcomesMatchTheTrail
  QuietStoreIsInStep
  LostRaceMeansProgress
  LogNeverBehind
PROPERTIES
  CurrentStateMovesLegally
  RefinesLedger
  CallsReturn
