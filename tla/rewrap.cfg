SPECIFICATION Spec
CONSTANTS
  Files = {"a", "b"}
  OldSuite <- MCOldSuite
  NewSuites <- Suites
  Junk = Junk
  Absent = Absent
  MaxUpdates = 1
  MaxRuns = 2
INVARIANTS
  NothingLost
PROPERTIES
  ReportIsTrue
  NeverOverwrites
  MigratedFilesMeetTheProfile
CHECK_DEADLOCK FALSE
