SPECIFICATION Spec
CONSTANTS
  Runs = {r1, r2, r3}
  Old = old
  None = none
  Overlap = FALSE
INVARIANTS
  NothingLeftOver
PROPERTIES
  OutcomeIsTrue
  OnlyForceReplaces
  SecretKept
CHECK_DEADLOCK FALSE
