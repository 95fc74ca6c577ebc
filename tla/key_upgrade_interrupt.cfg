SPECIFICATION Spec
CONSTANTS
  Runs = {r1}
  Old = old
  None = none
  Overlap = FALSE
PROPERTIES
  SecretSurvivesInterrupt
CHECK_DEADLOCK FALSE
