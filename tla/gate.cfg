SPECIFICATION Spec
CONSTANTS
  NoLimit = NoLimit
  NoState = NoState
  NoInventory = NoInventory
  Keys = {k1, k2}
  Findings <- MCFindings
  Names <- MCNames
  Policies <- MCPolicies
SYMMETRY KeySymmetry
INVARIANTS
  RejectingControlsAreListed
  CommandsAgree
PROPERTIES
  GateIsMonotone
