SPECIFICATION FairSpec
CONSTANTS
  Users = {u1}
  Probers = {p1}
  Requests <- MCRequests
  Names = {"auto", "liboqs", "pyca", "rustcrypto", "libqs"}
  Overrides = {"", "liboqs"}
  Builds <- MCBuilds
  MaxCalls <- MCMaxCalls
  NoRequest = NoRequest
INVARIANTS
  KeyWorksWithEither
  PicksBest
  ClearIsFinal
  GoodSignatureAccepted
PROPERTIES
  CallsEnd
