SPECIFICATION FairTraffic
CONSTANTS
  Owner = Owner
  Stranger = Stranger
  Suites <- MCSuites
  Width = 1
  Alphabet <- MCAlphabet
  Contexts <- MCContexts
  Messages <- MCMessages
  Callers <- MCCallers
  Lifetimes <- MCLifetimes
  MaxSent = 2
  LastIssue = 0
  MaxTime = 3
  Skew = 1
  NoDocument = NoDocument
INVARIANTS
  VerifiesExactlyWhatWasSigned
  SignaturesNotShared
  DocumentsCarryTheKey
PROPERTIES
  TokensLapse
CHECK_DEADLOCK FALSE
