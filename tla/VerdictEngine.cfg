SPECIFICATION Spec
CONSTANTS
  p = p
  NoPoint = NoPoint
  Points <- OnePoint
  Ax <- OnePoint
  NRegions = 3
  NameRank <- Reversed
  SolverLies = FALSE
  Certify = FALSE
  EncoderErrs = FALSE
  Events <- NoEvents
  FailureKinds <- NoFailures
  MaxAttempts = 1
INVARIANTS
  TypeOK
  VerdictsSound
