SPECIFICATION Spec
CONSTANTS
  p = p
  NoPoint = NoPoint
  Points <- OnePoint
  Ax <- OnePoint
  NRegions = 2
  NameRank <- Reversed
  SolverLies = TRUE
  Certify = TRUE
  EncoderErrs = TRUE
  Events <- OnePoint
  FailureKinds <- AllFailures
  MaxAttempts = 2
INVARIANTS
  VerdictsSound
  RetractedKeepsNothing
  NoClaimAgainstAnEvent
  BundlesBacked
  FirstFailureNamed
