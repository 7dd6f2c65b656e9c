SPECIFICATION Spec
CONSTANTS
  Grid = 1
  MaxF = 99
  MaxDepth = 2
  MaxPops = 16
  Quantities = 2
  MaxBranches = 5
  MaxAtoms = 4
  FillSlack = 0
  MaxDirect = 3
  Cuts <- MCCuts
  Facts <- MCFacts
  Premises <- MCPremises
  Points <- MCPoints
  Formulas <- MCFormulas
  Sat <- Holds
  UnsatCertificate <- CertifyUnsat
  BoundsCertificates <- CertifyBounds
  FalseParts <- Falsified
  CrossingParts <- Parts
  MaxAsserts = 3
  MaxFacts = 1
  MaxEdits = 1
INVARIANTS
  AcceptedIsRefuted
  AcceptedIsDerived
  SearchDecides
  BoundsConfirmed
CHECK_DEADLOCK FALSE
