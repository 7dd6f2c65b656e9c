SPECIFICATION Spec
CONSTANTS
  Grid = 2
  MaxF = 50
  Pi = 2
  Open1Bound = 3
  Comb2dBound = 2
  SliceCap = 4
  MaxLen = 3
  Regions <- MCRegions
  Statements <- PromiseStatements
  Partner <- AnyPartner
  Events <- PromiseEvents
  Junk <- MCJunk
  Probes <- MCProbes
INVARIANT SomePromiseHolds
CHECK_DEADLOCK FALSE
