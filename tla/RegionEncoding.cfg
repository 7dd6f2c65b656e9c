SPECIFICATION Spec
CONSTANTS
  Grid = 2
  MaxF = 50
  Pi = 2
  Open1Bound = 3
  Comb2dBound = 2
  SliceCap = 4
  MaxLen = 2
  Regions <- MCRegions
  Statements <- MCStatements
  Partner <- MCPartner
  Events <- MCEvents
  Junk <- MCJunk
  Probes <- MCProbes
INVARIANTS
  LoopAgrees
  OverSound
  UnderSound
  FactsHold
  IntervalSound
CHECK_DEADLOCK FALSE
