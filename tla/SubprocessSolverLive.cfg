CONSTANTS
  p1 = p1
  p2 = p2
  Points <- MCPoints
  Formulas <- MCFormulas
  Rejected <- MCRejected
  Skipped <- MCNone
  Quantities = {x}
  MaxFrames = 2
  MaxNames = 1
  MaxAsserts = 1
  MaxSync = 4
  PipeRoom = 0
  ErrorStream = "stderr"
  Candidates = TRUE
SPECIFICATION FairSpec
INVARIANT NoOrphan
PROPERTIES ReturnsUnlessBlocked 
