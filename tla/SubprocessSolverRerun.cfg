CONSTANTS
  p1 = p1
  p2 = p2
  Points <- MCPoints
  Formulas <- MCFormulas
  Rejected <- MCNone
  Skipped <- MCNone
  Quantities = {x}
  MaxFrames = 2
  MaxNames = 1
  MaxAsserts = 1
  MaxSync = 4
  PipeRoom = 1
  ErrorStream = "stdout"
  Candidates = TRUE
SPECIFICATION Spec
PROPERTY ImplementsSession
