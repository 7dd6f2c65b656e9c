CONSTANTS
  p1 = p1
  p2 = p2
  Points <- MCPoints
  Formulas <- MCFates
  Rejected <- MCRejected
  Skipped <- MCSkipped
  Quantities = {x}
  MaxFrames = 2
  MaxNames = 1
  MaxAsserts = 2
  MaxSync = 4
  PipeRoom = 1
  ErrorStream = "stdout"
  Candidates = TRUE
SPECIFICATION Spec
INVARIANTS VerdictSound NoPartialAnswer InStep
PROPERTY LapsesOnly
