SPECIFICATION Spec
CONSTANTS
  Programs <- MCMisleading
  Inputs <- MCMisleadingInputs
  Contents <- MCHalfContents
  Arrivals <- MCHalfContents
  ChunkEvents = 2
  Grid = 2
  MaxF = 50
  Pi = 2
  MaxKeyLen = 80
  MaxFile = 3000
  IngestTree <- TreeRead
  Passes <- FirstPasses
  HasHistos <- AnyHisto
  HasCutflow <- AnyFlow
  NoTally <- EmptyTally
  MergePartial <- MergedTally
  HistNamesOf <- DeclaredNames
  BodyOf <- FileBody
INVARIANT
  SomePromiseKept
CHECK_DEADLOCK FALSE
