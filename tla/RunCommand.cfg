SPECIFICATION Spec
CONSTANTS
  Programs <- MCPrograms
  Inputs <- MCInputs
  Contents <- MCContents
  Arrivals <- MCArrivals
  ChunkEvents = 2
  Grid = 2
  MaxF = 50
  Pi = 2
  MaxKeyLen = 80
  MaxFile = 3000
  IngestTree <- TreeRead
  Passes <- FirstPasses
  HasHistos <- AnyHisto
  HasCutflow <- AnyFlow
  NoTally <- EmptyTally
  MergePartial <- MergedTally
  HistNamesOf <- DeclaredNames
  BodyOf <- FileBody
INVARIANTS
  TalliesAgree
  OutputTells
  RootTells
  IngestTells
  LoadedIsLegal
CHECK_DEADLOCK FALSE
