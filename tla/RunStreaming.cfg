CONSTANTS
  Workers = {w1, w2}
  ChunkEvents = 2
  MaxLines = 5
  Kinds = {"pass", "fail", "blank", "bad", "ioerr"}
  Files <- MCFiles
SPECIFICATION FairSpec
INVARIANTS TypeOK OnePlace NothingVanishes SuccessIsComplete
PROPERTIES ErrorsOnlyImprove Termination ImplementsOrdered
