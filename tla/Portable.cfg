SPECIFICATION MCSpec
CONSTANTS
  Eighth = 2
  BlockLength = 3
  Unwritten = Unwritten
  Jobs <- MCJobs
  Builds <- MCBuilds
INVARIANTS TypeOK CellsCount LengthWritten KnownDigests KnownTexts Recovered
PROPERTIES ImplementsStandard ImplementsCipher
CHECK_DEADLOCK FALSE
