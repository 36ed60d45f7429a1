SPECIFICATION Spec
CONSTANTS
  Total = 8
  Prefix = 2
  Base = 16
  BufSize = 2
  AlphabetSize = 4
  ByteBase = 2
  Increment = 32
  Inputs <- MCInputs
  TrainingInputs <- MCTrainingInputs
  MaxTrain = 2
INVARIANTS TypeOK RowsNormalised SuffixesSorted RoundTrip
CHECK_DEADLOCK FALSE
