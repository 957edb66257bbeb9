SPECIFICATION Spec
CONSTANTS
  Upload <- Pieces
  datasize = 2
  AckFreq = {1, 2, 3}
  RETRIES = 3
  NULL = NULL
  MaxFaults = 2
INVARIANT DoneIsWholeAlways
CHECK_DEADLOCK FALSE
