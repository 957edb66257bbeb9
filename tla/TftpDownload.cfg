SPECIFICATION FairSpec
CONSTANTS
  Upload <- Pieces
  datasize = 2
  AckFreq = {1, 2, 3}
  RETRIES = 3
  NULL = NULL
  MaxFaults = 2
INVARIANTS TypeOK InOrder DoneIsWhole SentIsReceived NotInVain
PROPERTY TransferEnds
CHECK_DEADLOCK FALSE
