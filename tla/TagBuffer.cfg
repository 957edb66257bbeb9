SPECIFICATION FairBufferSpec
CONSTANTS
  MAX_BUFFER = 4
  Record = {r1, r2}
  NoRecord = NoRecord
  NoDatagram = NoDatagram
INVARIANTS
  BufferTypeOK
  NoStaleSend
PROPERTIES
  ImplementsQueue
  NonSinkKeepsSending
