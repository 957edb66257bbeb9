SPECIFICATION BufferSpec
CONSTANTS
  MAX_BUFFER = 3
  Record = {r1}
  NoRecord = NoRecord
  NoDatagram = NoDatagram
INVARIANT BeaconStartsSending
