SPECIFICATION FairSpec
CONSTANTS
  Wide = 6
  NULL = NULL
  OnDisk <- WithEarly
  Handle = {h1, h2}
  BUFSIZE = 2
  ULong = 8
  MaxRead = 2
PROPERTY FreadReturns
CHECK_DEADLOCK FALSE
