SPECIFICATION Spec
CONSTANTS
  Wide = 2
  NULL = NULL
  Archive <- NoFile
  Name = {1, 2, 3}
  Content <- Contents
  Comment <- NoComment
  MaxEntries = 3
  MaxOps = 3
  MaxFaults = 0
INVARIANT WrapIsRead
CHECK_DEADLOCK FALSE
