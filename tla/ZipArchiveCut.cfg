SPECIFICATION Spec
CONSTANTS
  Wide = 6
  NULL = NULL
  Archive <- Files
  Name = {1, 3}
  Content <- Contents
  Comment <- Comments
  MaxEntries = 3
  MaxOps = 3
  MaxFaults = 2
INVARIANT CutRefused
CHECK_DEADLOCK FALSE
