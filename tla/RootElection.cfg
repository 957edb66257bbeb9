SPECIFICATION FairSpec
CONSTANTS
  Mote = {1, 2, 3}
  Neighbour <- Line
  NO_ROOT = 999
  MAX_AGE = 1
  SEQ_MOD = 1
  MaxInFlight = 12
INVARIANTS
  TreeOnlyAtRoot
PROPERTIES
  NeverWorseRoot
  WorseRootYields
  BestRootFollowed
