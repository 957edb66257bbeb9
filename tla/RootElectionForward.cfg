SPECIFICATION Spec
CONSTANTS
  Mote = {1, 2}
  Neighbour <- Clique
  NO_ROOT = 999
  MAX_AGE = 2
  SEQ_MOD = 2
  MaxInFlight = 8
PROPERTY KnownRootForwarded
