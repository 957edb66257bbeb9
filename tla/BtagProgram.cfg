SPECIFICATION FairSpec
CONSTANTS
  Associated = {10}
  Vehicle = {9, 10}
  Mote = {1, 2}
  Programmed = {2}
  Near <- TwoBridges
  Linked <- TwoRoutes
  MaxPrograms = 2
  MaxFull = 1
INVARIANTS
  OnlyOwnPrograms
PROPERTIES
  ProgramsEnd
  LastProgramWins
CHECK_DEADLOCK FALSE
