SPECIFICATION FairSpec
CONSTANTS
  Router = {"r1", "r2"}
  InReach = {"r1"}
  Viewed = {"r1"}
  Mote = {1}
  Tag = {"a"}
  Place = {"p", "q"}
  BootTag = "a"
  BootPlace = "p"
  Unknown = Unknown
  Nothing = Nothing
  MaxPrograms = 1
  MaxFaults = 0
PROPERTY PlaceCurrent
