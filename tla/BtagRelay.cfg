SPECIFICATION FairSpec
CONSTANTS
  Router = {"r1", "r2"}
  InReach = {"r1"}
  Viewed = {"r1"}
  Mote = {1}
  Tag = {"a", "b"}
  Place = {"p"}
  BootTag = "a"
  BootPlace = "p"
  Unknown = Unknown
  Nothing = Nothing
  MaxPrograms = 1
  MaxFaults = 1
INVARIANTS
  HeardIsShared
PROPERTIES
  ViewersCurrent
  TrafficEnds
