SPECIFICATION FairSpec
CONSTANTS
  Router = {"r1", "r2"}
  Picture = {"a"}
  Uploads <- SameNames
  Missing = Missing
  NoBundle = NoBundle
  MaxVersion = 1
  MaxTime = 1
  MaxKill = 0
  MaxLost = 0
PROPERTY NewPictureSent
