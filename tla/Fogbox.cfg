SPECIFICATION FairSpec
CONSTANTS
  Router = {"r1", "r2"}
  Picture = {"a"}
  Uploads <- OneUpload
  Missing = Missing
  NoBundle = NoBundle
  MaxVersion = 1
  MaxTime = 2
  MaxKill = 2
  MaxLost = 1
INVARIANTS
  NoEcho
  MetaSent
PROPERTY Synchronized
