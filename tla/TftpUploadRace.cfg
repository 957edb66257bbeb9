SPECIFICATION Spec
CONSTANTS
  Upload = {1, 2}
  Phone <- OnePhone
  Name <- TwoNames
  LastBlock <- OneBlock
  Child = {c1, c2}
  DEBUG = FALSE
  RETRIES = 3
  Nobody = Nobody
  MaxDup = 0
  MaxKill = 0
INVARIANT PublishedUnderItsName
