SPECIFICATION Spec
CONSTANTS
  Upload = {1, 2}
  Phone <- TwoPhones
  Name <- TwoNames
  LastBlock <- OneBlock
  Child = {c1, c2}
  DEBUG = FALSE
  RETRIES = 2
  Nobody = Nobody
  MaxDup = 0
  MaxKill = 1
INVARIANTS
  TypeOK
  WholeFile
