SPECIFICATION FairSpec
CONSTANTS
  Upload = {1}
  Phone <- OnePhone
  Name <- OneName
  LastBlock <- ThreeBlocks
  Child = {c1}
  DEBUG = FALSE
  RETRIES = 3
  Nobody = Nobody
  MaxDup = 1
  MaxKill = 0
INVARIANT SentIsReceived
PROPERTIES
  TransferEnds
  SentIsPublished
