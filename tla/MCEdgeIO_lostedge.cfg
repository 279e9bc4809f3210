CONSTANTS
  Requests <- MCRequests
  Prefix <- MCPrefix
  ReadSize = 3
  SndCap = 5
  MaxSize = 0
  Stale = {0, 255}
SPECIFICATION FairSpec
PROPERTY WriteEventComes
