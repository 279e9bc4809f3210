CONSTANTS
  Requests <- MCRequests
  Prefix <- MCPrefix
  ReadSize = 3
  SndCap = 5
  MaxSize = 2
  Stale = {0, 255}
SPECIFICATION FairSpec
INVARIANTS TypeOK Echoed NeverThrows NoEmptySend NeverSleepsOwing
PROPERTIES Answered Sent
