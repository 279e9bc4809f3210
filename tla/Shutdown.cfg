CONSTANTS
  Main = main
  IOThreads = {i1}
  Loops = {l1}
  Workers = {w1}
  Requests = {r1}
  MaxSignals = 2
  None = None
SPECIFICATION FairSpec
CHECK_DEADLOCK FALSE
INVARIANTS TypeOK OneSignalIsClean DeletedAlone ExitedAlone LoopsOutliveWorkers NoCircle
PROPERTY StopEnds
