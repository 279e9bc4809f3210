CONSTANTS
  r1 = r1
  r2 = r2
  r3 = r3
  Records <- MCRecords
  Level <- MCLevel
SPECIFICATION FairSpec
INVARIANTS TypeOK NoRecordSleptOver FiledOnce
PROPERTIES ImplementsService Written JoinReturns
