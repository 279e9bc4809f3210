CONSTANTS
  Conns = {c1, c2}
  Fds = {4}
  ThreadNum = 1
  Workers = {}
  MaxMsgs = 1
  None = None
SPECIFICATION FairSpec
INVARIANTS MapsAgree EndsForAReason
PROPERTIES RemovesOnlyItsOwn Released
