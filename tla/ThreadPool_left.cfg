CONSTANTS
  Workers = {w1, w2}
  Tasks = {t1}
  None = None
SPECIFICATION FairSpec
PROPERTY StopAwaitsTasks
