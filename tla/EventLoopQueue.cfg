CONSTANTS
  Tasks = {t1, t2, t3}
  None = None
SPECIFICATION FairSpec
INVARIANTS TypeOK NoTaskSleptOver
PROPERTIES ImplementsService Executed StopsPromptly WakeupsSettle
