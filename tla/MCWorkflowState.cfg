SPECIFICATION FairSpec
CONSTANTS
  Tasks = {t1, t2}
  Ids = {e1, e2}
  NoTask = NoTask
PROPERTY ChangesArePersisted
CHECK_DEADLOCK FALSE
