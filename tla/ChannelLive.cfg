SPECIFICATION FairSpec
CONSTANTS
  t1 = t1
  t2 = t2
  t3 = t3
  NULL = NULL
  Tasks = {t1, t2, t3}
  Chans <- MCChans
  Capacity <- MCCapacity
  IsRef = {1}
  Programs <- LivePrograms
  MaxOps = 1
PROPERTIES
  LocksFreed
  CloseEndsWaits
CHECK_DEADLOCK FALSE
