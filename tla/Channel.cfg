SPECIFICATION Spec
CONSTANTS
  t1 = t1
  t2 = t2
  t3 = t3
  NULL = NULL
  Tasks = {t1, t2, t3}
  Chans <- MCChans
  Capacity <- MCCapacity
  IsRef = {1}
  Programs <- SafetyPrograms
  MaxOps = 2
INVARIANTS
  Conserved
  OneTransfer
  NoMissedMatch
  FetchesWaiting
  NoDangling
CHECK_DEADLOCK FALSE
