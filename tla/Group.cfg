CONSTANTS
  t1 = t1
  t2 = t2
  t3 = t3
  Parent = Parent
  NULL = NULL
  Tasks <- MCTasks
SPECIFICATION FairSpec
INVARIANTS SyncWaitsForAll ReadiesWaitingParent
PROPERTY CallsReturn
CHECK_DEADLOCK FALSE
