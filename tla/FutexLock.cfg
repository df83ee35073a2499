CONSTANTS
  t1 = t1
  t2 = t2
  t3 = t3
  NoThread = NoThread
  Threads <- MCThreads
  MaxRounds = 2
SPECIFICATION FairSpec
INVARIANTS MutualExclusion SleepersRemembered
PROPERTIES ImplementsMutex EveryLockReturns
CHECK_DEADLOCK FALSE
