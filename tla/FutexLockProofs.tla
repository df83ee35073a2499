-------------------------- MODULE FutexLockProofs --------------------------
(***************************************************************************)
(* Proofs about FutexLock, for any set of threads and any MaxRounds.       *)
(***************************************************************************)
EXTENDS FutexLock, TLAPS

LEMMA InitIInv == Init => IInv
BY FutexAssumption DEF Init, IInv, TypeOK, MutualExclusion, WaitCarried, SleepersRemembered,
   Sleepers, Locations, MUTEX_UNLOCKED, MUTEX_LOCKED, MUTEX_SLEEPING

\* Each access to the key, and each futex call, preserves the invariant.
LEMMA NextIInv == IInv /\ [Next]_vars => IInv'
<1> USE FutexAssumption DEF MUTEX_UNLOCKED, MUTEX_LOCKED, MUTEX_SLEEPING, Locations, Goto
<1> SUFFICES ASSUME IInv, [Next]_vars
             PROVE  IInv'
  OBVIOUS
<1>1. ASSUME NEW t \in Threads, Lock(t)
      PROVE  IInv'
  <2>1. TypeOK'
    BY <1>1 DEF IInv, TypeOK, Lock
  <2>2. MutualExclusion'
    BY <1>1 DEF IInv, TypeOK, MutualExclusion, Lock
  <2>3. WaitCarried'
    BY <1>1 DEF IInv, TypeOK, WaitCarried, Lock
  <2>4. SleepersRemembered'
    BY <1>1 DEF IInv, TypeOK, SleepersRemembered, Sleepers, Lock
  <2> QED BY <2>1, <2>2, <2>3, <2>4 DEF IInv
<1>2. ASSUME NEW t \in Threads, Spin(t)
      PROVE  IInv'
  <2>1. TypeOK'
    BY <1>2 DEF IInv, TypeOK, Spin
  <2>2. MutualExclusion'
    BY <1>2 DEF IInv, TypeOK, MutualExclusion, WaitCarried, Spin
  <2>3. WaitCarried'
    BY <1>2 DEF IInv, TypeOK, WaitCarried, Spin
  <2>4. SleepersRemembered'
    BY <1>2 DEF IInv, TypeOK, SleepersRemembered, Sleepers, Spin
  <2> QED BY <2>1, <2>2, <2>3, <2>4 DEF IInv
<1>3. ASSUME NEW t \in Threads, SpinEnd(t)
      PROVE  IInv'
  BY <1>3 DEF IInv, TypeOK, MutualExclusion, WaitCarried, SleepersRemembered,
              Sleepers, SpinEnd
<1>4. ASSUME NEW t \in Threads, FutexSleep(t)
      PROVE  IInv'
  <2>1. TypeOK' /\ MutualExclusion' /\ WaitCarried'
    BY <1>4 DEF IInv, TypeOK, MutualExclusion, WaitCarried, FutexSleep
  <2>2. SleepersRemembered'
    BY <1>4 DEF IInv, TypeOK, WaitCarried, SleepersRemembered, Sleepers, FutexSleep
  <2> QED BY <2>1, <2>2 DEF IInv
<1>5. ASSUME NEW t \in Threads, Interrupted(t)
      PROVE  IInv'
  <2>1. TypeOK' /\ MutualExclusion' /\ WaitCarried'
    BY <1>5 DEF IInv, TypeOK, MutualExclusion, WaitCarried, Interrupted
  <2>2. SleepersRemembered'
    BY <1>5 DEF IInv, TypeOK, WaitCarried, SleepersRemembered, Interrupted
  <2> QED BY <2>1, <2>2 DEF IInv
<1>6. ASSUME NEW t \in Threads, TryLock(t)
      PROVE  IInv'
  <2>1. TypeOK' /\ WaitCarried'
    BY <1>6 DEF IInv, TypeOK, WaitCarried, TryLock
  <2>2. MutualExclusion'
    BY <1>6 DEF IInv, TypeOK, MutualExclusion, TryLock
  <2>3. SleepersRemembered'
    BY <1>6 DEF IInv, TypeOK, SleepersRemembered, Sleepers, TryLock
  <2> QED BY <2>1, <2>2, <2>3 DEF IInv
<1>7. ASSUME NEW t \in Threads, Unlock(t)
      PROVE  IInv'
  <2>1. TypeOK' /\ WaitCarried'
    BY <1>7 DEF IInv, TypeOK, WaitCarried, Unlock
  <2>2. MutualExclusion'
    BY <1>7 DEF IInv, TypeOK, MutualExclusion, Unlock
  <2>3. SleepersRemembered'
    BY <1>7 DEF IInv, TypeOK, SleepersRemembered, Sleepers, Unlock
  <2> QED BY <2>1, <2>2, <2>3 DEF IInv
<1>8. ASSUME NEW t \in Threads, FutexWakeup(t)
      PROVE  IInv'
  <2>1. CASE Sleepers = {} /\ Goto(t, "idle")
    BY <1>8, <2>1 DEF IInv, TypeOK, MutualExclusion, WaitCarried,
                      SleepersRemembered, Sleepers, FutexWakeup
  <2>2. ASSUME NEW s \in Sleepers, pc' = [pc EXCEPT ![t] = "idle", ![s] = "spin"]
        PROVE  IInv'
    BY <1>8, <2>2 DEF IInv, TypeOK, MutualExclusion, WaitCarried,
                      SleepersRemembered, Sleepers, FutexWakeup
  <2> QED BY <1>8, <2>1, <2>2 DEF FutexWakeup
<1>9. CASE UNCHANGED vars
  BY <1>9 DEF IInv, TypeOK, MutualExclusion, WaitCarried, SleepersRemembered,
              Sleepers, vars
<1> QED
  BY <1>1, <1>2, <1>3, <1>4, <1>5, <1>6, <1>7, <1>8, <1>9 DEF Next, Step

LEMMA Invariance == Spec => []IInv
BY InitIInv, NextIInv, PTL DEF Spec

\* The key takes no value but the three of futex_lock.c, whatever the
\* compare-and-swaps and exchanges of the threads.
THEOREM FutexTypes == Spec => []TypeOK
<1>1. IInv => TypeOK
  BY DEF IInv
<1> QED BY <1>1, Invariance, PTL

\* _coroc_futex_lock gives mutual exclusion, and the key tells whether the
\* lock is held, for every number of threads.
THEOREM FutexMutualExclusion == Spec => []MutualExclusion
<1>1. IInv => MutualExclusion
  BY DEF IInv
<1> QED BY <1>1, Invariance, PTL

\* A thread asleep in FUTEX_WAIT is never forgotten, for every number of
\* threads.
THEOREM FutexNoLostWakeup == Spec => []SleepersRemembered
<1>1. IInv => SleepersRemembered
  BY DEF IInv
<1> QED BY <1>1, Invariance, PTL

\* With mutual exclusion, the thread that is "held" is the holder.
LEMMA HolderIs ==
  ASSUME IInv, NEW t \in Threads
  PROVE  holder = t <=> pc[t] = "held"
BY FutexAssumption DEF IInv, MutualExclusion, holder

LEMMA NoHolder == holder = NoThread <=> \A t \in Threads : pc[t] # "held"
BY FutexAssumption DEF holder

\* Every step of the futex lock acquires the lock for one thread, releases
\* it, or leaves its owner alone: the futex lock implements the Mutex that the
\* rest of the library relies on.
THEOREM FutexImplementsMutex == Spec => ImplementsMutex
<1> USE DEF MUTEX_UNLOCKED, MUTEX_LOCKED, MUTEX_SLEEPING, Locations, Goto
<1>1. Init => M!Init
  BY NoHolder DEF Init, M!Init
<1>2. IInv /\ IInv' /\ [Next]_vars => [M!Next]_holder
  <2> SUFFICES ASSUME IInv, IInv', [Next]_vars
               PROVE  [M!Next]_holder
    OBVIOUS
  <2>h. ASSUME NEW t \in Threads PROVE holder' = t <=> pc'[t] = "held"
    BY FutexAssumption DEF IInv, MutualExclusion, holder
  <2>n. holder' = NoThread <=> \A t \in Threads : pc'[t] # "held"
    BY FutexAssumption DEF holder
  <2>1. ASSUME NEW t \in Threads, pc[t] # "held", key = MUTEX_UNLOCKED, pc' = [pc EXCEPT ![t] = "held"]
        PROVE  M!Next
    <3>1. holder = NoThread /\ holder' = t
      BY <2>1, <2>h, NoHolder DEF IInv, TypeOK, MutualExclusion
    <3> QED BY <3>1 DEF M!Next, M!Acquire
  <2>2. ASSUME NEW t \in Threads, Unlock(t)
        PROVE  M!Next
    <3>1. holder = t
      BY <2>2, HolderIs DEF Unlock
    <3>2. holder' = NoThread
      BY <2>2, <2>n DEF IInv, MutualExclusion, Unlock
    <3> QED BY <3>1, <3>2 DEF M!Next, M!Release
  <2>3. ASSUME \A s \in Threads : pc'[s] = "held" <=> pc[s] = "held"
        PROVE  UNCHANGED holder
    BY <2>3, <2>h, <2>n, HolderIs, NoHolder
  <2>4. ASSUME NEW t \in Threads, Lock(t) PROVE [M!Next]_holder
    <3>1. CASE key = MUTEX_UNLOCKED
      BY <2>4, <3>1, <2>1 DEF Lock
    <3>2. CASE key # MUTEX_UNLOCKED
      BY <2>4, <3>2, <2>3 DEF Lock, IInv, TypeOK
    <3> QED BY <3>1, <3>2
  <2>5. ASSUME NEW t \in Threads, Spin(t) PROVE [M!Next]_holder
    BY <2>5, <2>1 DEF Spin
  <2>6. ASSUME NEW t \in Threads, SpinEnd(t) PROVE [M!Next]_holder
    <3>1. CASE key = MUTEX_UNLOCKED
      BY <2>6, <3>1, <2>1 DEF SpinEnd
    <3>2. CASE key # MUTEX_UNLOCKED
      BY <2>6, <3>2, <2>3 DEF SpinEnd, IInv, TypeOK
    <3> QED BY <3>1, <3>2
  <2>7. ASSUME NEW t \in Threads, TryLock(t) PROVE [M!Next]_holder
    <3>1. CASE key = MUTEX_UNLOCKED
      BY <2>7, <3>1, <2>1 DEF TryLock
    <3>2. CASE key # MUTEX_UNLOCKED
      BY <2>7, <3>2, <2>3 DEF TryLock
    <3> QED BY <3>1, <3>2
  <2>8. ASSUME NEW t \in Threads, FutexSleep(t) \/ Interrupted(t) \/ FutexWakeup(t)
        PROVE  [M!Next]_holder
    BY <2>8, <2>3 DEF FutexSleep, Interrupted, FutexWakeup, Sleepers, IInv, TypeOK
  <2>9. CASE UNCHANGED vars
    BY <2>9, <2>3 DEF vars
  <2> QED
    BY <2>2, <2>4, <2>5, <2>6, <2>7, <2>8, <2>9 DEF Next, Step
<1> QED BY <1>1, <1>2, Invariance, PTL DEF Spec, ImplementsMutex, M!Spec
=============================================================================
