----------------------------- MODULE FutexLock -----------------------------
(***************************************************************************)
(* The futex based lock of src/futex_lock.c (built with ENABLE_FUTEX), one *)
(* lock used by a set of threads.  Each action is one atomic access to     *)
(* lock->key, or one futex system call; between two of them any other      *)
(* thread may run.                                                         *)
(*                                                                         *)
(* The kernel side of the futex is external: FUTEX_WAIT compares the key   *)
(* and goes to sleep atomically, FUTEX_WAKE wakes one sleeper if there is  *)
(* one, and a sleeping thread may also return early (a signal such as the  *)
(* clock's SIGUSR1), which the retry loop of _coroc_futex_lock absorbs.    *)
(***************************************************************************)
EXTENDS Naturals, FiniteSets

CONSTANTS
  Threads,    \* the OS threads that use the lock
  NoThread,   \* not a thread
  MaxRounds   \* bound: how many times a thread takes the lock

ASSUME FutexAssumption == NoThread \notin Threads /\ MaxRounds \in Nat

MUTEX_UNLOCKED == 0
MUTEX_LOCKED == 1
MUTEX_SLEEPING == 2

VARIABLES
  key,     \* lock->key
  pc,      \* where each thread is in the lock's code
  wait,    \* the local variable `wait' of _coroc_futex_lock
  rounds   \* how often each thread may still take the lock

vars == <<key, pc, wait, rounds>>

(***************************************************************************)
(* idle: outside the lock's code and not holding it                        *)
(* spin: in the two spinning loops; sleep: before FUTEX_WAIT               *)
(* futex: asleep in the kernel                                             *)
(* held: _coroc_futex_lock or _coroc_futex_trylock succeeded               *)
(* wake: unlocked a SLEEPING key, FUTEX_WAKE still to be called            *)
(***************************************************************************)
Locations == {"idle", "spin", "sleep", "futex", "held", "wake"}

Sleepers == {t \in Threads : pc[t] = "futex"}

Goto(t, l) == pc' = [pc EXCEPT ![t] = l]

Init ==
  /\ key = MUTEX_UNLOCKED
  /\ pc = [t \in Threads |-> "idle"]
  /\ wait = [t \in Threads |-> MUTEX_UNLOCKED]
  /\ rounds = [t \in Threads |-> MaxRounds]

\* Seeded fault: the spinner forgets that it may have overwritten SLEEPING.
LockForgetsSleepers(t) ==
  /\ pc[t] = "idle"
  /\ rounds[t] > 0
  /\ rounds' = [rounds EXCEPT ![t] = @ - 1]
  /\ key' = MUTEX_LOCKED
  /\ Goto(t, IF key = MUTEX_UNLOCKED THEN "held" ELSE "spin")
  /\ wait' = [wait EXCEPT ![t] = MUTEX_LOCKED]

\* The first exchange of _coroc_futex_lock: on failure the old value, which
\* may be SLEEPING, is what this thread owes the key when it gets the lock.
Lock(t) ==
  /\ pc[t] = "idle"
  /\ rounds[t] > 0
  /\ rounds' = [rounds EXCEPT ![t] = @ - 1]
  /\ key' = MUTEX_LOCKED
  /\ \/ /\ key = MUTEX_UNLOCKED
        /\ Goto(t, "held")
        /\ UNCHANGED wait
     \/ /\ key # MUTEX_UNLOCKED
        /\ Goto(t, "spin")
        /\ wait' = [wait EXCEPT ![t] = key]

\* Seeded fault: a plain store in place of the CAS.
SpinStores(t) ==
  /\ pc[t] = "spin"
  /\ key' = wait[t]
  /\ Goto(t, "held")
  /\ UNCHANGED <<wait, rounds>>

\* A spinning thread sees the key UNLOCKED and its CAS succeeds.  (A CAS that
\* fails, and a read of another value, leave the thread in its loop.)
Spin(t) ==
  /\ pc[t] = "spin"
  /\ key = MUTEX_UNLOCKED
  /\ key' = wait[t]
  /\ Goto(t, "held")
  /\ UNCHANGED <<wait, rounds>>

\* Seeded fault: the old value of the exchange is not looked at.
SpinEndUnchecked(t) ==
  /\ pc[t] = "spin"
  /\ key' = MUTEX_SLEEPING
  /\ Goto(t, "held")
  /\ UNCHANGED <<wait, rounds>>

\* The spinning is over: exchange SLEEPING into the key, and own the lock if
\* it was free after all.
SpinEnd(t) ==
  /\ pc[t] = "spin"
  /\ key' = MUTEX_SLEEPING
  /\ \/ /\ key = MUTEX_UNLOCKED
        /\ Goto(t, "held")
        /\ UNCHANGED wait
     \/ /\ key # MUTEX_UNLOCKED
        /\ Goto(t, "sleep")
        /\ wait' = [wait EXCEPT ![t] = MUTEX_SLEEPING]
  /\ UNCHANGED rounds

\* FUTEX_WAIT: sleep only if the key still is SLEEPING.
FutexSleep(t) ==
  /\ pc[t] = "sleep"
  /\ Goto(t, IF key = MUTEX_SLEEPING THEN "futex" ELSE "spin")
  /\ UNCHANGED <<key, wait, rounds>>

\* The system call returns before a wakeup; nothing but the loop notices.
Interrupted(t) ==
  /\ pc[t] = "futex"
  /\ Goto(t, "spin")
  /\ UNCHANGED <<key, wait, rounds>>

\* The CAS of _coroc_futex_trylock; a failed one changes nothing.
TryLock(t) ==
  /\ pc[t] = "idle"
  /\ rounds[t] > 0
  /\ rounds' = [rounds EXCEPT ![t] = @ - 1]
  /\ \/ /\ key = MUTEX_UNLOCKED
        /\ key' = MUTEX_LOCKED
        /\ Goto(t, "held")
     \/ key # MUTEX_UNLOCKED /\ UNCHANGED <<key, pc>>
  /\ UNCHANGED wait

\* Seeded fault: the unlocker never calls FUTEX_WAKE.
UnlockSilent(t) ==
  /\ pc[t] = "held"
  /\ key' = MUTEX_UNLOCKED
  /\ Goto(t, "idle")
  /\ UNCHANGED <<wait, rounds>>

\* The exchange of _coroc_futex_unlock.
Unlock(t) ==
  /\ pc[t] = "held"
  /\ key' = MUTEX_UNLOCKED
  /\ Goto(t, IF key = MUTEX_SLEEPING THEN "wake" ELSE "idle")
  /\ UNCHANGED <<wait, rounds>>

\* FUTEX_WAKE of one sleeper, if any.
FutexWakeup(t) ==
  /\ pc[t] = "wake"
  /\ \/ \E s \in Sleepers :
          pc' = [pc EXCEPT ![t] = "idle", ![s] = "spin"]
     \/ Sleepers = {} /\ Goto(t, "idle")
  /\ UNCHANGED <<key, wait, rounds>>

Step(t) ==
  \/ Lock(t)
  \/ Spin(t)
  \/ SpinEnd(t)
  \/ FutexSleep(t)
  \/ TryLock(t)
  \/ Unlock(t)
  \/ FutexWakeup(t)

Next == \E t \in Threads : Step(t) \/ Interrupted(t)

Spec == Init /\ [][Next]_vars

\* The operating system schedules every thread that can take a step; nobody
\* may rely on a sleep being interrupted.
FairSpec == Spec /\ \A t \in Threads : WF_vars(Step(t))
-----------------------------------------------------------------------------
TypeOK ==
  /\ key \in {MUTEX_UNLOCKED, MUTEX_LOCKED, MUTEX_SLEEPING}
  /\ pc \in [Threads -> Locations]
  /\ wait \in [Threads -> {MUTEX_UNLOCKED, MUTEX_LOCKED, MUTEX_SLEEPING}]
  /\ rounds \in [Threads -> 0..MaxRounds]

\* Mutual exclusion, with the key agreeing: the key is UNLOCKED exactly when
\* nobody holds the lock, so the assertion of _coroc_futex_unlock
\* (v != MUTEX_UNLOCKED) never fails.
MutualExclusion ==
  /\ \A s, t \in Threads : pc[s] = "held" /\ pc[t] = "held" => s = t
  /\ key = MUTEX_UNLOCKED <=> \A t \in Threads : pc[t] # "held"

\* No lost wakeup: while a thread sleeps in the kernel, somebody remembers
\* it.  Either the key says SLEEPING, or a thread on its way to the lock
\* carries SLEEPING in its `wait' (its exchange may have overwritten the key
\* with LOCKED), or an unlocker is about to call FUTEX_WAKE.
SleepersRemembered ==
  Sleepers # {} =>
    \/ key = MUTEX_SLEEPING
    \/ \E t \in Threads :
         \/ pc[t] \in {"spin", "sleep"} /\ wait[t] = MUTEX_SLEEPING
         \/ pc[t] = "wake"

\* What makes the invariants above inductive: a thread that failed once
\* carries a value other than UNLOCKED, and SLEEPING once it has announced
\* that it goes to sleep.
WaitCarried ==
  \A t \in Threads :
    /\ pc[t] = "spin" => wait[t] # MUTEX_UNLOCKED
    /\ pc[t] \in {"sleep", "futex"} => wait[t] = MUTEX_SLEEPING

IInv == TypeOK /\ MutualExclusion /\ WaitCarried /\ SleepersRemembered

\* The thread that holds the lock, as Mutex wants it.
holder == IF \E t \in Threads : pc[t] = "held"
          THEN CHOOSE t \in Threads : pc[t] = "held"
          ELSE NoThread

M == INSTANCE Mutex WITH owner <- holder

\* The futex lock is a lock: every step is an acquisition, a release, or
\* invisible to the users of the lock.
ImplementsMutex == M!Spec

\* Every call of _coroc_futex_lock returns: since each thread takes the lock
\* a bounded number of times, all of them are done in the end.  A lost wakeup
\* would leave a thread asleep for ever.
EveryLockReturns == <>[](\A t \in Threads : pc[t] = "idle" /\ rounds[t] = 0)
=============================================================================
