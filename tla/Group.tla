------------------------------- MODULE Group -------------------------------
(***************************************************************************)
(* A subtask group (src/group.c): one parent coroutine adds subtasks and   *)
(* then calls coroc_group_sync; every subtask calls coroc_group_notify     *)
(* once, when it has finished.  Each action is one atomic access to the    *)
(* group or one critical section of group->lock.  The lock is a Mutex      *)
(* (see FutexLock); vpu_suspend releases it on the scheduler's stack, when *)
(* the parent already is in the WAIT state.                                *)
(***************************************************************************)
EXTENDS Naturals, FiniteSets

CONSTANTS
  Tasks,    \* the coroutines that may become subtasks
  Parent,   \* the coroutine that owns the group
  NULL

ASSUME GroupAssumption ==
  /\ IsFiniteSet(Tasks)
  /\ Parent \notin Tasks
  /\ NULL \notin Tasks \cup {Parent}

VARIABLES
  count,    \* group->count
  errors,   \* group->errors
  lock,     \* the coroutine that holds group->lock, or NULL
  parent,   \* group->parent
  ppc,      \* where the parent is
  pc,       \* where each subtask is
  seen,     \* the value of group->parent a subtask has read
  failed,   \* the subtasks that finished with retval # 0
  ret       \* what coroc_group_sync returned

vars == <<count, errors, lock, parent, ppc, pc, seen, failed, ret>>

(***************************************************************************)
(* Subtasks: unborn, run (its own code), dec (in coroc_group_notify, before *)
(* the decrement), lock, read (holding the lock), wake (before vpu_ready),  *)
(* done.  The parent: spawn (adding subtasks), lock, check (holding the     *)
(* lock), suspend (in vpu_suspend), wait, return, done.                     *)
(***************************************************************************)
TaskLocations == {"unborn", "run", "dec", "lock", "read", "wake", "done"}
ParentLocations == {"spawn", "lock", "check", "suspend", "wait", "return", "done"}

TaskGoto(t, l) == pc' = [pc EXCEPT ![t] = l]

\* coroc_group_init: the group starts with a count of one, for the parent.
Init ==
  /\ count = 1 /\ errors = 0
  /\ lock = NULL /\ parent = NULL
  /\ ppc = "spawn" /\ ret = 0
  /\ pc = [t \in Tasks |-> "unborn"]
  /\ seen = [t \in Tasks |-> NULL]
  /\ failed = {}

\* coroc_group_add_task, and the spawn of the new subtask.
AddTask(t) ==
  /\ ppc = "spawn" /\ pc[t] = "unborn"
  /\ count' = count + 1
  /\ TaskGoto(t, "run")
  /\ UNCHANGED <<errors, lock, parent, ppc, seen, failed, ret>>
-----------------------------------------------------------------------------
\* The subtask is finished and calls coroc_group_notify with its retval; the
\* error is counted before the subtask is.
NotifyError(t) ==
  /\ pc[t] = "run"
  /\ TaskGoto(t, "dec")
  /\ \/ UNCHANGED <<errors, failed>>
     \/ errors' = errors + 1 /\ failed' = failed \cup {t}
  /\ UNCHANGED <<count, lock, parent, ppc, seen, ret>>

\* Seeded fault: every subtask, not only the last one, wakes the parent.
NotifyDecAlways(t) ==
  /\ pc[t] = "dec"
  /\ count' = count - 1
  /\ TaskGoto(t, "lock")
  /\ UNCHANGED <<errors, lock, parent, ppc, seen, failed, ret>>

\* The last one to decrement the counter looks for a parent to wake.
NotifyDec(t) ==
  /\ pc[t] = "dec"
  /\ count' = count - 1
  /\ TaskGoto(t, IF count' = 0 THEN "lock" ELSE "done")
  /\ UNCHANGED <<errors, lock, parent, ppc, seen, failed, ret>>

NotifyLock(t) ==
  /\ pc[t] = "lock" /\ lock = NULL
  /\ lock' = t
  /\ TaskGoto(t, "read")
  /\ UNCHANGED <<count, errors, parent, ppc, seen, failed, ret>>

NotifyUnlock(t) ==
  /\ pc[t] = "read"
  /\ seen' = [seen EXCEPT ![t] = parent]
  /\ lock' = NULL
  /\ TaskGoto(t, IF parent = NULL THEN "done" ELSE "wake")
  /\ UNCHANGED <<count, errors, parent, ppc, failed, ret>>

\* vpu_ready(parent, true): the waiting parent becomes runnable.
NotifyReady(t) ==
  /\ pc[t] = "wake"
  /\ ppc' = IF seen[t] = Parent /\ ppc = "wait" THEN "return" ELSE ppc
  /\ TaskGoto(t, "done")
  /\ UNCHANGED <<count, errors, lock, parent, seen, failed, ret>>
-----------------------------------------------------------------------------
\* coroc_group_sync: give up the parent's own count.
SyncDec ==
  /\ ppc = "spawn"
  /\ count' = count - 1
  /\ ppc' = IF count' > 0 THEN "lock" ELSE "return"
  /\ UNCHANGED <<errors, lock, parent, pc, seen, failed, ret>>

SyncLock ==
  /\ ppc = "lock" /\ lock = NULL
  /\ lock' = Parent
  /\ ppc' = "check"
  /\ UNCHANGED <<count, errors, parent, pc, seen, failed, ret>>

\* Seeded fault: the counter is not read again under the lock.
SyncCheckOmitted ==
  /\ ppc = "check"
  /\ parent' = Parent /\ ppc' = "suspend"
  /\ UNCHANGED <<count, errors, lock, pc, seen, failed, ret>>

\* The second look at the counter, under the lock.  When it has become zero
\* the function returns, and does not release the lock.
SyncCheck ==
  /\ ppc = "check"
  /\ \/ count > 0 /\ parent' = Parent /\ ppc' = "suspend"
     \/ count = 0 /\ ppc' = "return" /\ UNCHANGED parent
  /\ UNCHANGED <<count, errors, lock, pc, seen, failed, ret>>

\* Seeded fault: the lock is released before the parent is in the WAIT state.
CoreWaitEarlyUnlock ==
  /\ ppc = "suspend"
  /\ \/ lock = Parent /\ lock' = NULL /\ UNCHANGED ppc
     \/ lock # Parent /\ ppc' = "wait" /\ UNCHANGED lock
  /\ UNCHANGED <<count, errors, parent, pc, seen, failed, ret>>

\* Seeded fault: core_wait does not release the lock that it was given.
CoreWaitKeeps ==
  /\ ppc = "suspend"
  /\ ppc' = "wait"
  /\ UNCHANGED <<count, errors, lock, parent, pc, seen, failed, ret>>

\* vpu_suspend: core_wait puts the parent into the WAIT state, then releases
\* the lock.
CoreWait ==
  /\ ppc = "suspend"
  /\ ppc' = "wait"
  /\ lock' = NULL
  /\ UNCHANGED <<count, errors, parent, pc, seen, failed, ret>>

SyncReturn ==
  /\ ppc = "return"
  /\ ret' = errors
  /\ ppc' = "done"
  /\ UNCHANGED <<count, errors, lock, parent, pc, seen, failed>>
-----------------------------------------------------------------------------
TaskStep(t) ==
  \/ NotifyError(t)
  \/ NotifyDec(t)
  \/ NotifyLock(t)
  \/ NotifyUnlock(t)
  \/ NotifyReady(t)

ParentStep == SyncDec \/ SyncLock \/ SyncCheck \/ CoreWait \/ SyncReturn

Next == ParentStep \/ \E t \in Tasks : AddTask(t) \/ TaskStep(t)

Spec == Init /\ [][Next]_vars

\* Every coroutine that can run is run, and a spin lock that is free is taken.
FairSpec == Spec /\ WF_vars(ParentStep) /\ \A t \in Tasks : WF_vars(TaskStep(t))
-----------------------------------------------------------------------------
TypeOK ==
  /\ count \in Nat /\ errors \in Nat /\ ret \in Nat
  /\ lock \in Tasks \cup {Parent, NULL}
  /\ parent \in {Parent, NULL}
  /\ ppc \in ParentLocations
  /\ pc \in [Tasks -> TaskLocations]
  /\ seen \in [Tasks -> {Parent, NULL}]
  /\ failed \in SUBSET Tasks

\* The subtasks that were added and have not yet given up their count.
Counted == {t \in Tasks : pc[t] \in {"run", "dec"}}

\* When coroc_group_sync returns, every subtask that was added has finished,
\* and the result is the number of subtasks that failed.
SyncWaitsForAll ==
  ppc = "done" => Counted = {} /\ ret = Cardinality(failed)

\* The assertion of vpu_ready: the last subtask finds the parent in the WAIT
\* state, never still on its way there and never already woken.
ReadiesWaitingParent ==
  \A t \in Tasks : pc[t] = "wake" => ppc = "wait" /\ seen[t] = Parent

\* The subtask that gave up the last count, on its way to wake the parent.
Last(t) == pc[t] \in {"lock", "read", "wake"}

\* group->count counts the parent, while it adds subtasks, and the subtasks
\* that have not finished; group->errors counts the failed ones.
CountsExact ==
  /\ count = Cardinality(Counted) + (IF ppc = "spawn" THEN 1 ELSE 0)
  /\ errors = Cardinality(failed)
  /\ \A t \in failed : pc[t] \notin {"unborn", "run"}
  /\ ppc \in {"return", "done"} => count = 0
  /\ ppc = "done" => ret = errors

\* One subtask at most is the last one, and group->parent and the lock tell
\* it whether the parent waits.
OneLast ==
  /\ \A t \in Tasks : Last(t) => count = 0
  /\ \A t, u \in Tasks : Last(t) /\ Last(u) => t = u
  /\ \A t \in Tasks : pc[t] = "read" => lock = t
  /\ ppc \in {"check", "suspend"} => lock = Parent
  /\ ppc \in {"spawn", "lock", "check"} => parent = NULL
  /\ parent = Parent /\ ppc \in {"return", "done"} => \A t \in Tasks : ~Last(t)

\* The inductive invariant.
IInv == TypeOK /\ CountsExact /\ OneLast /\ ReadiesWaitingParent

\* coroc_group_sync has found the count zero under the lock, and has returned
\* without releasing it (group.c 102-110).
LockLeftBehind == lock = Parent /\ ppc \in {"return", "done"}

\* coroc_group_sync returns once all subtasks have finished, and so does every
\* coroc_group_notify (coroc_group.h:38), so that the subtask can exit.  The one
\* exception is the last subtask when coroc_group_sync has left with the lock:
\* it spins for ever.
CallsReturn ==
  /\ (ppc # "spawn") ~> (ppc = "done")
  /\ \A t \in Tasks : (pc[t] = "dec") ~> (pc[t] = "done" \/ LockLeftBehind)
=============================================================================
