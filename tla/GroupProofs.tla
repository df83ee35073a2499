---------------------------- MODULE GroupProofs ----------------------------
(***************************************************************************)
(* Proofs about Group, for any finite set of subtasks.                     *)
(***************************************************************************)
EXTENDS Group, FiniteSetTheorems, TLAPS

\* The sets whose sizes the two counters hold are finite.
LEMMA CountedFinite ==
  ASSUME TypeOK
  PROVE  /\ IsFiniteSet(Counted) /\ Cardinality(Counted) \in Nat
         /\ IsFiniteSet(failed) /\ Cardinality(failed) \in Nat
<1>1. Counted \in SUBSET Tasks /\ failed \in SUBSET Tasks
  BY DEF Counted, TypeOK
<1>2. IsFiniteSet(Counted) /\ IsFiniteSet(failed)
  BY <1>1, FS_Subset, GroupAssumption
<1> QED BY <1>2, FS_CardinalityType

LEMMA InitIInv == Init => IInv
<1> SUFFICES ASSUME Init PROVE IInv
  OBVIOUS
<1> USE GroupAssumption DEF Init
<1>1. TypeOK
  BY DEF TypeOK, TaskLocations, ParentLocations
<1>2. Counted = {}
  BY DEF Counted
<1>3. CountsExact
  BY <1>2, FS_EmptySet DEF CountsExact
<1>4. OneLast /\ ReadiesWaitingParent
  BY DEF OneLast, Last, ReadiesWaitingParent
<1> QED BY <1>1, <1>3, <1>4 DEF IInv

\* Every step that leaves the subtasks' progress alone leaves the counted
\* ones alone.
LEMMA CountedUnchanged ==
  ASSUME TypeOK, NEW t \in Tasks, NEW l \in TaskLocations, TaskGoto(t, l),
         pc[t] \in {"run", "dec"} <=> l \in {"run", "dec"}
  PROVE  Counted' = Counted
BY DEF TypeOK, TaskGoto, Counted

\* Each access to the group preserves the invariant.
LEMMA NextIInv == IInv /\ [Next]_vars => IInv'
<1> SUFFICES ASSUME IInv, [Next]_vars
             PROVE  IInv'
  OBVIOUS
<1> USE GroupAssumption DEF TaskLocations, ParentLocations
<1>0. TypeOK /\ CountsExact /\ OneLast /\ ReadiesWaitingParent
  BY DEF IInv
<1>f. /\ IsFiniteSet(Counted) /\ Cardinality(Counted) \in Nat
      /\ IsFiniteSet(failed) /\ Cardinality(failed) \in Nat
  BY <1>0, CountedFinite
<1>e. Cardinality(Counted) = 0 <=> Counted = {}
  BY <1>f, FS_EmptySet
<1>1. ASSUME NEW t \in Tasks, AddTask(t)
      PROVE  IInv'
  <2> USE <1>0, <1>1 DEF AddTask, TaskGoto
  <2>1. TypeOK'
    BY DEF TypeOK
  <2>2. Counted' = Counted \cup {t} /\ t \notin Counted
    BY DEF TypeOK, Counted
  <2>3. CountsExact'
    <3>1. Cardinality(Counted') = Cardinality(Counted) + 1
      BY <1>f, <2>2, FS_AddElement
    <3> QED BY <1>f, <3>1 DEF TypeOK, CountsExact
  <2>4. \A u \in Tasks : ~Last(u)
    BY <1>f DEF CountsExact, OneLast
  <2>5. OneLast' /\ ReadiesWaitingParent'
    BY <2>4 DEF TypeOK, OneLast, Last, ReadiesWaitingParent
  <2> QED BY <2>1, <2>3, <2>5 DEF IInv
<1>2. ASSUME NEW t \in Tasks, NotifyError(t)
      PROVE  IInv'
  <2> USE <1>0, <1>2 DEF NotifyError
  <2>1. TypeOK'
    BY DEF TypeOK, TaskGoto
  <2>2. Counted' = Counted
    BY CountedUnchanged
  <2>3. CountsExact'
    <3>1. CASE UNCHANGED <<errors, failed>>
      BY <2>2, <3>1 DEF TypeOK, CountsExact, TaskGoto
    <3>2. CASE errors' = errors + 1 /\ failed' = failed \cup {t}
      <4>1. t \notin failed
        BY DEF CountsExact
      <4>2. Cardinality(failed') = Cardinality(failed) + 1
        BY <1>f, <3>2, <4>1, FS_AddElement
      <4>3. count # 0
        BY <1>f, <1>e DEF CountsExact, Counted
      <4> QED BY <1>f, <2>2, <3>2, <4>2, <4>3 DEF TypeOK, CountsExact, TaskGoto
    <3> QED BY <3>1, <3>2
  <2>4. OneLast' /\ ReadiesWaitingParent'
    BY DEF TypeOK, OneLast, Last, ReadiesWaitingParent, TaskGoto
  <2> QED BY <2>1, <2>3, <2>4 DEF IInv
<1>3. ASSUME NEW t \in Tasks, NotifyDec(t)
      PROVE  IInv'
  <2> USE <1>0, <1>3 DEF NotifyDec, TaskGoto
  <2>1. Counted' = Counted \ {t} /\ t \in Counted
    BY DEF TypeOK, Counted
  <2>2. Cardinality(Counted') = Cardinality(Counted) - 1 /\ Cardinality(Counted) > 0
    <3>1. Cardinality(Counted \ {t}) = Cardinality(Counted) - 1
      BY <1>f, <2>1, FS_RemoveElement
    <3>2. Counted # {}
      BY <2>1
    <3> HIDE <1>0, <1>3
    <3> QED BY <1>f, <1>e, <2>1, <3>1, <3>2
  <2>3. count > 0
    BY <1>f, <2>2 DEF CountsExact
  <2>4. TypeOK'
    BY <2>3 DEF TypeOK
  <2>5. CountsExact'
    BY <1>f, <2>2, <2>3 DEF TypeOK, CountsExact
  <2>6. \A u \in Tasks : ~Last(u)
    BY <2>3 DEF OneLast
  <2>7. ppc \notin {"return", "done"}
    BY <2>3 DEF CountsExact
  <2>8. OneLast' /\ ReadiesWaitingParent'
    BY <2>6, <2>7 DEF TypeOK, OneLast, Last, ReadiesWaitingParent
  <2> QED BY <2>4, <2>5, <2>8 DEF IInv
<1>4. ASSUME NEW t \in Tasks, NotifyLock(t)
      PROVE  IInv'
  <2> USE <1>0, <1>4 DEF NotifyLock
  <2>1. TypeOK'
    BY DEF TypeOK, TaskGoto
  <2>2. Counted' = Counted
    BY CountedUnchanged
  <2>3. CountsExact'
    BY <2>2 DEF TypeOK, CountsExact, TaskGoto
  <2>4. OneLast' /\ ReadiesWaitingParent'
    BY DEF TypeOK, OneLast, Last, ReadiesWaitingParent, TaskGoto
  <2> QED BY <2>1, <2>3, <2>4 DEF IInv
<1>5. ASSUME NEW t \in Tasks, NotifyUnlock(t)
      PROVE  IInv'
  <2> USE <1>0, <1>5 DEF NotifyUnlock
  <2>1. TypeOK'
    BY DEF TypeOK, TaskGoto
  <2>2. Counted' = Counted
    BY CountedUnchanged DEF TypeOK
  <2>3. CountsExact'
    BY <2>2 DEF TypeOK, CountsExact, TaskGoto
  <2>4. ppc \notin {"check", "suspend"} /\ count = 0
    BY DEF OneLast, Last
  <2>5. parent = Parent => ppc = "wait"
    BY <2>4 DEF TypeOK, OneLast, Last
  <2>6. OneLast' /\ ReadiesWaitingParent'
    BY <2>4, <2>5 DEF TypeOK, OneLast, Last, ReadiesWaitingParent, TaskGoto
  <2> QED BY <2>1, <2>3, <2>6 DEF IInv
<1>6. ASSUME NEW t \in Tasks, NotifyReady(t)
      PROVE  IInv'
  <2> USE <1>0, <1>6 DEF NotifyReady
  <2>1. TypeOK'
    BY DEF TypeOK, TaskGoto
  <2>2. Counted' = Counted
    BY CountedUnchanged
  <2>3. ppc = "wait" /\ ppc' = "return" /\ count = 0
    BY DEF ReadiesWaitingParent, OneLast, Last
  <2>4. CountsExact'
    BY <2>2, <2>3 DEF TypeOK, CountsExact, TaskGoto
  <2>5. \A u \in Tasks : ~Last(u)'
    BY DEF TypeOK, OneLast, Last, TaskGoto
  <2>6. OneLast' /\ ReadiesWaitingParent'
    BY <2>3, <2>5 DEF TypeOK, OneLast, Last, ReadiesWaitingParent
  <2> QED BY <2>1, <2>4, <2>6 DEF IInv
<1>7. CASE SyncDec
  <2> USE <1>0, <1>7 DEF SyncDec
  <2>1. count > 0 /\ Counted' = Counted
    BY <1>f DEF CountsExact, Counted
  <2>2. TypeOK'
    BY <2>1 DEF TypeOK
  <2>3. CountsExact'
    BY <1>f, <2>1 DEF TypeOK, CountsExact
  <2>4. \A u \in Tasks : ~Last(u)
    BY <2>1 DEF OneLast
  <2>5. OneLast' /\ ReadiesWaitingParent'
    BY <2>4 DEF TypeOK, OneLast, Last, ReadiesWaitingParent
  <2> QED BY <2>2, <2>3, <2>5 DEF IInv
<1>8. CASE SyncLock
  BY <1>0, <1>8 DEF SyncLock, IInv, TypeOK, CountsExact, Counted, OneLast, Last,
                    ReadiesWaitingParent
<1>9. CASE SyncCheck
  BY <1>0, <1>9 DEF SyncCheck, IInv, TypeOK, CountsExact, Counted, OneLast, Last,
                    ReadiesWaitingParent
<1>10. CASE CoreWait
  BY <1>0, <1>10 DEF CoreWait, IInv, TypeOK, CountsExact, Counted, OneLast, Last,
                     ReadiesWaitingParent
<1>11. CASE SyncReturn
  BY <1>0, <1>11 DEF SyncReturn, IInv, TypeOK, CountsExact, Counted, OneLast, Last,
                     ReadiesWaitingParent
<1>12. CASE UNCHANGED vars
  BY <1>0, <1>12 DEF vars, IInv, TypeOK, CountsExact, Counted, OneLast, Last,
                     ReadiesWaitingParent
<1> QED
  BY <1>1, <1>2, <1>3, <1>4, <1>5, <1>6, <1>7, <1>8, <1>9, <1>10, <1>11, <1>12
  DEF Next, ParentStep, TaskStep

LEMMA Invariance == Spec => []IInv
BY InitIInv, NextIInv, PTL DEF Spec

\* group->count never goes below zero, whatever the order of the decrements.
THEOREM GroupTypes == Spec => []TypeOK
<1>1. IInv => TypeOK
  BY DEF IInv
<1> QED BY <1>1, Invariance, PTL

\* When coroc_group_sync returns, every subtask that was added has finished,
\* and the result is the number of subtasks that failed, for any number of
\* subtasks.
THEOREM GroupSyncWaitsForAll == Spec => []SyncWaitsForAll
<1>1. IInv => SyncWaitsForAll
  <2> SUFFICES ASSUME IInv, ppc = "done" PROVE Counted = {} /\ ret = Cardinality(failed)
    BY DEF SyncWaitsForAll
  <2>1. Cardinality(Counted) = 0
    BY CountedFinite DEF IInv, CountsExact
  <2> QED BY <2>1, CountedFinite, FS_EmptySet DEF IInv, CountsExact
<1> QED BY <1>1, Invariance, PTL

\* The assertion of vpu_ready holds in coroc_group_notify: the last subtask
\* always finds the parent suspended.
THEOREM GroupReadiesWaitingParent == Spec => []ReadiesWaitingParent
<1>1. IInv => ReadiesWaitingParent
  BY DEF IInv
<1> QED BY <1>1, Invariance, PTL
=============================================================================
