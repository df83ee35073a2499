----------------------------- MODULE Coroutine -----------------------------
(***************************************************************************)
(* The life of a coroutine: src/coroutine.c, with the reference counts of   *)
(* include/inter/refcnt.h.  A new coroutine has one reference, its own,     *)
(* which it drops when it exits; whoever else keeps a handle to it adds one. *)
(***************************************************************************)
EXTENDS Queue, FiniteSets

CONSTANTS
  Tasks,          \* coroutines
  Root            \* the one that exists at first

VARIABLES
  status,         \* coroutine->status; "run" stands for READY and RUNNING
  coroutine_list, \* vpu_manager.coroutine_list
  count,          \* refcnt.count
  memory,         \* coroutines whose structure is allocated
  handles,        \* the counted handles that a coroutine has
  born            \* history: coroutines that have not exited, oldest first

cvars == <<status, coroutine_list, count, memory, handles, born>>

-----------------------------------------------------------------------------
\* Seeded fault: the handle is not counted.
GetNothing(c, t) == c
\* __coroc_refcnt_get.
Get(c, t) == [c EXCEPT ![t] = @ + 1]

\* coroc_coroutine_allocate: t is listed and made ready; it is given a counted
\* handle to its creator p.
Allocate(p, t) ==
  /\ status' = [status EXCEPT ![t] = "run"]
  /\ coroutine_list' = QueueAdd(coroutine_list, "list", t)
  /\ count' = Get([count EXCEPT ![t] = 1], p)
  /\ memory' = memory \cup {t}
  /\ handles' = [handles EXCEPT ![t] = {p}]
  /\ born' = Append(born, t)

\* The first part of coroc_coroutine_deallocate: t is unlisted and its stack
\* freed.
Unlist(t) ==
  /\ status' = [status EXCEPT ![t] = "exit"]
  /\ coroutine_list' = QueueExtract(coroutine_list, "list", t)
  /\ born' = SelectSeq(born, LAMBDA x : x # t)
  /\ UNCHANGED <<count, memory, handles>>

\* __coroc_refcnt_put.
Put(t) ==
  /\ count' = [count EXCEPT ![t] = @ - 1]
  /\ memory' = IF count[t] = 1 THEN memory \ {t} ELSE memory
  /\ UNCHANGED <<status, coroutine_list, born>>

CoroutineInit ==
  /\ status = [t \in Tasks |-> IF t = Root THEN "run" ELSE "none"]
  /\ coroutine_list = QueueAdd(QueueInit({"list"}, Tasks), "list", Root)
  /\ count = [t \in Tasks |-> IF t = Root THEN 1 ELSE 0]
  /\ memory = {Root} /\ handles = [t \in Tasks |-> {}]
  /\ born = <<Root>>

-----------------------------------------------------------------------------
CoroutineTypeOK ==
  /\ status \in [Tasks -> {"none", "run", "wait", "exit"}]
  /\ count \in [Tasks -> Nat] /\ memory \subseteq Tasks
  /\ handles \in [Tasks -> SUBSET Tasks] /\ born \in Seq(Tasks)
=============================================================================
