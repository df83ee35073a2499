----------------------------- MODULE ReadyPool -----------------------------
(***************************************************************************)
(* What the run queues of all VPUs and the global queue promise together:  *)
(* they are one pool of READY coroutines.  A coroutine that is made ready  *)
(* is dispatched to one VPU only, and runs there until it yields or waits. *)
(***************************************************************************)
CONSTANTS Vpus, Tasks, NULL

VARIABLES
  status,    \* of each coroutine: WAIT, READY or RUNNING
  current    \* the coroutine each VPU runs, or NULL

vars == <<status, current>>

Init ==
  /\ status = [t \in Tasks |-> "WAIT"]
  /\ current = [v \in Vpus |-> NULL]

Ready(t) ==
  /\ status[t] = "WAIT"
  /\ status' = [status EXCEPT ![t] = "READY"]
  /\ UNCHANGED current

Dispatch(v, t) ==
  /\ current[v] = NULL
  /\ status[t] = "READY"
  /\ status' = [status EXCEPT ![t] = "RUNNING"]
  /\ current' = [current EXCEPT ![v] = t]

Leave(v, s) ==
  /\ current[v] # NULL
  /\ status' = [status EXCEPT ![current[v]] = s]
  /\ current' = [current EXCEPT ![v] = NULL]

Next ==
  \/ \E t \in Tasks : Ready(t)
  \/ \E v \in Vpus, t \in Tasks : Dispatch(v, t)
  \/ \E v \in Vpus, s \in {"READY", "WAIT"} : Leave(v, s)

Spec == Init /\ [][Next]_vars
=============================================================================
