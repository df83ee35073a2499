---------------------------- MODULE MCScheduler ----------------------------
(* Small instances of Scheduler for TLC. *)
EXTENDS Scheduler, TLC

CONSTANTS v1, v2, p1, m, a

MCPrios == 0..1
MCPriosOne == {0}

\* The main coroutine has the lowest priority.
MCPrio == [t \in Tasks |-> IF t = Main THEN 1 ELSE 0]
MCPrioOne == [t \in Tasks |-> 0]

Symmetry == Permutations(Vpus)
=============================================================================
