----------------------------- MODULE MCRunQueue -----------------------------
(* A small instance of RunQueue for TLC. *)
EXTENDS RunQueue, TLC

CONSTANTS v1, v2, k1, k2, k3, k4, k5

MCVpus == {v1, v2}
FiveTasks == {k1, k2, k3, k4, k5}

\* Two slots and four coroutines, of which one becomes ready twice; or four
\* slots and five coroutines.
MCShapes ==
  {[slots |-> 2, ready |-> [k \in Tasks |-> IF k = x THEN 0 ELSE IF k = y THEN 2 ELSE 1]] :
      <<x, y>> \in {p \in Tasks \X Tasks : p[1] # p[2]}}
  \cup {[slots |-> 4, ready |-> [k \in Tasks |-> 1]]}

\* VPUs and coroutines are only compared, never ordered.
Symmetry == Permutations(Vpus) \cup Permutations(Tasks)
=============================================================================
