------------------------------ MODULE MCGroup ------------------------------
(* A small instance of Group for TLC. *)
EXTENDS Group

CONSTANTS t1, t2, t3

MCTasks == {t1, t2, t3}
=============================================================================
