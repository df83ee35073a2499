---------------------------- MODULE MCFutexLock ----------------------------
(* A small instance of FutexLock for TLC. *)
EXTENDS FutexLock

CONSTANTS t1, t2, t3

MCThreads == {t1, t2, t3}
=============================================================================
