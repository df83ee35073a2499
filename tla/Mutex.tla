------------------------------- MODULE Mutex -------------------------------
(***************************************************************************)
(* What the library expects of a lock (include/inter/coroc_lock.h): at     *)
(* most one thread owns it, a free lock may be acquired by any thread, and *)
(* only its owner gives it back.  Every module that uses lock_acquire and  *)
(* lock_release models the lock as such an owner; FutexLock shows that the *)
(* library's own implementation provides it.                               *)
(***************************************************************************)
CONSTANTS Threads, NoThread

VARIABLE owner

Init == owner = NoThread

\* lock_acquire returning, or lock_try_acquire succeeding.
Acquire(t) == owner = NoThread /\ owner' = t

\* lock_release by the thread that holds the lock.
Release(t) == owner = t /\ owner' = NoThread

Next == \E t \in Threads : Acquire(t) \/ Release(t)

Spec == Init /\ [][Next]_owner
=============================================================================
