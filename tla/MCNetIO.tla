------------------------------ MODULE MCNetIO ------------------------------
(* A small instance of NetIO for TLC. *)
EXTENDS NetIO, TLC

CONSTANTS w1, w2, p1, p2, f1, f2, d1, d2

O(k, f) == [kind |-> k, fd |-> f]

\* A coroutine reads from a socket, with and without a deadline; another one
\* writes to the same socket or uses sockets of its own.
MCPrograms ==
  {(w1 :> p[1]) @@ (w2 :> p[2]) : p \in
     {<<<<O("timed_read", f1), O("timed_read", f1)>>, <<>>>>,
      <<<<O("read", f1)>>, <<O("write", f1)>>>>,
      <<<<O("timed_read", f1)>>, <<O("write", f1)>>>>,
      <<<<O("read", f1)>>, <<O("timed_dial", NULL)>>>>,
      <<<<O("announce", NULL)>>, <<O("dial", NULL)>>>>,
      <<<<O("accept", f1)>>, <<>>>>,
      <<<<O("timed_accept", f1)>>, <<>>>>}}
=============================================================================
