------------------------------- MODULE Queue -------------------------------
(***************************************************************************)
(* The doubly linked queues of include/inter/coroc_queue.h, at the level of *)
(* their pointers.  A pool s of items and queues is a record: head, tail    *)
(* and status of every queue, and next, prev and que of every item.         *)
(***************************************************************************)
EXTENDS Integers, Sequences

CONSTANT NULL

\* queue_init and queue_item_init, for queues Q and items I.
QueueInit(Q, I) ==
  [head |-> [q \in Q |-> NULL], tail |-> [q \in Q |-> NULL], status |-> [q \in Q |-> 0],
   next |-> [i \in I \cup {NULL} |-> NULL], prev |-> [i \in I |-> NULL],
   que |-> [i \in I |-> NULL]]

\* queue_add: i comes last.
QueueAdd(s, q, i) ==
  LET t == s.tail[q]
      empty == s.status[q] = 0
  IN [s EXCEPT
        !.next = IF empty THEN [@ EXCEPT ![i] = NULL] ELSE [@ EXCEPT ![i] = NULL, ![t] = i],
        !.prev = IF empty THEN @ ELSE [@ EXCEPT ![i] = t],
        !.head = IF empty THEN [@ EXCEPT ![q] = i] ELSE @,
        !.tail[q] = i, !.que[i] = q, !.status[q] = @ + 1]

\* queue_rem on a queue that is not empty: its head leaves.
QueueRem(s, q) ==
  LET i == s.head[q]
      h == s.next[i]
  IN [s EXCEPT
        !.head[q] = h, !.tail[q] = IF h = NULL THEN NULL ELSE @, !.status[q] = @ - 1,
        !.prev = IF h = NULL THEN [@ EXCEPT ![i] = NULL] ELSE [@ EXCEPT ![i] = NULL, ![h] = NULL],
        !.next[i] = NULL, !.que[i] = NULL]

\* Seeded fault: the tail stays when the last item leaves.
QueueExtractNoTail(s, q, i) ==
  LET p == s.prev[i]
      n == s.next[i]
  IN IF s.que[i] # q THEN s
     ELSE [s EXCEPT
             !.next = IF p = NULL THEN [@ EXCEPT ![i] = NULL] ELSE [@ EXCEPT ![p] = n, ![i] = NULL],
             !.head[q] = IF p = NULL THEN n ELSE @,
             !.prev = IF n = NULL THEN [@ EXCEPT ![i] = NULL] ELSE [@ EXCEPT ![n] = p, ![i] = NULL],
             !.status[q] = @ - 1, !.que[i] = NULL]

\* queue_extract: i leaves q, if it is there.
QueueExtract(s, q, i) ==
  LET p == s.prev[i]
      n == s.next[i]
  IN IF s.que[i] # q THEN s
     ELSE [s EXCEPT
             !.next = IF p = NULL THEN [@ EXCEPT ![i] = NULL] ELSE [@ EXCEPT ![p] = n, ![i] = NULL],
             !.head[q] = IF p = NULL THEN n ELSE @,
             !.prev = IF n = NULL THEN [@ EXCEPT ![i] = NULL] ELSE [@ EXCEPT ![n] = p, ![i] = NULL],
             !.tail[q] = IF n = NULL THEN p ELSE @,
             !.status[q] = @ - 1, !.que[i] = NULL]

\* queue_walk: the items in the order of their links.
QueueWalk(s, q) ==
  LET nth[k \in 1 .. s.status[q]] == IF k = 1 THEN s.head[q] ELSE s.next[nth[k - 1]]
  IN [k \in 1 .. s.status[q] |-> nth[k]]

\* The pointers of q are those of a list of the items w.
IsList(s, q, w) ==
  /\ s.status[q] = Len(w) /\ QueueWalk(s, q) = w
  /\ w # <<>> => /\ s.tail[q] = w[Len(w)] /\ s.next[w[Len(w)]] = NULL
                 /\ s.prev[w[1]] = NULL
  /\ \A k \in 1 .. Len(w) : s.que[w[k]] = q /\ (k > 1 => s.prev[w[k]] = w[k - 1])
=============================================================================
