------------------------------ MODULE RunQueue ------------------------------
(***************************************************************************)
(* The ready queues of one priority level (src/vpu.c): a lock-free ring    *)
(* per VPU, from which the other VPUs steal, and a global list under a     *)
(* lock that takes the overflow, the yielding coroutines and those made    *)
(* ready by threads that are no VPU.                                       *)
(*                                                                         *)
(* Each action is one atomic access to a ring that another VPU may see, or *)
(* one critical section of the global queue.  A VPU's accesses to its own  *)
(* runqtail and its own slots, which nobody else writes, are merged with   *)
(* the neighbouring step.  A thief copies the victim's slots one by one,   *)
(* while the owner may be writing them.                                    *)
(***************************************************************************)
EXTENDS Integers, Sequences, FiniteSets

CONSTANTS
  Vpus,       \* the OS threads that run coroutines
  Tasks,      \* the coroutines, all of one priority
  NULL,
  Modulus,    \* the counters' range, 2^32 in the code
  Origin,     \* where the counters stand in the initial state
  Shapes      \* sizes of a ring, with the bounds on the coroutines used with each

VARIABLE shape

Capacity == shape.slots   \* TSC_TASK_NUM_PERPRIO
MaxReady == shape.ready   \* bound: how often each coroutine becomes ready

(***************************************************************************)
(* The indices head % Capacity and (head+1) % Capacity stay neighbours     *)
(* across the wrap only if Capacity divides Modulus.  A counter moves at   *)
(* most once per time a coroutine is queued; Modulus exceeds what the      *)
(* bound allows, as 2^32 exceeds what can happen during one CAS loop.      *)
(***************************************************************************)
ASSUME RunQueueAssumption ==
  /\ Modulus \in Nat
  /\ \A s \in Shapes : /\ s.slots \in Nat \ {0} /\ s.slots % 2 = 0
                       /\ Modulus % s.slots = 0 /\ Modulus >= 2 * s.slots
                       /\ s.ready \in [Tasks -> Nat]
  /\ Origin \in 0..(Modulus - 1)
  /\ NULL \notin Tasks \cup Vpus

VARIABLES
  runqhead, runqtail,   \* the two counters of each VPU's ring
  runq,                 \* the slots of each VPU's ring
  gq,                   \* the global queue; gq->status is its length
  glock,                \* the VPU that holds gq->lock, or NULL
  status, current,      \* as in ReadyPool
  budget,               \* how often each coroutine may still become ready
  pc,                   \* where each VPU is
  loc                   \* the local variables of each VPU

ring == <<runqhead, runqtail, runq>>
global == <<gq, glock>>
coroutines == <<status, current, budget>>
vars == <<shape, ring, global, coroutines, pc, loc>>

(***************************************************************************)
(* Locals: head, n and temp as in the code, task (the argument of          *)
(* __runqput), candidate, victim, and ret, where the VPU continues when    *)
(* __runqget finds nothing or __runqput is done.                           *)
(***************************************************************************)
NoLocals == [head |-> 0, n |-> 0, temp |-> <<>>, task |-> NULL,
             candidate |-> NULL, victim |-> NULL, ret |-> "poll"]

Locations ==
  {"run", "poll", "get", "getCAS", "put", "write", "publish", "slow", "slowAdd",
   "global", "trylock", "fetch", "steal", "grab", "grabTail", "copy", "grabCAS",
   "own", "ownTail", "found"}

Distance(t, h) == (t - h) % Modulus
Slot(c) == c % Capacity
Plus(c, k) == (c + k) % Modulus

\* VPU v moves from one location to another with these locals.
Move(v, from, to, l) ==
  /\ pc[v] = from
  /\ pc' = [pc EXCEPT ![v] = to]
  /\ loc' = [loc EXCEPT ![v] = l]

\* __priv_task_queue_init leaves both counters equal; core_sched starts with
\* __runqget.
Init ==
  /\ shape \in Shapes
  /\ runqhead = [v \in Vpus |-> Origin]
  /\ runqtail = [v \in Vpus |-> Origin]
  /\ runq = [v \in Vpus |-> [i \in 0..(Capacity - 1) |-> NULL]]
  /\ gq = <<>> /\ glock = NULL
  /\ status = [t \in Tasks |-> "WAIT"]
  /\ current = [v \in Vpus |-> NULL]
  /\ budget = MaxReady
  /\ pc = [v \in Vpus |-> "get"]
  /\ loc = [v \in Vpus |-> NoLocals]
-----------------------------------------------------------------------------
(* __runqget *)

\* Read the head, and compare it with the own tail.
Get(v) ==
  LET empty == runqtail[v] = runqhead[v] IN
  /\ Move(v, "get", IF empty THEN loc[v].ret ELSE "getCAS",
          IF empty THEN NoLocals ELSE [loc[v] EXCEPT !.head = runqhead[v]])
  /\ UNCHANGED <<shape, ring, global, coroutines>>

\* Take the coroutine at the head, unless a thief has moved the head.
GetCAS(v) ==
  LET h == loc[v].head
      won == runqhead[v] = h
  IN
  /\ Move(v, "getCAS", IF won THEN "found" ELSE "get",
          IF won THEN [NoLocals EXCEPT !.candidate = runq[v][Slot(h)]] ELSE loc[v])
  /\ runqhead' = IF won THEN [runqhead EXCEPT ![v] = Plus(h, 1)] ELSE runqhead
  /\ UNCHANGED <<shape, runqtail, runq, global, coroutines>>
-----------------------------------------------------------------------------
(* __runqput and __runqputslow *)

Put(v) ==
  LET full == Distance(runqtail[v], runqhead[v]) >= Capacity IN
  /\ Move(v, "put", IF full THEN "slow" ELSE "write",
          [loc[v] EXCEPT !.head = runqhead[v]])
  /\ UNCHANGED <<shape, ring, global, coroutines>>

PutWrite(v) ==
  /\ Move(v, "write", "publish", loc[v])
  /\ runq' = [runq EXCEPT ![v][Slot(runqtail[v])] = loc[v].task]
  /\ UNCHANGED <<shape, runqhead, runqtail, global, coroutines>>

PutPublish(v) ==
  /\ Move(v, "publish", loc[v].ret, [loc[v] EXCEPT !.head = 0, !.task = NULL])
  /\ runqtail' = [runqtail EXCEPT ![v] = Plus(@, 1)]
  /\ UNCHANGED <<shape, runqhead, runq, global, coroutines>>

\* Seeded fault: the head is moved without a CAS.
PutSlowStore(v) ==
  LET h == loc[v].head
      n == Distance(runqtail[v], h) \div 2
  IN
  /\ Move(v, "slow", "slowAdd",
          [loc[v] EXCEPT !.head = 0, !.task = NULL,
             !.temp = [i \in 1..(n + 1) |-> IF i <= n THEN runq[v][Slot(h + i - 1)]
                                            ELSE loc[v].task]])
  /\ runqhead' = [runqhead EXCEPT ![v] = Plus(h, n)]
  /\ UNCHANGED <<shape, runqtail, runq, global, coroutines>>

\* The ring is full: half of it, and the new coroutine, become the range that
\* is added to the global queue, if no thief has moved the head.
PutSlow(v) ==
  LET h == loc[v].head
      n == Distance(runqtail[v], h) \div 2
      won == runqhead[v] = h
  IN
  /\ Move(v, "slow", IF won THEN "slowAdd" ELSE "put",
          IF won THEN [loc[v] EXCEPT !.head = 0, !.task = NULL,
                         !.temp = [i \in 1..(n + 1) |->
                                     IF i <= n THEN runq[v][Slot(h + i - 1)]
                                     ELSE loc[v].task]]
          ELSE loc[v])
  /\ runqhead' = IF won THEN [runqhead EXCEPT ![v] = Plus(h, n)] ELSE runqhead
  /\ UNCHANGED <<shape, runqtail, runq, global, coroutines>>

\* atomic_queue_add_range takes the lock of the global queue.
PutSlowAdd(v) ==
  /\ glock = NULL
  /\ Move(v, "slowAdd", loc[v].ret, [loc[v] EXCEPT !.temp = <<>>])
  /\ gq' = gq \o loc[v].temp
  /\ UNCHANGED <<shape, ring, glock, coroutines>>
-----------------------------------------------------------------------------
(* core_elect: the global queue *)

\* The condition of the loop reads gq->status without the lock.
ElectGlobal(v) ==
  /\ Move(v, "global", IF gq # <<>> THEN "trylock" ELSE "steal", loc[v])
  /\ UNCHANGED <<shape, ring, global, coroutines>>

\* Seeded fault: the fetch is not limited to what the ring can hold.
ElectLockAll(v) ==
  /\ glock = NULL
  /\ glock' = v
  /\ gq # <<>>
  /\ Move(v, "trylock", "fetch", [loc[v] EXCEPT !.candidate = Head(gq), !.n = Len(gq) - 1])
  /\ gq' = Tail(gq)
  /\ UNCHANGED <<shape, ring, coroutines>>

\* Lock the queue, and find out how many coroutines to take: the first one is
\* the candidate.  Another VPU may have emptied the queue in between.
ElectLock(v) ==
  LET max == IF Len(gq) < Capacity - 1 THEN Len(gq) ELSE Capacity - 1 IN
  /\ glock = NULL
  /\ glock' = v
  /\ \/ /\ max = 0
        /\ Move(v, "trylock", "fetch", loc[v])
        /\ UNCHANGED gq
     \/ /\ max > 0
        /\ Move(v, "trylock", "fetch",
                [loc[v] EXCEPT !.candidate = Head(gq), !.n = max - 1])
        /\ gq' = Tail(gq)
  /\ UNCHANGED <<shape, ring, coroutines>>

\* The lock is taken: try again, or go stealing when that was the last retry.
ElectBusy(v) ==
  /\ glock # NULL
  /\ \E l \in {"global", "steal"} : Move(v, "trylock", l, loc[v])
  /\ UNCHANGED <<shape, ring, global, coroutines>>

\* Move one more coroutine to the own ring, with the lock held.
ElectFetch(v) ==
  /\ loc[v].n > 0
  /\ Move(v, "fetch", "put", [loc[v] EXCEPT !.n = @ - 1, !.task = Head(gq),
                                            !.ret = "fetch"])
  /\ gq' = Tail(gq)
  /\ UNCHANGED <<shape, ring, glock, coroutines>>

ElectUnlock(v) ==
  LET c == loc[v].candidate IN
  /\ loc[v].n = 0
  /\ Move(v, "fetch", IF c = NULL THEN "steal" ELSE "found",
          [NoLocals EXCEPT !.candidate = c])
  /\ glock' = NULL
  /\ UNCHANGED <<shape, ring, gq, coroutines>>
-----------------------------------------------------------------------------
(* core_elect: __random_steal, __runqsteal and __runqgrab *)

StealFrom(v, u) ==
  /\ u # v
  /\ Move(v, "steal", "grab", [NoLocals EXCEPT !.victim = u])
  /\ UNCHANGED <<shape, ring, global, coroutines>>

\* Too many failures: core_sched begins its next round.
StealGiveUp(v) ==
  /\ Move(v, "steal", "get", NoLocals)
  /\ UNCHANGED <<shape, ring, global, coroutines>>

Grab(v) ==
  /\ Move(v, "grab", "grabTail", [loc[v] EXCEPT !.head = runqhead[loc[v].victim]])
  /\ UNCHANGED <<shape, ring, global, coroutines>>

\* Seeded fault: a distance that exceeds the ring is not noticed.
GrabTailUnchecked(v) ==
  LET m == Distance(runqtail[loc[v].victim], loc[v].head)
      n == m - m \div 2
  IN
  /\ pc[v] = "grabTail"
  /\ \/ n = 0 /\ Move(v, "grabTail", "steal", NoLocals)
     \/ n > 0 /\ Move(v, "grabTail", "copy", [loc[v] EXCEPT !.n = n, !.temp = <<>>])
  /\ UNCHANGED <<shape, ring, global, coroutines>>

\* The tail is read after the head: both may have moved in between, so that
\* their distance can exceed the ring.
GrabTail(v) ==
  LET m == Distance(runqtail[loc[v].victim], loc[v].head)
      n == m - m \div 2
  IN
  /\ pc[v] = "grabTail"
  /\ \/ n = 0 /\ Move(v, "grabTail", "steal", NoLocals)
     \/ n > Capacity \div 2 /\ Move(v, "grabTail", "grab", loc[v])
     \/ /\ n \in 1..(Capacity \div 2)
        /\ Move(v, "grabTail", "copy", [loc[v] EXCEPT !.n = n, !.temp = <<>>])
  /\ UNCHANGED <<shape, ring, global, coroutines>>

GrabCopy(v) ==
  LET l == loc[v]
      k == Len(l.temp)
  IN
  /\ Move(v, "copy", IF k + 1 = l.n THEN "grabCAS" ELSE "copy",
          [l EXCEPT !.temp = Append(@, runq[l.victim][Slot(l.head + k)])])
  /\ UNCHANGED <<shape, ring, global, coroutines>>

\* Seeded fault: the thief moves the head without a CAS.
GrabStore(v) ==
  LET l == loc[v] IN
  /\ Move(v, "grabCAS", IF l.n = 1 THEN "found" ELSE "own",
          [NoLocals EXCEPT !.candidate = l.temp[l.n], !.temp = SubSeq(l.temp, 1, l.n - 1)])
  /\ runqhead' = [runqhead EXCEPT ![l.victim] = Plus(l.head, l.n)]
  /\ UNCHANGED <<shape, runqtail, runq, global, coroutines>>

\* The grabbed coroutines are the thief's if the head has not moved: the last
\* one is its candidate, the others go to its own ring.
GrabCAS(v) ==
  LET l == loc[v]
      won == runqhead[l.victim] = l.head
  IN
  /\ Move(v, "grabCAS",
          IF ~won THEN "grab" ELSE IF l.n = 1 THEN "found" ELSE "own",
          IF won THEN [NoLocals EXCEPT !.candidate = l.temp[l.n],
                                       !.temp = SubSeq(l.temp, 1, l.n - 1)]
          ELSE [l EXCEPT !.temp = <<>>])
  /\ runqhead' = IF won THEN [runqhead EXCEPT ![l.victim] = Plus(l.head, l.n)]
                 ELSE runqhead
  /\ UNCHANGED <<shape, runqtail, runq, global, coroutines>>

\* Write the own slots, then move the own tail over all of them at once.
StealOwn(v) ==
  LET k == Len(loc[v].temp) IN
  /\ Move(v, "own", "ownTail", [loc[v] EXCEPT !.head = runqhead[v]])
  /\ runq' = [runq EXCEPT ![v] =
                [s \in DOMAIN @ |->
                   LET d == Distance(s, runqtail[v]) % Capacity
                   IN  IF d < k THEN loc[v].temp[d + 1] ELSE @[s]]]
  /\ UNCHANGED <<shape, runqhead, runqtail, global, coroutines>>

StealOwnTail(v) ==
  /\ Move(v, "ownTail", "found", [NoLocals EXCEPT !.candidate = loc[v].candidate])
  /\ runqtail' = [runqtail EXCEPT ![v] = Plus(@, Len(loc[v].temp))]
  /\ UNCHANGED <<shape, runqhead, runq, global, coroutines>>
-----------------------------------------------------------------------------
(* core_sched and the coroutines *)

\* core_sched runs its candidate.
Dispatch(v) ==
  LET c == loc[v].candidate IN
  /\ Move(v, "found", "run", NoLocals)
  /\ status' = [status EXCEPT ![c] = "RUNNING"]
  /\ current' = [current EXCEPT ![v] = c]
  /\ UNCHANGED <<shape, ring, global, budget>>

MayReady(t) == status[t] = "WAIT" /\ budget[t] > 0

MakeReady(t) ==
  /\ status' = [status EXCEPT ![t] = "READY"]
  /\ budget' = [budget EXCEPT ![t] = @ - 1]

\* vpu_ready on a VPU, called by the running coroutine or by the polling of
\* core_sched: the own ring gets the coroutine.
VpuReady(v, t) ==
  /\ MayReady(t)
  /\ MakeReady(t)
  /\ pc[v] \in {"run", "poll"}
  /\ Move(v, pc[v], "put", [NoLocals EXCEPT !.task = t, !.ret = pc[v]])
  /\ UNCHANGED <<shape, ring, global, current>>

\* vpu_ready on a thread of the asynchronous pool.
AsyncReady(t) ==
  /\ MayReady(t)
  /\ MakeReady(t)
  /\ glock = NULL
  /\ gq' = Append(gq, t)
  /\ UNCHANGED <<shape, ring, glock, current, pc, loc>>

\* The polling of core_sched is over; core_elect tries the own ring again.
PollEnd(v) ==
  /\ Move(v, "poll", "get", [NoLocals EXCEPT !.ret = "global"])
  /\ UNCHANGED <<shape, ring, global, coroutines>>

\* core_yield: to the end of the global queue.
CoreYield(v) ==
  /\ glock = NULL
  /\ Move(v, "run", "get", NoLocals)
  /\ budget[current[v]] > 0
  /\ MakeReady(current[v])
  /\ current' = [current EXCEPT ![v] = NULL]
  /\ gq' = Append(gq, current[v])
  /\ UNCHANGED <<shape, ring, glock>>

\* core_wait.
CoreWait(v) ==
  /\ Move(v, "run", "get", NoLocals)
  /\ status' = [status EXCEPT ![current[v]] = "WAIT"]
  /\ current' = [current EXCEPT ![v] = NULL]
  /\ UNCHANGED <<shape, ring, global, budget>>
-----------------------------------------------------------------------------
Elect(v) ==
  \/ ElectGlobal(v) \/ ElectLock(v) \/ ElectBusy(v) \/ ElectFetch(v) \/ ElectUnlock(v)

Steal(v) ==
  \/ \E u \in Vpus : StealFrom(v, u)
  \/ StealGiveUp(v)
  \/ Grab(v) \/ GrabTail(v) \/ GrabCopy(v) \/ GrabCAS(v)
  \/ StealOwn(v) \/ StealOwnTail(v)

Next ==
  \/ \E v \in Vpus :
       \/ Get(v) \/ GetCAS(v)
       \/ Put(v) \/ PutWrite(v) \/ PutPublish(v) \/ PutSlow(v) \/ PutSlowAdd(v)
       \/ Elect(v) \/ Steal(v)
       \/ Dispatch(v) \/ PollEnd(v) \/ CoreYield(v) \/ CoreWait(v)
       \/ \E t \in Tasks : VpuReady(v, t)
  \/ \E t \in Tasks : AsyncReady(t)

Spec == Init /\ [][Next]_vars
-----------------------------------------------------------------------------
(***************************************************************************)
(* What the code relies on because its counters have 32 bits: between the  *)
(* moment a thief reads the head of a ring and its compare-and-swap, that  *)
(* head does not go all the way round.                                     *)
(***************************************************************************)
Behind(v) ==
  LET u == loc[v].victim
  IN  pc[v] \in {"grabTail", "copy", "grabCAS"} =>
        Distance(runqhead[u], loc[v].head) + Distance(runqhead'[u], runqhead[u]) < Modulus
NoLap == [][\A v \in Vpus : Behind(v)]_vars

Size(v) == Distance(runqtail[v], runqhead[v])

\* The places where t is queued, or in the hands of a VPU that moves it: the place in
\* a ring is the value of the counter when t was put there.
InRings(t) ==
  {x \in Vpus \X (0..(Modulus - 1)) :
     Distance(x[2], runqhead[x[1]]) < Size(x[1]) /\ runq[x[1]][Slot(x[2])] = t}
InGlobal(t) == {i \in DOMAIN gq : gq[i] = t}
AsTask(t) == {v \in Vpus : loc[v].task = t}
AsCandidate(t) == {v \in Vpus : loc[v].candidate = t}
Holding == {"slowAdd", "own", "ownTail"}
InTemps(t) ==
  {x \in Vpus \X (1..Capacity) :
     /\ pc[x[1]] \in Holding
     /\ x[2] <= Len(loc[x[1]].temp) /\ loc[x[1]].temp[x[2]] = t}

Places(t) ==
  [ring |-> InRings(t), global |-> InGlobal(t), task |-> AsTask(t),
   candidate |-> AsCandidate(t), temp |-> InTemps(t)]

\* One of the sets has an element, and only one; none of them has.
OnceIn(sets) ==
  \E k \in DOMAIN sets : /\ \E x \in sets[k] : sets[k] = {x}
                         /\ \A j \in DOMAIN sets \ {k} : sets[j] = {}
NotIn(sets) == \A k \in DOMAIN sets : sets[k] = {}

\* A READY coroutine is queued exactly once, whatever the owners, the thieves
\* and the overflow to the global queue are doing: none is lost, none is
\* there twice, and a coroutine that waits or runs is nowhere.
QueuedExactlyOnce ==
  \A t \in Tasks : IF status[t] = "READY" THEN OnceIn(Places(t)) ELSE NotIn(Places(t))

\* The assertions and array bounds of the ring code: a ring never holds more
\* than its slots, __runqputslow moves exactly half, __runqsteal has room for
\* what it stole (vpu.c:51, vpu.c:127), and temp never overflows.  core_elect calls
\* __runqput with the global lock held, and __runqputslow would take that lock
\* again: it is never reached on that path.
RingBounds ==
  \A v \in Vpus :
    /\ Size(v) <= Capacity
    /\ pc[v] = "slow" =>
         Distance(runqtail[v], loc[v].head) \div 2 = Capacity \div 2
    /\ pc[v] = "own" => Size(v) + Len(loc[v].temp) < Capacity
    /\ pc[v] \in {"copy", "grabCAS"} => Len(loc[v].temp) <= Capacity \div 2
    /\ pc[v] \in {"slow", "slowAdd"} => glock # v

Pool == INSTANCE ReadyPool

\* Seen from outside, the queues are one pool of ready coroutines.
ImplementsReadyPool == Pool!Spec
-----------------------------------------------------------------------------
(* The inductive invariant *)

LocalsType ==
  [head : 0..(Modulus - 1), n : Nat, temp : Seq(Tasks \cup {NULL}),
   task : Tasks \cup {NULL}, candidate : Tasks \cup {NULL}, victim : Vpus \cup {NULL},
   ret : {"run", "poll", "fetch", "global"}]

TypeOK ==
  /\ shape \in Shapes
  /\ runqhead \in [Vpus -> 0..(Modulus - 1)]
  /\ runqtail \in [Vpus -> 0..(Modulus - 1)]
  /\ runq \in [Vpus -> [0..(Capacity - 1) -> Tasks \cup {NULL}]]
  /\ gq \in Seq(Tasks)
  /\ glock \in Vpus \cup {NULL}
  /\ status \in [Tasks -> {"WAIT", "READY", "RUNNING"}]
  /\ current \in [Vpus -> Tasks \cup {NULL}]
  /\ budget \in [Tasks -> Nat]
  /\ pc \in [Vpus -> Locations]
  /\ loc \in [Vpus -> LocalsType]

Putting == {"put", "write", "publish", "slow", "slowAdd"}
Fetching(v) == pc[v] = "fetch" \/ (pc[v] \in Putting /\ loc[v].ret = "fetch")
Running(v) == pc[v] = "run" \/ (pc[v] \in Putting /\ loc[v].ret = "run")

\* core_elect looks elsewhere only when the own ring is empty, and nobody but its
\* owner fills it.
Emptied ==
  {"global", "trylock", "steal", "grab", "grabTail", "copy", "grabCAS", "own", "ownTail"}

\* A ring has at most as many coroutines as slots, and there is one at every place
\* between its head and its tail.
Ring(v) ==
  /\ Size(v) <= Capacity
  /\ \A c \in 0..(Modulus - 1) :
       Distance(c, runqhead[v]) < Size(v) => runq[v][Slot(c)] # NULL
  /\ pc[v] \in Emptied => Size(v) = 0

\* What a VPU holds at each of its locations.
Locals(v) ==
  /\ loc[v].task # NULL <=> pc[v] \in Putting \ {"slowAdd"}
  /\ loc[v].candidate # NULL => pc[v] \in {"found", "own", "ownTail"} \/ Fetching(v)
  /\ pc[v] \in {"found", "own", "ownTail"} => loc[v].candidate # NULL
  /\ pc[v] \in {"get", "getCAS"} => loc[v].ret \in {"poll", "global"}
  /\ pc[v] \in Putting => loc[v].ret # "global"
  /\ pc[v] \in {"global", "trylock"} => loc[v].n = 0
  /\ pc[v] \in Holding =>
       /\ \A i \in 1..Len(loc[v].temp) : loc[v].temp[i] # NULL
       /\ Len(loc[v].temp) <= Capacity
  /\ pc[v] \in {"own", "ownTail"} => Len(loc[v].temp) < Capacity

\* What the owner has found out about its ring stays true although thieves move its
\* head: only the owner moves the tail and writes slots.
Owned(v) ==
  /\ pc[v] = "getCAS" => loc[v].head # runqtail[v]
  /\ pc[v] \in {"write", "publish"} => Size(v) < Capacity
  /\ pc[v] = "publish" => runq[v][Slot(runqtail[v])] = loc[v].task
  /\ pc[v] = "slow" => Distance(runqtail[v], loc[v].head) = Capacity
  /\ pc[v] = "ownTail" =>
       \A i \in 1..Len(loc[v].temp) :
         runq[v][Slot(Plus(runqtail[v], i - 1))] = loc[v].temp[i]

\* The VPU with the global lock fetches what fits into its ring and no more than
\* the queue has.
Fetch(v) ==
  /\ glock = v <=> Fetching(v)
  /\ Fetching(v) =>
       /\ loc[v].n <= Len(gq)
       /\ Size(v) + loc[v].n + (IF pc[v] = "fetch" THEN 0 ELSE 1) <= Capacity - 2
       /\ loc[v].candidate = NULL => pc[v] = "fetch" /\ loc[v].n = 0 /\ Size(v) = 0
       /\ pc[v] \notin {"slow", "slowAdd"}

\* While the head that a thief has read stands, the slots it copies are in the ring
\* and keep their coroutines.
Theft(v) ==
  /\ pc[v] \in {"grab", "grabTail", "copy", "grabCAS"} =>
       loc[v].victim \in Vpus \ {v}
  /\ pc[v] \in {"copy", "grabCAS"} =>
       /\ loc[v].n \in 1..(Capacity \div 2)
       /\ IF pc[v] = "copy" THEN Len(loc[v].temp) < loc[v].n
                            ELSE Len(loc[v].temp) = loc[v].n
       /\ runqhead[loc[v].victim] = loc[v].head =>
            /\ loc[v].n <= Size(loc[v].victim)
            /\ \A i \in 1..Len(loc[v].temp) :
                 loc[v].temp[i] = runq[loc[v].victim][Slot(Plus(loc[v].head, i - 1))]

\* A VPU runs the coroutine it has dispatched until that coroutine leaves it.
Runner(v) ==
  IF Running(v) THEN current[v] # NULL /\ status[current[v]] = "RUNNING"
                ELSE current[v] = NULL

VpuInv(v) == Ring(v) /\ Locals(v) /\ Owned(v) /\ Fetch(v) /\ Theft(v) /\ Runner(v)

QInv ==
  /\ TypeOK
  /\ \A v \in Vpus : VpuInv(v)
  /\ \A u, v \in Vpus : current[u] = current[v] /\ current[u] # NULL => u = v
  /\ QueuedExactlyOnce
=============================================================================
