------------------------------ MODULE Netpoll ------------------------------
(***************************************************************************)
(* Waiting for a file descriptor: src/netpoll.c over src/netpoll_epoll.c,   *)
(* with the counts of include/inter/refcnt.h.  A waiter allocates a poll    *)
(* descriptor, registers it with epoll, may set a deadline, and suspends.   *)
(* The VPUs poll; each takes a batch of events.  Event, second event and    *)
(* deadline race for the descriptor's flag `done'; the winner removes the   *)
(* registration and makes the waiter ready.  Three references keep the      *)
(* descriptor: the waiter's, the registration's and the deadline's.         *)
(*                                                                         *)
(* A mode is the set of its bits: "r" READ, "w" WRITE, "e" ERROR.           *)
(***************************************************************************)
EXTENDS Integers, FiniteSets

CONSTANTS
  Waiters,  \* coroutines that wait
  Pollers,  \* VPUs that poll
  Timer,    \* the timer daemon
  Fds,      \* file descriptors
  Descs,    \* addresses of poll descriptors
  Bits,     \* the bits of a mode that are used
  NULL

VARIABLES
  live,     \* addresses that are allocated
  count,    \* desc->refcnt.count
  done,     \* desc->done
  mode,     \* desc->mode
  fd,       \* desc->fd
  wait,     \* desc->wait
  lock,     \* holder of desc->lock
  reg,      \* epoll: the descriptor registered for a file descriptor
  want,     \* epoll: and its events
  level,    \* what a file descriptor is ready for now
  pend,     \* epoll: events to be reported for it
  num_op,   \* __coroc_num_op
  wpc,      \* where a waiter is
  desc,     \* its descriptor
  timed,    \* whether it has a deadline
  res,      \* what its last wait returned
  armed,    \* waiters whose deadline is in the timer heap
  tpc,      \* where the timer daemon is; not "idle" means it holds the heap's lock
  tcur,     \* the waiter whose deadline it fires
  ppc,      \* where a poller is
  batch,    \* the events that it has yet to handle
  cur,      \* the descriptor whose event it handles
  pmode,    \* its variable `mode'
  gen,      \* history: how often an address has been allocated
  clash,    \* history: file descriptors for which EPOLL_CTL_ADD has failed
  expired,  \* history: waiters whose deadline won
  carried,  \* history: waiters told what an earlier event of the batch was
  stale     \* history: a poller has taken a new descriptor for an old one

dvars == <<live, count, done, mode, fd, wait, lock>>
epoll == <<reg, want, level, pend>>
wvars == <<wpc, desc, timed, res>>
tvars == <<armed, tpc, tcur>>
pvars == <<ppc, batch, cur, pmode>>
history == <<gen, clash, expired, carried, stale>>
vars == <<dvars, epoll, num_op, wvars, tvars, pvars, history>>

ASSUME NetpollAssumption ==
  /\ Bits = {"r", "w", "e"}
  /\ NULL \notin Waiters \cup Pollers \cup {Timer} \cup Descs
  /\ IsFiniteSet(Waiters)

Free == Descs \ live

-----------------------------------------------------------------------------
(* References and epoll.                                                   *)

\* coroc_refcnt_put: the last reference frees the descriptor.
Release(a) ==
  /\ count' = [count EXCEPT ![a] = @ - 1]
  /\ live' = IF count[a] = 1 THEN live \ {a} ELSE live

\* Seeded fault: __coroc_num_op is not decremented.
NumKept == num_op
NumLess == num_op - 1

\* __coroc_netpoll_rem: epoll finds the registration by the file descriptor.
Rem(a) ==
  /\ Release(a)
  /\ num_op' = NumLess
  /\ reg' = [reg EXCEPT ![fd[a]] = NULL]
  /\ pend' = [pend EXCEPT ![fd[a]] = {}]
  /\ UNCHANGED <<want, level>>

\* f becomes ready for b, or ready anew.
Edge(f, b) ==
  /\ level' = [level EXCEPT ![f] = @ \cup {b}]
  /\ pend' = IF reg[f] # NULL /\ b \in want[f] THEN [pend EXCEPT ![f] = @ \cup {b}] ELSE pend
  /\ UNCHANGED <<dvars, reg, want, num_op, wvars, tvars, pvars, history>>

-----------------------------------------------------------------------------
(* The waiter: coroc_net_wait and coroc_net_timedwait.                     *)

Goto(w, l) == wpc' = [wpc EXCEPT ![w] = l]

\* Seeded fault: no reference is taken for the deadline.
FirstCountShared(t) == 1
\* The count of a new descriptor: the waiter's reference and the deadline's.
FirstCount(t) == IF t THEN 2 ELSE 1

Begin(w, f, m, t) ==
  /\ wpc[w] = "run"
  /\ \E a \in Free :
       /\ live' = live \cup {a}
       /\ count' = [count EXCEPT ![a] = FirstCount(t)]
       /\ done' = [done EXCEPT ![a] = FALSE]
       /\ mode' = [mode EXCEPT ![a] = m]
       /\ fd' = [fd EXCEPT ![a] = f]
       /\ wait' = [wait EXCEPT ![a] = w]
       /\ lock' = [lock EXCEPT ![a] = w]
       /\ desc' = [desc EXCEPT ![w] = a]
       /\ gen' = [gen EXCEPT ![a] = @ + 1]
  /\ timed' = [timed EXCEPT ![w] = t]
  /\ Goto(w, "add")
  /\ expired' = expired \ {w} /\ carried' = carried \ {w}
  /\ UNCHANGED <<epoll, num_op, res, tvars, pvars, clash, stale>>

\* Seeded fault: readiness from before the registration is not reported.
NoEvents(f, m) == {}
\* What epoll reports at once for a new registration.
FirstEvents(f, m) == level[f] \cap (m \cup {"e"})

\* __coroc_netpoll_add.  Its failure, when f is registered already, is ignored.
Add(w) ==
  LET a == desc[w]
      f == fd[desc[w]]
  IN /\ wpc[w] = "add"
     /\ count' = [count EXCEPT ![a] = @ + 1]
     /\ num_op' = num_op + 1
     /\ \/ /\ reg[f] = NULL
           /\ reg' = [reg EXCEPT ![f] = a]
           /\ want' = [want EXCEPT ![f] = mode[a] \cup {"e"}]
           /\ pend' = [pend EXCEPT ![f] = FirstEvents(f, mode[a])]
           /\ UNCHANGED clash
        \/ /\ reg[f] # NULL
           /\ clash' = clash \cup {f}
           /\ UNCHANGED <<reg, want, pend>>
     /\ Goto(w, IF timed[w] THEN "deadline" ELSE "suspend")
     /\ UNCHANGED <<live, done, mode, fd, wait, lock, level, desc, timed, res, tvars,
                    pvars, gen, expired, carried, stale>>

\* coroc_add_intertimer, with the descriptor locked.
Deadline(w) ==
  /\ wpc[w] = "deadline" /\ tpc = "idle"
  /\ armed' = armed \cup {w}
  /\ Goto(w, "suspend")
  /\ UNCHANGED <<dvars, epoll, num_op, desc, timed, res, tpc, tcur, pvars, history>>

\* vpu_suspend releases the lock when the waiter's context is saved.
Suspend(w) ==
  /\ wpc[w] = "suspend"
  /\ lock' = [lock EXCEPT ![desc[w]] = NULL]
  /\ Goto(w, "wait")
  /\ UNCHANGED <<live, count, done, mode, fd, wait, epoll, num_op, desc, timed, res,
                 tvars, pvars, history>>

\* coroc_del_intertimer: a deadline that has not fired returns its reference.
DelDeadline(w) ==
  /\ wpc[w] = "ready" /\ timed[w] /\ tpc = "idle"
  /\ IF w \in armed THEN Release(desc[w]) ELSE UNCHANGED <<count, live>>
  /\ armed' = armed \ {w}
  /\ Goto(w, "finish")
  /\ UNCHANGED <<done, mode, fd, wait, lock, epoll, num_op, desc, timed, res, tpc, tcur,
                 pvars, history>>

\* The wait returns the mode.
Finish(w) ==
  /\ wpc[w] = "finish" \/ (wpc[w] = "ready" /\ ~timed[w])
  /\ res' = [res EXCEPT ![w] = mode[desc[w]]]
  /\ Release(desc[w])
  /\ desc' = [desc EXCEPT ![w] = NULL]
  /\ Goto(w, "run")
  /\ UNCHANGED <<done, mode, fd, wait, lock, epoll, num_op, timed, tvars, pvars, history>>

-----------------------------------------------------------------------------
(* The deadline: __coroc_netpoll_timeout, run by the timer daemon.         *)

Fire(w) ==
  /\ tpc = "idle" /\ w \in armed
  /\ tpc' = "check" /\ tcur' = w
  /\ UNCHANGED <<dvars, epoll, num_op, wvars, armed, pvars, history>>

\* The hazard checking of __coroc_netpoll_timeout.
TimeoutWins(a) == ~done[a]

\* Seeded fault: the mode is not reset.
ModeKept(a) == mode[a]
TimeoutMode(a) == {}

\* Under the descriptor's lock.
TimeoutCheck ==
  LET a == desc[tcur]
  IN /\ tpc = "check" /\ lock[a] = NULL
     /\ \/ /\ TimeoutWins(a)
           /\ done' = [done EXCEPT ![a] = TRUE]
           /\ mode' = [mode EXCEPT ![a] = TimeoutMode(a)]
           /\ Rem(a)
           /\ expired' = expired \cup {wait[a]}
           /\ tpc' = "wake"
        \/ /\ ~TimeoutWins(a)
           /\ tpc' = "put"
           /\ UNCHANGED <<live, count, done, mode, epoll, num_op, expired>>
     /\ UNCHANGED <<fd, wait, lock, wvars, armed, tcur, pvars, gen, clash, carried, stale>>

TimeoutWake ==
  /\ tpc = "wake"
  /\ Goto(wait[desc[tcur]], "ready")
  /\ tpc' = "put"
  /\ UNCHANGED <<dvars, epoll, num_op, desc, timed, res, armed, tcur, pvars, history>>

\* The reference is returned and the timer leaves the heap.
TimeoutPut ==
  /\ tpc = "put"
  /\ Release(desc[tcur])
  /\ armed' = armed \ {tcur}
  /\ tpc' = "idle" /\ tcur' = NULL
  /\ UNCHANGED <<done, mode, fd, wait, lock, epoll, num_op, wvars, pvars, history>>

-----------------------------------------------------------------------------
(* A poller: __coroc_netpoll_polling and coroc_netpoll_wakeup.             *)

PGoto(p, l) == ppc' = [ppc EXCEPT ![p] = l]

\* epoll_wait returns all pending events, each once: the triggering is by edge.
Poll(p) ==
  LET ready == {f \in Fds : pend[f] # {}}
  IN /\ ppc[p] = "idle" /\ ready # {}
     /\ batch' = [batch EXCEPT ![p] =
                    {[desc |-> reg[f], ev |-> pend[f], gen |-> gen[reg[f]]] : f \in ready}]
     /\ pend' = [f \in Fds |-> {}]
     /\ PGoto(p, "check")
     /\ UNCHANGED <<dvars, reg, want, level, num_op, wvars, tvars, cur, pmode, history>>

\* Seeded fault: READ is reported for either event.
ModeRead(m, a, ev) == IF "e" \in ev THEN {"e"} ELSE m \cup {"r"}
\* The mode that is reported; it is not reset between the events of a batch.
ModeOf(m, a, ev) == IF "e" \in ev THEN {"e"} ELSE m \cup (ev \cap mode[a])

\* Seeded fault: no hazard checking.
EventAlways(a) == TRUE
\* The hazard checking of __coroc_netpoll_polling.  The flag of a descriptor
\* that has been freed is still set, unless the address is in use again.
EventWins(a) == ~done[a]

\* The poller handles one of its events; the kernel's order is any order.
Check(p) ==
  /\ ppc[p] = "check"
  /\ \E e \in batch[p] :
       LET m == ModeOf(pmode[p], e.desc, e.ev)
       IN /\ batch' = [batch EXCEPT ![p] = @ \ {e}]
          /\ \/ /\ ~EventWins(e.desc)
                /\ UNCHANGED <<done, mode, ppc, cur, pmode, carried, stale>>
             \/ /\ EventWins(e.desc) /\ gen[e.desc] = e.gen
                /\ done' = [done EXCEPT ![e.desc] = TRUE]
                /\ mode' = [mode EXCEPT ![e.desc] = m]
                /\ pmode' = [pmode EXCEPT ![p] = m]
                /\ cur' = [cur EXCEPT ![p] = e.desc]
                /\ PGoto(p, "rem")
                /\ carried' = IF pmode[p] = {} THEN carried ELSE carried \cup {wait[e.desc]}
                /\ UNCHANGED stale
             \/ /\ EventWins(e.desc) /\ gen[e.desc] # e.gen
                /\ stale' = TRUE
                /\ UNCHANGED <<done, mode, ppc, cur, pmode, carried>>
  /\ UNCHANGED <<live, count, fd, wait, lock, epoll, num_op, wvars, tvars, gen, clash,
                 expired>>

\* __coroc_netpoll_rem, under the descriptor's lock.
Unregister(p) ==
  /\ ppc[p] = "rem" /\ lock[cur[p]] = NULL
  /\ Rem(cur[p])
  /\ PGoto(p, "wake")
  /\ UNCHANGED <<done, mode, fd, wait, lock, wvars, tvars, batch, cur, pmode, history>>

Wake(p) ==
  /\ ppc[p] = "wake"
  /\ Goto(wait[cur[p]], "ready")
  /\ cur' = [cur EXCEPT ![p] = NULL]
  /\ PGoto(p, "check")
  /\ UNCHANGED <<dvars, epoll, num_op, desc, timed, res, tvars, batch, pmode, history>>

PollEnds(p) ==
  /\ ppc[p] = "check" /\ batch[p] = {}
  /\ pmode' = [pmode EXCEPT ![p] = {}]
  /\ PGoto(p, "idle")
  /\ UNCHANGED <<dvars, epoll, num_op, wvars, tvars, batch, cur, history>>

-----------------------------------------------------------------------------
Init ==
  /\ live = {} /\ count = [a \in Descs |-> 0] /\ done = [a \in Descs |-> TRUE]
  /\ mode = [a \in Descs |-> {}] /\ fd = [a \in Descs |-> NULL]
  /\ wait = [a \in Descs |-> NULL] /\ lock = [a \in Descs |-> NULL]
  /\ reg = [f \in Fds |-> NULL] /\ want = [f \in Fds |-> {}]
  /\ level = [f \in Fds |-> {}] /\ pend = [f \in Fds |-> {}]
  /\ num_op = 0
  /\ wpc = [w \in Waiters |-> "run"] /\ desc = [w \in Waiters |-> NULL]
  /\ timed = [w \in Waiters |-> FALSE] /\ res = [w \in Waiters |-> {}]
  /\ armed = {} /\ tpc = "idle" /\ tcur = NULL
  /\ ppc = [p \in Pollers |-> "idle"] /\ batch = [p \in Pollers |-> {}]
  /\ cur = [p \in Pollers |-> NULL] /\ pmode = [p \in Pollers |-> {}]
  /\ gen = [a \in Descs |-> 0] /\ clash = {} /\ expired = {} /\ carried = {}
  /\ stale = FALSE

WaiterSteps(w) == Add(w) \/ Deadline(w) \/ Suspend(w) \/ DelDeadline(w) \/ Finish(w)
TimerSteps == TimeoutCheck \/ TimeoutWake \/ TimeoutPut
PollerSteps(p) == Poll(p) \/ Check(p) \/ Unregister(p) \/ Wake(p) \/ PollEnds(p)

\* What follows a mistaken descriptor is not modelled.
Next ==
  /\ ~stale
  /\ \/ \E w \in Waiters : WaiterSteps(w) \/ Fire(w)
     \/ \E w \in Waiters, f \in Fds, m \in {{"r"}, {"w"}}, t \in BOOLEAN : Begin(w, f, m, t)
     \/ \E f \in Fds, b \in Bits : Edge(f, b)
     \/ TimerSteps
     \/ \E p \in Pollers : PollerSteps(p)

Spec == Init /\ [][Next]_vars

-----------------------------------------------------------------------------
Typed ==
  /\ live \subseteq Descs /\ count \in [Descs -> Nat] /\ done \in [Descs -> BOOLEAN]
  /\ mode \in [Descs -> SUBSET Bits] /\ fd \in [Descs -> Fds \cup {NULL}]
  /\ wait \in [Descs -> Waiters \cup {NULL}] /\ lock \in [Descs -> Waiters \cup {NULL}]
  /\ reg \in [Fds -> Descs \cup {NULL}] /\ want \in [Fds -> SUBSET Bits]
  /\ level \in [Fds -> SUBSET Bits] /\ pend \in [Fds -> SUBSET Bits]
  /\ wpc \in [Waiters -> {"run", "add", "deadline", "suspend", "wait", "ready", "finish"}]
  /\ desc \in [Waiters -> Descs \cup {NULL}] /\ timed \in [Waiters -> BOOLEAN]
  /\ res \in [Waiters -> SUBSET Bits] /\ armed \subseteq Waiters
  /\ tpc \in {"idle", "check", "wake", "put"} /\ tcur \in Waiters \cup {NULL}
  /\ ppc \in [Pollers -> {"idle", "check", "rem", "wake"}]
  /\ batch \in [Pollers -> SUBSET [desc : Descs, ev : SUBSET Bits, gen : Nat]]
  /\ cur \in [Pollers -> Descs \cup {NULL}] /\ pmode \in [Pollers -> SUBSET Bits]
  /\ gen \in [Descs -> Nat] /\ clash \subseteq Fds /\ expired \subseteq Waiters
  /\ carried \subseteq Waiters /\ stale \in BOOLEAN

TypeOK == Typed /\ num_op \in Nat

\* The descriptor of w is registered and its winner has not removed it.
Registered(w) ==
  /\ wpc[w] \notin {"run", "add"}
  /\ \/ ~done[desc[w]]
     \/ \E p \in Pollers : ppc[p] = "rem" /\ cur[p] = desc[w]
\* A deadline holds a reference to the descriptor of w.
HasDeadline(w) == timed[w] /\ (wpc[w] \in {"add", "deadline"} \/ w \in armed)

One(b) == IF b THEN 1 ELSE 0

(* A descriptor is allocated exactly as long as its waiter uses it, and its count
   is exactly the waiter's reference, the registration's and the deadline's:
   it is neither freed while a poller or the timer is to use it nor leaked, and
   __coroc_netpoll_rem never drops the last reference, as its comment says
   (netpoll_epoll.c 45-48, netpoll.c 79, 108, 123, 134, 138). *)
RefExact ==
  /\ live = {desc[w] : w \in {v \in Waiters : desc[v] # NULL}}
  /\ \A w \in Waiters :
       desc[w] # NULL => count[desc[w]] = 1 + One(Registered(w)) + One(HasDeadline(w))

(* __coroc_netpoll_size is the number of waits whose event or deadline is still to
   come: the last VPU awake does not halt while there is one
   (vpu.c 313, netpoll_epoll.c 40, 49, 87). *)
SizeExact == num_op = Cardinality({w \in Waiters : Registered(w)})

(* Only one of the pollers and the deadline wakes a waiter, once, and when it
   calls vpu_ready the waiter is suspended, as vpu_ready asserts: the flag `done'
   decides the race and the lock keeps the winner back until the waiter is
   suspended (netpoll.c 71-74, 91-107, 145-164, netpoll_epoll.c 64-67). *)
OneWake ==
  /\ \A p \in Pollers : ppc[p] = "wake" => wpc[wait[cur[p]]] = "wait"
  /\ tpc = "wake" => wpc[wait[desc[tcur]]] = "wait"
  /\ \A p, q \in Pollers : p # q /\ cur[p] # NULL => cur[p] # cur[q]
  /\ \A p \in Pollers : tpc = "wake" => cur[p] # desc[tcur]

(* A wait returns 0 exactly if its deadline has won: a waiter that an event
   woke is never told of a timeout, nor the other way round
   (netpoll.c 96, netpoll_epoll.c 69-80). *)
ZeroMeansTimeout ==
  \A w \in Waiters : wpc[w] \in {"ready", "finish"} =>
    (mode[desc[w]] = {} <=> w \in expired)

\* w waits for an event of a file descriptor that is ready for it.
Awaited(w) ==
  LET a == desc[w]
  IN /\ wpc[w] \in {"deadline", "suspend", "wait"} /\ ~done[a] /\ fd[a] \notin clash
     /\ level[fd[a]] \cap (mode[a] \cup {"e"}) # {}
\* epoll has an event of w pending, or a poller has it in hand.
Coming(w) ==
  LET a == desc[w]
  IN \/ reg[fd[a]] = a /\ pend[fd[a]] # {}
     \/ \E p \in Pollers : \E e \in batch[p] : e.desc = a /\ e.gen = gen[a]

(* An event that a waiter waits for is not lost: while the file descriptor is
   ready, epoll has it pending or a poller has it in hand, also if it became
   ready between the failed read and the registration.  Excepted are file
   descriptors that two coroutines have waited for at a time: the registration of
   the second one fails unnoticed, and the end of either wait removes the
   other's (netpoll_epoll.c 35, 41, 50). *)
EventNotLost == \A w \in Waiters : Awaited(w) => Coming(w)

-----------------------------------------------------------------------------
(* The inductive invariants: NInv behind RefExact, SizeExact and OneWake, EInv  *)
(* behind ZeroMeansTimeout and EventNotLost.                                *)

\* Waiters and the descriptors that are allocated belong together one to one.
Owners ==
  /\ \A w \in Waiters : wpc[w] = "run" <=> desc[w] = NULL
  /\ \A w \in Waiters : desc[w] # NULL =>
       desc[w] \in live /\ wait[desc[w]] = w /\ fd[desc[w]] \in Fds
  /\ \A a \in live : wait[a] \in Waiters /\ desc[wait[a]] = a
  /\ \A a \in Descs \ live : done[a]

\* The lock is held until the waiter is suspended, and the flag is set when it is woken.
Stages ==
  \A w \in Waiters :
    /\ wpc[w] \in {"add", "deadline", "suspend"} => lock[desc[w]] = w
    /\ wpc[w] = "add" => ~done[desc[w]]
    /\ wpc[w] = "deadline" => timed[w]
    /\ wpc[w] \in {"ready", "finish"} => done[desc[w]]

\* Deadlines in the heap, and the one that the timer daemon fires.
Deadlines ==
  /\ \A w \in armed : timed[w] /\ wpc[w] \in {"suspend", "wait", "ready"}
  /\ tpc # "idle" => tcur \in armed

\* The winner of the race for a waiter.
Winners ==
  /\ \A p \in Pollers : cur[p] # NULL <=> ppc[p] \in {"rem", "wake"}
  /\ \A p \in Pollers : cur[p] # NULL =>
       /\ cur[p] \in live /\ done[cur[p]]
       /\ wpc[wait[cur[p]]] \in {"deadline", "suspend", "wait"}
       /\ ppc[p] = "wake" => wpc[wait[cur[p]]] = "wait"
  /\ \A p, q \in Pollers : p # q /\ cur[p] # NULL => cur[p] # cur[q]
  /\ tpc = "wake" => /\ done[desc[tcur]] /\ wpc[tcur] = "wait"
                     /\ \A p \in Pollers : cur[p] # desc[tcur]

\* What epoll has registered and what pollers have taken from it.
Events ==
  /\ \A f \in Fds : reg[f] # NULL =>
       reg[f] \in live /\ fd[reg[f]] = f /\ Registered(wait[reg[f]])
  /\ \A f \in Fds : pend[f] # {} => reg[f] # NULL
  /\ \A p \in Pollers : \A e \in batch[p] :
       /\ e.gen <= gen[e.desc]
       /\ e.gen = gen[e.desc] /\ ~done[e.desc] => wpc[wait[e.desc]] # "add"

Counts ==
  \A w \in Waiters :
    desc[w] # NULL => count[desc[w]] = 1 + One(Registered(w)) + One(HasDeadline(w))

NInv == Typed /\ Owners /\ Stages /\ Deadlines /\ Winners /\ Events /\ Counts

\* What is to be reported, to whom, and what has been.
Reports ==
  /\ \A w \in Waiters : desc[w] # NULL /\ ~done[desc[w]] =>
       mode[desc[w]] # {} /\ w \notin expired
  /\ \A w \in Waiters : desc[w] # NULL /\ done[desc[w]] =>
       (mode[desc[w]] = {} <=> w \in expired)
  /\ \A f \in Fds : /\ pend[f] \subseteq want[f]
                    /\ reg[f] # NULL /\ ~done[reg[f]] => want[f] = mode[reg[f]] \cup {"e"}
  /\ \A p \in Pollers :
       /\ ppc[p] = "idle" => batch[p] = {}
       /\ \A e \in batch[p] :
            /\ e.ev # {}
            /\ e.gen = gen[e.desc] /\ ~done[e.desc] => e.ev \subseteq mode[e.desc] \cup {"e"}

\* A registration that nothing has disturbed is still epoll's.
Undisturbed ==
  \A w \in Waiters : Registered(w) /\ fd[desc[w]] \notin clash => reg[fd[desc[w]]] = desc[w]

EInv == Reports /\ Undisturbed /\ EventNotLost
=============================================================================
