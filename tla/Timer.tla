------------------------------- MODULE Timer -------------------------------
(***************************************************************************)
(* Timers: src/time.c, src/notify.c.  Every started timer is in a binary   *)
(* heap ordered by its time.  A daemon coroutine fires the timers that are  *)
(* due and then sleeps in the asynchronous pool until the earliest one, or  *)
(* until a notification.  Heap and daemon state are under one spin lock,    *)
(* which the daemon keeps while it runs a timer's callback.                 *)
(*                                                                         *)
(* A coroutine keeps its VPU while it spins; it gives it up when it waits   *)
(* or is preempted by vpu_ready.                                            *)
(***************************************************************************)
EXTENDS Integers, Sequences, FiniteSets, Functions

CONSTANTS
  Users,      \* the coroutines that use timers
  Daemon,     \* the coroutine of coroc_intertimer_routine
  Timers,     \* all timers
  OnStack,    \* the timers that live in a frame of coroc_udelay
  Period,     \* the period of each timer; 0 for a timer that fires once
  Delays,     \* how far ahead a timer is set
  Starts,     \* the situations in which a behaviour may begin: heap and users' calls
  K,          \* number of VPUs
  Horizon,    \* the clock stops here
  FreedPeriods, \* what `period' may read as in a frame that is gone
  NULL

VARIABLES
  now,        \* coroc_getmicrotime
  timers,     \* the heap: manager.timers, slots 0 to manager.size - 1
  when,       \* timer->when
  index,      \* timer->index
  mlock,      \* holder of manager.lock
  suspend,    \* manager.suspend
  key,        \* manager.note.key
  dpc,        \* where the daemon is
  dnow,       \* the daemon's variable `now'
  left,       \* how long the daemon means to sleep
  deadline,   \* when its sleep ends
  cur,        \* the timer that it fires
  upc,        \* where each user is
  job,        \* the call that it makes: kind, timer and time
  todo,       \* the calls that it is still to make
  full,       \* timers with a time in their channel's buffer
  alive,      \* timers whose memory is valid
  run,        \* coroutines on a VPU
  parked,     \* ready coroutines without one
  armed,      \* history: timers that are started and neither fired nor stopped
  emptied,    \* history: the heap has been empty since the daemon chose its sleep
  misordered  \* history: a deletion has left a timer above an earlier one

hvars == <<timers, index>>
dvars == <<dpc, dnow, left, deadline, cur>>
uvars == <<upc, job, todo>>
vpus == <<run, parked>>
history == <<armed, emptied, misordered>>
vars == <<now, timers, when, index, mlock, suspend, key, dpc, dnow, left,
          deadline, cur, upc, job, todo, full, alive, run, parked, armed,
          emptied, misordered>>

Actors == Users \cup {Daemon}
size == Cardinality(DOMAIN timers)
Kinds == {"after", "stop", "reset", "dealloc", "udelay", "recv"}
Jobs == [kind : Kinds \cup {"none"}, timer : Timers \cup {NULL}, at : Nat]

ASSUME TimerAssumption ==
  /\ K \in Nat \ {0}
  /\ Delays \subseteq Nat \ {0}
  /\ Period \in [Timers -> Nat]
  /\ \A t \in OnStack : Period[t] = 0
  /\ Daemon \notin Users

-----------------------------------------------------------------------------
(* The heap, as operators on [h |-> heap, ix |-> index].                   *)

\* Seeded fault: the index fields stay as they were.
ExchangeNoIndex(s, i, j) ==
  [s EXCEPT !.h = [@ EXCEPT ![i] = s.h[j], ![j] = s.h[i]]]

Exchange(s, i, j) ==
  [h  |-> [s.h EXCEPT ![i] = s.h[j], ![j] = s.h[i]],
   ix |-> [s.ix EXCEPT ![s.h[i]] = j, ![s.h[j]] = i]]

\* The earlier child of i, which has one.
EarlierChild(s, i, w) ==
  LET l == 2 * i + 1
      r == l + 1
  IN IF r \notin DOMAIN s.h \/ w[s.h[l]] < w[s.h[r]] THEN l ELSE r

RECURSIVE DownAdjust(_, _, _), UpAdjust(_, _, _)

\* __down_adjust_heap: sink the timer at position i.
DownAdjust(s, i, w) ==
  LET c == EarlierChild(s, i, w)
  IN IF 2 * i + 1 \in DOMAIN s.h /\ w[s.h[c]] < w[s.h[i]]
     THEN DownAdjust(Exchange(s, i, c), c, w)
     ELSE s

\* __up_adjust_heap: let the timer at position i rise.
UpAdjust(s, i, w) ==
  LET parent == (i - 1) \div 2
  IN IF i > 0 /\ w[s.h[i]] < w[s.h[parent]]
     THEN UpAdjust(Exchange(s, i, parent), parent, w)
     ELSE s

Prefix(h, n) == [i \in 0 .. n - 1 |-> h[i]]

\* Insertion by coroc_add_intertimer.
Insert(s, t, w) ==
  LET n == Cardinality(DOMAIN s.h)
  IN UpAdjust([h  |-> [i \in 0 .. n |-> IF i = n THEN t ELSE s.h[i]],
               ix |-> [s.ix EXCEPT ![t] = n]], n, w)

\* coroc_del_intertimer, and the daemon for the root: the last timer takes
\* position i and sinks.
RemoveAt(s, i, w) ==
  LET n == Cardinality(DOMAIN s.h) - 1
      moved == [s.h EXCEPT ![i] = s.h[n]]
  IN DownAdjust([h |-> Prefix(moved, n), ix |-> [s.ix EXCEPT ![moved[i]] = i]], i, w)

HeapOf(s) == timers' = s.h /\ index' = s.ix
TheHeap == [h |-> timers, ix |-> index]

\* The condition under which coroc_del_intertimer removes t.
InHeap(t) == index[t] \in DOMAIN timers /\ timers[index[t]] = t

\* Every timer is no earlier than its parent.
Ordered(h, w) == \A i \in DOMAIN h \ {0} : w[h[(i - 1) \div 2]] <= w[h[i]]

-----------------------------------------------------------------------------
(* VPUs.                                                                   *)

\* a gives up its VPU, which takes a ready coroutine if there is one; q is the
\* set of ready coroutines then.
GiveUp(a, q) ==
  IF q = {} THEN run' = run \ {a} /\ parked' = {}
  ELSE \E b \in q : run' = (run \ {a}) \cup {b} /\ parked' = q \ {b}

\* vpu_ready: b runs when a VPU is free.
MakeReady(b) ==
  IF Cardinality(run) < K
  THEN run' = run \cup {b} /\ UNCHANGED parked
  ELSE parked' = parked \cup {b} /\ UNCHANGED run

\* vpu_ready(daemon, true) by u, whose priority is lower: if all VPUs are
\* busy, the daemon takes the VPU of u, which goes to the end of the queue.
Preempt(u) ==
  IF Cardinality(run) < K
  THEN run' = run \cup {Daemon} /\ UNCHANGED parked
  ELSE run' = (run \ {u}) \cup {Daemon} /\ parked' = parked \cup {u}

-----------------------------------------------------------------------------
(* The users' calls.                                                       *)

Goto(u, l) == upc' = [upc EXCEPT ![u] = l]
Idle == [kind |-> "none", timer |-> NULL, at |-> 0]

\* The call of u is over.
Done(u) == Goto(u, "idle") /\ job' = [job EXCEPT ![u] = Idle]
\* The call of u goes on at l.
Continue(u, l) == Goto(u, l) /\ UNCHANGED job

\* A user begins its next call; at is the time it passes, or 0.
Call(u, kind, t, at, l) ==
  /\ u \in run /\ upc[u] = "idle"
  /\ todo[u] # <<>> /\ Head(todo[u]) = [kind |-> kind, timer |-> t]
  /\ todo' = [todo EXCEPT ![u] = Tail(@)]
  /\ job' = [job EXCEPT ![u] = [kind |-> kind, timer |-> t, at |-> at]]
  /\ Goto(u, l)
  /\ UNCHANGED <<now, timers, index, mlock, suspend, key, dvars, full, vpus, history>>

\* The daemon has fired t, which is not periodic, and has yet to remove it.
JustFired(t) == dpc = "fired" /\ cur = t /\ Period[t] = 0

\* coroc_timer_after and coroc_timer_at, for a timer that is not running.
After(u, t) ==
  /\ t \in alive \ OnStack
  /\ t \in armed => JustFired(t)
  /\ \E d \in Delays : /\ Call(u, "after", t, 0, "start")
                       /\ when' = [when EXCEPT ![t] = now + d]
  /\ UNCHANGED alive

\* coroc_timer_stop, and coroc_timer_dealloc, which begins with it.
Stop(u, t) ==
  /\ t \in alive \ OnStack
  /\ \E k \in {"stop", "dealloc"} : Call(u, k, t, 0, "del")
  /\ UNCHANGED <<when, alive>>

\* coroc_timer_reset.
Reset(u, t) ==
  /\ t \in alive \ OnStack
  /\ \E d \in Delays : Call(u, "reset", t, now + d, "del")
  /\ UNCHANGED <<when, alive>>

\* coroc_chan_recv on the timer.
Receive(u, t) ==
  /\ t \in alive \ OnStack
  /\ Call(u, "recv", t, 0, "recv")
  /\ UNCHANGED <<when, alive>>

\* coroc_udelay: a timer in the frame of the call.
Udelay(u, t) ==
  /\ t \in OnStack
  /\ \E d \in Delays : /\ Call(u, "udelay", t, 0, "start")
                       /\ when' = [when EXCEPT ![t] = now + d]
  /\ alive' = alive \cup {t}

\* Where a call goes on after coroc_timer_start.
Started(u) == IF job[u].kind = "udelay" THEN Continue(u, "recv") ELSE Done(u)

\* coroc_timer_start: a time that has passed is sent at once.
Start(u) ==
  LET t == job[u].timer
  IN /\ u \in run /\ upc[u] = "start"
     /\ \/ /\ when[t] > now
           /\ Continue(u, "add")
           /\ UNCHANGED <<full, vpus>>
        \/ /\ when[t] <= now /\ t \notin full
           /\ full' = full \cup {t}
           /\ Started(u)
           /\ UNCHANGED vpus
        \/ /\ when[t] <= now /\ t \in full
           /\ Continue(u, "sendwait")
           /\ GiveUp(u, parked)
           /\ UNCHANGED full
     /\ UNCHANGED <<now, hvars, when, mlock, suspend, key, dvars, todo, alive, history>>

\* Seeded faults: no notification; a count of notifications.
NoNotification == key
\* coroc_notify_wakeup, unless the heap was empty.
Notification == IF size = 0 THEN key ELSE 1

\* Seeded fault: `suspend' stays set when the daemon is made ready.
SuspendKept == suspend
SuspendCleared == FALSE

\* Seeded fault: the suspended daemon is not made ready.
ForgetDaemon(u) == Started(u)
\* The call goes on with vpu_ready of the suspended daemon.
WakeDaemon(u) == Continue(u, "ready")

\* coroc_add_intertimer, under the lock.  The first timer of all creates the
\* daemon with the lock held; one that finds the heap empty readies a
\* suspended daemon, and does nothing if the daemon sleeps; any other one
\* sends a notification.
Add(u) ==
  LET t == job[u].timer
  IN /\ u \in run /\ upc[u] = "add" /\ mlock = NULL
     /\ HeapOf(Insert(TheHeap, t, when))
     /\ armed' = armed \cup {t}
     /\ \/ dpc = "none" /\ mlock' = u /\ Continue(u, "create") /\ UNCHANGED <<suspend, key>>
        \/ /\ dpc # "none" /\ size = 0 /\ suspend
           /\ suspend' = SuspendCleared /\ WakeDaemon(u) /\ UNCHANGED <<mlock, key>>
        \/ /\ dpc # "none" /\ ~(size = 0 /\ suspend)
           /\ key' = Notification /\ Started(u) /\ UNCHANGED <<mlock, suspend>>
     /\ UNCHANGED <<now, when, dvars, todo, full, alive, vpus, emptied, misordered>>

\* coroc_intertimer_start: vpu_ready of the new daemon, with the lock held.
Create(u) ==
  /\ u \in run /\ upc[u] = "create"
  /\ dpc' = "lock"
  /\ Preempt(u)
  /\ Continue(u, "created")
  /\ UNCHANGED <<now, hvars, when, mlock, suspend, key, dnow, left, deadline, cur,
                 todo, full, alive, history>>

Created(u) ==
  /\ u \in run /\ upc[u] = "created"
  /\ mlock' = NULL
  /\ Started(u)
  /\ UNCHANGED <<now, hvars, when, suspend, key, dvars, todo, full, alive, vpus, history>>

\* vpu_ready of the suspended daemon, after the lock has been released.
ReadyDaemon(u) ==
  /\ u \in run /\ upc[u] = "ready"
  /\ dpc' = "lock"
  /\ Preempt(u)
  /\ Started(u)
  /\ UNCHANGED <<now, hvars, when, mlock, suspend, key, dnow, left, deadline, cur,
                 todo, full, alive, history>>

\* Seeded fault: coroc_timer_dealloc frees the timer without waiting for the lock.
DeallocNoStop(u) ==
  /\ u \in run /\ upc[u] = "del" /\ (mlock = NULL \/ job[u].kind = "dealloc")

\* coroc_del_intertimer spins for the lock.
DelLocks(u) == u \in run /\ upc[u] = "del" /\ mlock = NULL

\* coroc_del_intertimer, and what its callers do next: coroc_timer_dealloc
\* frees the timer, coroc_timer_reset sets it again.
Del(u) ==
  LET t == job[u].timer
      s == IF InHeap(t) THEN RemoveAt(TheHeap, index[t], when) ELSE TheHeap
  IN /\ DelLocks(u)
     /\ HeapOf(s)
     /\ armed' = armed \ {t}
     /\ emptied' = (emptied \/ (InHeap(t) /\ size = 1))
     /\ misordered' = (misordered \/ ~Ordered(s.h, when))
     /\ alive' = IF job[u].kind = "dealloc" THEN alive \ {t} ELSE alive
     /\ when' = IF job[u].kind = "reset" THEN [when EXCEPT ![t] = job[u].at] ELSE when
     /\ IF job[u].kind = "reset" THEN Continue(u, "start") ELSE Done(u)
     /\ UNCHANGED <<now, mlock, suspend, key, dvars, todo, full, vpus>>

\* A call returns; the frame of coroc_udelay goes with it.
Return(u) ==
  /\ Done(u)
  /\ alive' = alive \ (OnStack \cap {job[u].timer})

\* coroc_chan_recv on a timer's channel: from the buffer, else from the daemon
\* that waits to send, else by waiting.
Recv(u) ==
  LET t == job[u].timer
  IN /\ u \in run /\ upc[u] = "recv"
     /\ \/ /\ t \in full
           /\ full' = full \ {t}
           /\ Return(u)
           /\ UNCHANGED <<dpc, vpus>>
        \/ /\ t \notin full /\ dpc = "sendwait" /\ cur = t
           /\ dpc' = "fired" /\ MakeReady(Daemon)
           /\ Return(u)
           /\ UNCHANGED full
        \/ /\ t \notin full /\ ~(dpc = "sendwait" /\ cur = t)
           /\ Continue(u, "recvwait") /\ GiveUp(u, parked)
           /\ UNCHANGED <<dpc, full, alive>>
     /\ UNCHANGED <<now, hvars, when, mlock, suspend, key, dnow, left, deadline, cur,
                    todo, history>>

Received(u) ==
  /\ u \in run /\ upc[u] = "got"
  /\ Return(u)
  /\ UNCHANGED <<now, hvars, when, mlock, suspend, key, dvars, todo, full, vpus, history>>

-----------------------------------------------------------------------------
(* The daemon: coroc_intertimer_routine.                                   *)

DaemonLock ==
  /\ Daemon \in run /\ dpc = "lock" /\ mlock = NULL
  /\ mlock' = Daemon
  /\ dnow' = now
  /\ dpc' = "scan"
  /\ UNCHANGED <<now, hvars, when, suspend, key, left, deadline, cur, uvars, full,
                 alive, vpus, history>>

\* The first timer is due: coroc_send_timer sends its time on its channel, to a
\* waiting receiver, into the buffer, or by waiting, with the lock held.
DaemonFire ==
  LET t == timers[0]
      waiting == {u \in Users : upc[u] = "recvwait" /\ job[u].timer = t}
  IN /\ Daemon \in run /\ dpc = "scan"
     /\ size > 0 /\ when[timers[0]] <= dnow
     /\ cur' = t
     /\ \/ \E u \in waiting : /\ Goto(u, "got") /\ MakeReady(u)
                              /\ dpc' = "fired" /\ UNCHANGED full
        \/ /\ waiting = {} /\ t \notin full
           /\ full' = full \cup {t}
           /\ dpc' = "fired" /\ UNCHANGED <<upc, vpus>>
        \/ /\ waiting = {} /\ t \in full
           /\ dpc' = "sendwait" /\ GiveUp(Daemon, parked)
           /\ UNCHANGED <<upc, full>>
     /\ UNCHANGED <<now, hvars, when, mlock, suspend, key, dnow, left, deadline, job,
                    todo, alive, history>>

\* After the callback: the timer is removed, or set to its next time.  Its
\* fields are read even if the receiver has gone and its frame with it.
DaemonFired ==
  /\ Daemon \in run /\ dpc = "fired"
  /\ \E p \in IF cur \in alive THEN {Period[cur]} ELSE FreedPeriods :
       IF p = 0
       THEN LET s == RemoveAt(TheHeap, 0, when)
            IN /\ HeapOf([s EXCEPT !.ix[cur] = -1])
               /\ armed' = armed \ {cur}
               /\ UNCHANGED when
       ELSE LET w == [when EXCEPT ![cur] = dnow + p]
            IN /\ when' = w
               /\ HeapOf(DownAdjust(TheHeap, 0, w))
               /\ UNCHANGED armed
  /\ dpc' = "scan"
  /\ cur' = NULL
  /\ UNCHANGED <<now, mlock, suspend, key, dnow, left, deadline, uvars, full, alive,
                 vpus, emptied, misordered>>

\* No timers: suspend, releasing the lock.
DaemonSuspend ==
  /\ Daemon \in run /\ dpc = "scan" /\ size = 0
  /\ suspend' = TRUE
  /\ mlock' = NULL
  /\ dpc' = "suspended"
  /\ dnow' = 0
  /\ GiveUp(Daemon, parked)
  /\ UNCHANGED <<now, hvars, when, key, left, deadline, cur, uvars, full, alive, history>>

\* Release the lock to sleep until the first timer.
DaemonRelease ==
  /\ Daemon \in run /\ dpc = "scan" /\ size > 0 /\ when[timers[0]] > dnow
  /\ left' = when[timers[0]] - dnow
  /\ emptied' = FALSE
  /\ mlock' = NULL
  /\ dpc' = "submit"
  /\ UNCHANGED <<now, hvars, when, suspend, key, dnow, deadline, cur, uvars, full, alive,
                 vpus, armed, misordered>>

\* coroc_notify_tsleep_u: the pool begins to sleep on the notification.
DaemonSleep ==
  /\ Daemon \in run /\ dpc = "submit"
  /\ deadline' = now + left
  /\ dpc' = "asleep"
  /\ GiveUp(Daemon, parked)
  /\ UNCHANGED <<now, hvars, when, mlock, suspend, key, dnow, left, cur, uvars, full,
                 alive, history>>

\* __coroc_notify_tsleep returns when notified or at its deadline (at the
\* horizon, time is taken to go on), and the pool readies the daemon.
SleepEnds ==
  /\ dpc = "asleep"
  /\ key # 0 \/ now >= deadline \/ now = Horizon
  /\ dpc' = "clear"
  /\ MakeReady(Daemon)
  /\ UNCHANGED <<now, hvars, when, mlock, suspend, key, dnow, left, deadline, cur, uvars,
                 full, alive, history>>

\* coroc_notify_clear.
DaemonClear ==
  /\ Daemon \in run /\ dpc = "clear"
  /\ key' = 0
  /\ dpc' = "lock"
  /\ dnow' = 0 /\ left' = 0 /\ deadline' = 0
  /\ UNCHANGED <<now, hvars, when, mlock, suspend, cur, uvars, full, alive, vpus, history>>

Tick ==
  /\ now < Horizon
  /\ now' = now + 1
  /\ UNCHANGED <<hvars, when, mlock, suspend, key, dvars, uvars, full, alive, vpus, history>>

-----------------------------------------------------------------------------
\* A behaviour begins with the heap empty and no daemon, or after some timers
\* have been added and the daemon has been created.
Init ==
  \E s \in Starts :
    /\ now = 0
    /\ timers = s.heap
    /\ when = s.when
    /\ index = [t \in Timers |-> IF t \in Range(s.heap)
                                 THEN CHOOSE i \in DOMAIN s.heap : s.heap[i] = t ELSE -1]
    /\ mlock = NULL /\ suspend = FALSE /\ key = 0
    /\ dpc = (IF s.heap = <<>> THEN "none" ELSE "lock")
    /\ dnow = 0 /\ left = 0 /\ deadline = 0 /\ cur = NULL
    /\ upc = [u \in Users |-> "idle"]
    /\ job = [u \in Users |-> Idle]
    /\ todo = s.calls
    /\ full = {}
    /\ alive = s.alive
    /\ run = (IF s.heap = <<>> THEN Users ELSE Actors)
    /\ parked = {}
    /\ armed = Range(s.heap)
    /\ emptied = FALSE /\ misordered = FALSE

UserCalls(u) ==
  \E t \in Timers : After(u, t) \/ Stop(u, t) \/ Reset(u, t) \/ Receive(u, t) \/ Udelay(u, t)
UserSteps(u) ==
  \/ Start(u) \/ Add(u) \/ Create(u) \/ Created(u) \/ ReadyDaemon(u)
  \/ Del(u) \/ Recv(u) \/ Received(u)
DaemonSteps ==
  \/ DaemonLock \/ DaemonFire \/ DaemonFired \/ DaemonSuspend
  \/ DaemonRelease \/ DaemonSleep \/ DaemonClear

Next ==
  \/ \E u \in Users : UserCalls(u) \/ UserSteps(u)
  \/ DaemonSteps \/ SleepEnds \/ Tick

Spec == Init /\ [][Next]_vars

\* Every coroutine on a VPU runs, sleeps end and time goes on.
FairSpec ==
  /\ Spec
  /\ \A u \in Users : WF_vars(UserSteps(u))
  /\ WF_vars(DaemonSteps) /\ WF_vars(SleepEnds) /\ WF_vars(Tick)

-----------------------------------------------------------------------------
TypeOK ==
  /\ now \in 0 .. Horizon
  /\ Range(timers) \subseteq Timers /\ DOMAIN timers = 0 .. size - 1
  /\ when \in [Timers -> Nat] /\ index \in [Timers -> -1 .. Cardinality(Timers) - 1]
  /\ mlock \in Actors \cup {NULL} /\ suspend \in BOOLEAN /\ key \in {0, 1}
  /\ dpc \in {"none", "lock", "scan", "sendwait", "fired", "suspended", "submit",
              "asleep", "clear"}
  /\ dnow \in Nat /\ left \in Nat /\ deadline \in Nat /\ cur \in Timers \cup {NULL}
  /\ upc \in [Users -> {"idle", "start", "sendwait", "add", "create", "created", "ready",
                        "del", "recv", "recvwait", "got"}]
  /\ job \in [Users -> Jobs] /\ todo \in [Users -> Seq([kind : Kinds, timer : Timers])]
  /\ full \subseteq Timers /\ alive \subseteq Timers /\ armed \subseteq Timers
  /\ run \subseteq Actors /\ parked \subseteq Actors /\ Cardinality(run) <= K
  /\ emptied \in BOOLEAN /\ misordered \in BOOLEAN

(* The heap holds exactly the timers that were started and have neither fired
   nor been stopped, each once, and every timer knows its place: a stop that
   returns has taken the timer out (time.c 120-166, 240-308). *)
HeapExact ==
  /\ IsInjective(timers) /\ Range(timers) = armed
  /\ \A i \in DOMAIN timers : index[timers[i]] = i

(* While the daemon is about to sleep or asleep and has not been notified, no
   timer in the heap is due before the time the daemon chose, so that no timer
   is overslept.  Excepted are the heap that deletions have emptied since: the
   next timer then finds it empty and sends no notification (time.c 265-274);
   and a misordered heap. *)
SleepCovers ==
  dpc \in {"submit", "asleep"} /\ key = 0 /\ ~emptied /\ ~misordered
    => \A t \in armed : dnow + left <= when[t]

(* A suspended daemon is made ready exactly when there is a timer: if the heap is
   not empty then one coroutine is about to call vpu_ready, and whoever is
   finds the daemon waiting, as vpu_ready asserts (time.c 209-212, 265-273). *)
SuspendedDaemonWoken ==
  /\ dpc = "suspended" /\ ~suspend => \E u \in Users : upc[u] = "ready"
  /\ dpc = "suspended" /\ suspend => size = 0
  /\ \A u, v \in Users : upc[u] = "ready" /\ upc[v] = "ready" => u = v
  /\ \A u \in Users : upc[u] = "ready" => dpc = "suspended"

(* The daemon uses no freed timer: coroc_timer_dealloc waits for the lock that
   the daemon holds while it fires.  Excepted is the timer in the frame of
   coroc_udelay between the callback that lets coroc_udelay return and the
   removal of the timer (time.c 187-196, 310-315). *)
LiveTimers ==
  /\ dpc \in {"fired", "sendwait"} => cur \in alive \cup OnStack
  /\ \A t \in armed : t \in alive \/ (t \in OnStack /\ dpc = "fired" /\ cur = t)

(* Every timer that is due fires or is stopped: when the users have made their
   calls, no timer stays in the heap past its time, unless the daemon waits to
   send the time of a timer whose buffer is full (time.c 28, 182-206). *)
TimersFire == <>[](dpc = "sendwait" \/ \A t \in armed : when[t] > now)

-----------------------------------------------------------------------------
Spinning(a) ==
  a \in run /\ mlock # NULL /\ (IF a = Daemon THEN dpc = "lock" ELSE upc[a] \in {"add", "del"})

(* Some VPU can always go on: it never happens that all of them spin for the
   manager's lock while its holder waits for a VPU (time.c 263-264, 270:
   "must release the lock before calling `vpu_ready()' !!"). *)
NoSpinDeadlock ==
  mlock # NULL /\ mlock \notin run /\ Cardinality(run) = K => \E a \in run : ~Spinning(a)
=============================================================================
