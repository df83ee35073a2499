----------------------------- MODULE Scheduler -----------------------------
(***************************************************************************)
(* The VPU scheduler (src/vpu.c): how VPUs look for ready coroutines, when *)
(* they go to sleep and who wakes them.  The interplay of the shared       *)
(* counters (total_ready, ready[], total_iowait, alive, idle), which are   *)
(* updated one atomic operation at a time, with the critical sections of   *)
(* vpu_manager.lock and its condition variable is modelled step by step.   *)
(*                                                                         *)
(* A run queue operation is one step here: module RunQueue shows that the  *)
(* queues behave as a pool.  Of the coroutines we keep how they stop       *)
(* running: they yield, wait for another coroutine (plain), for a thread   *)
(* of the asynchronous pool (async) or for the network (net), or exit.     *)
(***************************************************************************)
EXTENDS Integers, FiniteSets

CONSTANTS
  Vpus,         \* the OS threads that run coroutines
  Pool,         \* the threads of the asynchronous pool
  Tasks,        \* the coroutines
  Main,         \* the coroutine whose exit ends the program
  NULL,
  Prios,        \* 0..n: the priority levels, 0 is the highest
  Prio,         \* the priority of each coroutine
  Kinds,        \* the ways of waiting the coroutines use
  FreedReads,   \* what reading the async_wait flag of freed memory may give
  MaxStops,     \* bound: how often a coroutine yields or waits
  Word          \* the range of the counters, 2^32 in the code

ASSUME SchedulerAssumption ==
  /\ IsFiniteSet(Vpus) /\ Vpus # {}
  /\ Main \in Tasks
  /\ NULL \notin Vpus \cup Pool \cup Tasks
  /\ Prio \in [Tasks -> Prios]
  /\ Kinds \subseteq {"yield", "plain", "async", "net"}
  /\ FreedReads \subseteq BOOLEAN /\ FreedReads # {}
  /\ MaxStops \in Nat
  /\ Word \in Nat /\ Word > 2 * Cardinality(Vpus) + Cardinality(Tasks)

VARIABLES
  status, current, budget, halted,                    \* the coroutines
  rq, gq,                                             \* the run queues
  total_ready, ready, total_iowait, alive, idle,      \* the counters
  mlock,                                              \* vpu_manager.lock
  waits,        \* what each coroutine waits for
  async_wait,   \* the coroutines with the async_wait flag
  fired,        \* the coroutines whose network event has happened
  batch,        \* the events that epoll_wait returned to each VPU
  traced,       \* the coroutines with the backtrace flag
  pc, prio, loops, arg    \* VPUs and pool threads: location and locals

coroutines == <<status, current, budget, halted>>
queues == <<rq, gq>>
counters == <<total_ready, ready, total_iowait, alive, idle>>
events == <<waits, async_wait, fired, batch, traced>>
threads == <<pc, prio, loops, arg>>
vars == <<coroutines, queues, counters, mlock, events, threads>>

Actors == Vpus \cup Pool
N == Cardinality(Vpus)
Queued == gq \cup UNION {rq[v] : v \in Vpus}

Inc(x) == (x + 1) % Word
Dec(x) == (x - 1) % Word

Goto(x, l) == pc' = [pc EXCEPT ![x] = l]
Jump(x, from, to) == ~halted /\ pc[x] = from /\ Goto(x, to)

\* The coroutine at hand, and where vpu_ready returns to.
NoArg == [task |-> NULL, ret |-> "none"]

\* coroc_vpu_initialize: the main coroutine is in the global queue, and every
\* VPU enters core_sched.  The other coroutines are yet to be created.
Init ==
  /\ status = [t \in Tasks |-> IF t = Main THEN "READY" ELSE "WAIT"]
  /\ current = [v \in Vpus |-> NULL]
  /\ budget = [t \in Tasks |-> MaxStops]
  /\ halted = FALSE
  /\ rq = [v \in Vpus |-> {}]
  /\ gq = {Main}
  /\ total_ready = 1
  /\ ready = [p \in Prios |-> IF p = Prio[Main] THEN 1 ELSE 0]
  /\ total_iowait = 0
  /\ alive = N /\ idle = 0
  /\ mlock = NULL
  /\ waits = [t \in Tasks |-> IF t = Main THEN "none" ELSE "birth"]
  /\ async_wait = {} /\ fired = {} /\ traced = {}
  /\ batch = [v \in Vpus |-> {}]
  /\ pc = [x \in Actors |-> IF x \in Vpus THEN "start" ELSE "pool"]
  /\ prio = [v \in Vpus |-> 0]
  /\ loops = [v \in Vpus |-> 0]
  /\ arg = [x \in Actors |-> NoArg]
-----------------------------------------------------------------------------
(* vpu_ready, on a VPU or on a pool thread *)

\* The first step: the coroutine is READY, and in the own ring of the VPU or,
\* on a pool thread, in the global queue.
ReadyBegin(x, t, ret) ==
  /\ status[t] = "WAIT"
  /\ status' = [status EXCEPT ![t] = "READY"]
  /\ waits' = [waits EXCEPT ![t] = "none"]
  /\ IF x \in Vpus
     THEN rq' = [rq EXCEPT ![x] = @ \cup {t}] /\ UNCHANGED gq
     ELSE gq' = gq \cup {t} /\ UNCHANGED rq
  /\ arg' = [arg EXCEPT ![x] = [task |-> t, ret |-> ret]]

ReadyTotal(x) ==
  /\ Jump(x, "incTotal", "incReady")
  /\ total_ready' = Inc(total_ready)
  /\ UNCHANGED <<coroutines, queues, ready, total_iowait, alive, idle, mlock,
                 events, prio, loops, arg>>

ReadyPrio(x) ==
  /\ Jump(x, "incReady", "decIo")
  /\ ready' = [ready EXCEPT ![Prio[arg[x].task]] = Inc(@)]
  /\ UNCHANGED <<coroutines, queues, total_ready, total_iowait, alive, idle,
                 mlock, events, prio, loops, arg>>

\* async_wait is read after the coroutine is back in a queue: it may have run
\* since, wait again, or be freed.
Freed(t) == status[t] = "EXIT"

ReadyIowait(x) ==
  /\ Jump(x, "decIo", "wake")
  /\ \E flag \in IF Freed(arg[x].task) THEN FreedReads
                   ELSE {arg[x].task \in async_wait} :
       total_iowait' = IF flag THEN Dec(total_iowait) ELSE total_iowait
  /\ UNCHANGED <<coroutines, queues, total_ready, ready, alive, idle, mlock,
                 events, prio, loops, arg>>

\* Seeded fault: a signal is sent only while somebody is awake.
WakeupOneBusy(x) ==
  /\ mlock = NULL
  /\ pc[x] = "wake" /\ ~halted
  /\ IF alive \in 1..(N - 1) /\ idle = 0 /\ total_ready > 2 * alive
     THEN \/ \E w \in Vpus :
               /\ pc[w] = "cond"
               /\ pc' = [pc EXCEPT ![x] = arg[x].ret, ![w] = "woken"]
          \/ (\A w \in Vpus : pc[w] # "cond") /\ Goto(x, arg[x].ret)
     ELSE Goto(x, arg[x].ret)
  /\ arg' = [arg EXCEPT ![x] = NoArg]
  /\ UNCHANGED <<coroutines, queues, counters, mlock, events, prio, loops>>

\* vpu_wakeup_one, one critical section: signal if nobody is awake, or if the
\* awake ones are busy and there is work for more of them.
WakeupOne(x) ==
  /\ mlock = NULL
  /\ pc[x] = "wake" /\ ~halted
  /\ IF \/ alive = 0
        \/ alive < N /\ idle = 0 /\ total_ready > 2 * alive
     THEN \/ \E w \in Vpus :
               /\ pc[w] = "cond"
               /\ pc' = [pc EXCEPT ![x] = arg[x].ret, ![w] = "woken"]
          \/ (\A w \in Vpus : pc[w] # "cond") /\ Goto(x, arg[x].ret)
     ELSE Goto(x, arg[x].ret)
  /\ arg' = [arg EXCEPT ![x] = NoArg]
  /\ UNCHANGED <<coroutines, queues, counters, mlock, events, prio, loops>>

\* The caller asked for preemption and every VPU is awake: the running
\* coroutine yields to the more urgent one, and no VPU is woken.
Preempt(v) ==
  /\ Jump(v, "wake", "yieldReady")
  /\ current[v] # NULL
  /\ Freed(arg[v].task) \/ Prio[current[v]] > Prio[arg[v].task]
  /\ alive = N
  /\ status' = [status EXCEPT ![current[v]] = "READY"]
  /\ gq' = gq \cup {current[v]}
  /\ arg' = [arg EXCEPT ![v] = NoArg]
  /\ UNCHANGED <<current, budget, halted, rq, counters, mlock, events, prio,
                 loops>>
-----------------------------------------------------------------------------
(* core_sched: looking for a coroutine *)

SchedStart(v) ==
  /\ Jump(v, "start", "scan")
  /\ idle' = Inc(idle)
  /\ prio' = [prio EXCEPT ![v] = 0]
  /\ loops' = [loops EXCEPT ![v] = 0]
  /\ UNCHANGED <<coroutines, queues, total_ready, ready, total_iowait, alive,
                 mlock, events, arg>>

\* A priority level whose counter is zero is not looked at.  After the last
\* level, the first fruitless round is repeated and the second one ends in
\* the critical section of vpu_manager.lock.
SchedScan(v) ==
  LET done == prio[v] \notin Prios
      empty == ready[prio[v]] = 0
  IN
  /\ IF done THEN Jump(v, "scan", IF loops[v] = 0 THEN "scan" ELSE "lock")
     ELSE Jump(v, "scan", IF empty THEN "scan" ELSE "fetch")
  /\ prio' = [prio EXCEPT ![v] = IF done THEN 0 ELSE IF empty THEN @ + 1 ELSE @]
  /\ loops' = [loops EXCEPT ![v] = IF done THEN @ + 1 ELSE @]
  /\ UNCHANGED <<coroutines, queues, counters, mlock, events, arg>>

Candidate(v, t) ==
  /\ idle' = Dec(idle)
  /\ arg' = [arg EXCEPT ![v].task = t]

\* __runqget on the own ring.
SchedOwn(v) ==
  /\ \/ \E t \in rq[v] :
          /\ Prio[t] = prio[v]
          /\ Jump(v, "fetch", "found")
          /\ rq' = [rq EXCEPT ![v] = @ \ {t}]
          /\ Candidate(v, t)
     \/ /\ \A t \in rq[v] : Prio[t] # prio[v]
        /\ Jump(v, "fetch", "poll")
        /\ UNCHANGED <<rq, idle, arg>>
  /\ UNCHANGED <<coroutines, gq, total_ready, ready, total_iowait, alive, mlock,
                 events, prio, loops>>

\* __coroc_netpoll_polling: epoll_wait hands each event to one VPU, which then
\* makes the coroutines of its batch ready one after the other.
EpollWait(v) ==
  /\ batch' = [batch EXCEPT ![v] = fired]
  /\ fired' = {}
  /\ UNCHANGED <<coroutines, queues, counters, mlock, waits, async_wait, traced,
                 prio, loops, arg>>

SchedPoll(v) == Jump(v, "poll", "wakeElect") /\ EpollWait(v)

NetpollWakeup(v, l, next) ==
  \/ \E t \in batch[v] :
       /\ Jump(v, l, "incTotal")
       /\ ReadyBegin(v, t, l)
       /\ batch' = [batch EXCEPT ![v] = @ \ {t}]
       /\ UNCHANGED <<current, budget, halted, counters, mlock, async_wait, fired,
                      traced, prio, loops>>
  \/ /\ batch[v] = {}
     /\ Jump(v, l, next)
     /\ UNCHANGED <<coroutines, queues, counters, mlock, events, prio, loops, arg>>

SchedWakeups(v) ==
  NetpollWakeup(v, "wakeElect", "elect") \/ NetpollWakeup(v, "wakeScan", "scan")

\* core_elect: the own ring again, else everything of this level in the
\* global queue, else a part of another VPU's ring.
SchedElect(v) ==
  LET level(S) == {t \in S : Prio[t] = prio[v]} IN
  /\ Jump(v, "elect", "found")
  /\ \/ \E t \in level(rq[v]) :
          /\ rq' = [rq EXCEPT ![v] = @ \ {t}]
          /\ UNCHANGED gq
          /\ Candidate(v, t)
     \/ /\ level(rq[v]) = {}
        /\ \E t \in level(gq) :
             /\ rq' = [rq EXCEPT ![v] = @ \cup (level(gq) \ {t})]
             /\ gq' = gq \ level(gq)
             /\ Candidate(v, t)
     \/ /\ level(rq[v]) = {} /\ level(gq) = {}
        /\ \E u \in Vpus \ {v} : \E S \in SUBSET level(rq[u]) :
             LET n == Cardinality(level(rq[u])) IN
             /\ S # {} /\ Cardinality(S) = n - n \div 2
             /\ \E t \in S :
                  /\ rq' = [rq EXCEPT ![u] = @ \ S, ![v] = @ \cup (S \ {t})]
                  /\ UNCHANGED gq
                  /\ Candidate(v, t)
  /\ UNCHANGED <<coroutines, total_ready, ready, total_iowait, alive, mlock,
                 events, prio, loops>>

\* Nothing was found at this level: the queues are empty, or the lock of the
\* global queue and the other rings were contended until the retries ran out.
SchedElectFails(v) ==
  /\ \A t \in rq[v] : Prio[t] # prio[v]
  /\ Jump(v, "elect", "scan")
  /\ prio' = [prio EXCEPT ![v] = @ + 1]
  /\ UNCHANGED <<coroutines, queues, counters, mlock, events, loops, arg>>

\* core_sched has a candidate: the counters, then the coroutine itself.
SchedDecTotal(v) ==
  /\ Jump(v, "found", "found2")
  /\ total_ready' = Dec(total_ready)
  /\ UNCHANGED <<coroutines, queues, ready, total_iowait, alive, idle, mlock,
                 events, prio, loops, arg>>

SchedRun(v) ==
  LET t == arg[v].task IN
  /\ Jump(v, "found2", "run")
  /\ ready' = [ready EXCEPT ![Prio[t]] = Dec(@)]
  /\ status' = [status EXCEPT ![t] = "RUNNING"]
  /\ async_wait' = async_wait \ {t}
  /\ current' = [current EXCEPT ![v] = t]
  /\ arg' = [arg EXCEPT ![v].task = NULL]
  /\ UNCHANGED <<budget, halted, queues, total_ready, total_iowait, alive, idle,
                 mlock, waits, fired, batch, traced, prio, loops>>
-----------------------------------------------------------------------------
(* core_sched: going to sleep *)

SchedLock(v) ==
  /\ mlock = NULL
  /\ Jump(v, "lock", "decide")
  /\ mlock' = v
  /\ alive' = Dec(alive)
  /\ UNCHANGED <<coroutines, queues, total_ready, ready, total_iowait, idle,
                 events, prio, loops, arg>>

\* DEC idle and pthread_cond_wait, which releases the lock.
CondWait(v, from) ==
  /\ Jump(v, from, "cond")
  /\ idle' = Dec(idle)
  /\ mlock' = NULL
  /\ UNCHANGED alive

\* INC alive and unlock, for another round or for polling the network.
StayAwake(v, from, to) ==
  /\ Jump(v, from, to)
  /\ alive' = Inc(alive)
  /\ mlock' = NULL
  /\ UNCHANGED idle

Restart(v) ==
  /\ loops' = [loops EXCEPT ![v] = 0]
  /\ prio' = [prio EXCEPT ![v] = 0]

\* Seeded fault: total_ready is not looked at.
SchedDecideBlind(v) ==
  /\ \/ alive > 0 /\ CondWait(v, "decide")
     \/ alive = 0 /\ Jump(v, "decide", "decideIo") /\ UNCHANGED <<alive, idle, mlock>>
  /\ UNCHANGED <<coroutines, queues, total_ready, ready, total_iowait, events,
                 prio, loops, arg>>

\* The condition for sleeping is evaluated from left to right, and each
\* counter may change before the next one is read.
SchedDecide(v) ==
  /\ \/ alive > 0 /\ CondWait(v, "decide")
     \/ /\ alive = 0
        /\ Jump(v, "decide", IF total_ready = 0 THEN "decideIo" ELSE "last")
        /\ UNCHANGED <<alive, idle, mlock>>
  /\ UNCHANGED <<coroutines, queues, total_ready, ready, total_iowait, events,
                 prio, loops, arg>>

SchedDecideIo(v) ==
  /\ \/ total_iowait > 0 /\ CondWait(v, "decideIo")
     \/ total_iowait = 0 /\ Jump(v, "decideIo", "last") /\ UNCHANGED <<alive, idle, mlock>>
  /\ UNCHANGED <<coroutines, queues, total_ready, ready, total_iowait, events,
                 prio, loops, arg>>

NetSize == Cardinality({t \in Tasks : waits[t] = "net"})

\* vpu_backtrace: every coroutine is taken from coroutine_list and put into the
\* own ring, the main one always; the counters are left alone.
Backtrace(v) ==
  LET listed == {t \in Tasks \ traced : status[t] # "EXIT" /\ waits[t] # "birth"}
  IN
  /\ rq' = [rq EXCEPT ![v] = @ \cup listed \cup {Main}]
  /\ traced' = traced \cup listed \cup {Main}

\* This VPU is the last one awake.
SchedLast(v) ==
  /\ \/ /\ total_ready # 0
        /\ StayAwake(v, "last", "scan")
        /\ UNCHANGED <<rq, traced>>
     \/ /\ total_ready = 0 /\ NetSize > 0
        /\ StayAwake(v, "last", "netpoll")
        /\ UNCHANGED <<rq, traced>>
     \/ /\ total_ready = 0 /\ NetSize = 0
        /\ StayAwake(v, "last", "scan")
        /\ Backtrace(v)
  /\ Restart(v)
  /\ UNCHANGED <<coroutines, gq, total_ready, ready, total_iowait, waits,
                 async_wait, fired, batch, arg>>

\* Polling the network until an event comes or something is ready.
SchedNetpoll(v) ==
  \/ fired # {} /\ Jump(v, "netpoll", "wakeScan") /\ EpollWait(v)
  \/ /\ fired = {} /\ total_ready # 0
     /\ Jump(v, "netpoll", "scan")
     /\ UNCHANGED <<coroutines, queues, counters, mlock, events, prio, loops, arg>>

\* pthread_cond_wait returns with the lock held.
SchedWoken(v) ==
  /\ mlock = NULL
  /\ Jump(v, "woken", "scan")
  /\ idle' = Inc(idle)
  /\ alive' = Inc(alive)
  /\ Restart(v)
  /\ UNCHANGED <<coroutines, queues, total_ready, ready, total_iowait, mlock,
                 events, arg>>

\* pthread_cond_wait may return without a signal.
SpuriousWakeup(v) ==
  /\ Jump(v, "cond", "woken")
  /\ UNCHANGED <<coroutines, queues, counters, mlock, events, prio, loops, arg>>
-----------------------------------------------------------------------------
(* The coroutines *)

Stops(v) ==
  /\ current[v] \notin traced
  /\ budget[current[v]] > 0
  /\ budget' = [budget EXCEPT ![current[v]] = @ - 1]

\* core_yield: into the global queue, then the two counters.
CoreYield(v) ==
  /\ "yield" \in Kinds
  /\ Jump(v, "run", "yieldReady")
  /\ Stops(v)
  /\ status' = [status EXCEPT ![current[v]] = "READY"]
  /\ gq' = gq \cup {current[v]}
  /\ UNCHANGED <<current, halted, rq, counters, mlock, events, prio, loops, arg>>

YieldReady(v) ==
  /\ Jump(v, "yieldReady", "yieldTotal")
  /\ ready' = [ready EXCEPT ![Prio[current[v]]] = Inc(@)]
  /\ UNCHANGED <<coroutines, queues, total_ready, total_iowait, alive, idle, mlock,
                 events, prio, loops, arg>>

\* Seeded fault: only the counter of the priority level is increased.
YieldTotalOmitted(v) ==
  /\ Jump(v, "yieldTotal", "start")
  /\ current' = [current EXCEPT ![v] = NULL]
  /\ UNCHANGED <<status, budget, halted, queues, counters, mlock, events, prio,
                 loops, arg>>

YieldTotal(v) ==
  /\ Jump(v, "yieldTotal", "start")
  /\ total_ready' = Inc(total_ready)
  /\ current' = [current EXCEPT ![v] = NULL]
  /\ UNCHANGED <<status, budget, halted, queues, ready, total_iowait, alive, idle,
                 mlock, events, prio, loops, arg>>

\* core_wait: a coroutine that submitted a request to the pool is counted
\* before the request can be taken.
CoreWait(v, k) ==
  LET t == current[v] IN
  /\ k \in Kinds \ {"yield"}
  /\ Jump(v, "run", "start")
  /\ Stops(v)
  /\ status' = [status EXCEPT ![t] = "WAIT"]
  /\ waits' = [waits EXCEPT ![t] = k]
  /\ async_wait' = IF k = "async" THEN async_wait \cup {t} ELSE async_wait
  /\ total_iowait' = IF k = "async" THEN Inc(total_iowait) ELSE total_iowait
  /\ current' = [current EXCEPT ![v] = NULL]
  /\ UNCHANGED <<halted, queues, total_ready, ready, alive, idle, mlock, fired,
                 batch, traced, prio, loops, arg>>

\* The running coroutine wakes one that waits for it, or creates one.
CallReady(v, t) ==
  /\ waits[t] \in {"plain", "birth"}
  /\ Jump(v, "run", "incTotal")
  /\ current[v] \notin traced
  /\ ReadyBegin(v, t, "run")
  /\ UNCHANGED <<current, budget, halted, counters, mlock, async_wait, fired,
                 batch, traced, prio, loops>>

\* core_exit; when the main coroutine exits the process does.  It is all that
\* a coroutine with the backtrace flag still does.
CoreExit(v) ==
  /\ Jump(v, "run", "start")
  /\ status' = [status EXCEPT ![current[v]] = "EXIT"]
  /\ current' = [current EXCEPT ![v] = NULL]
  /\ halted' = (current[v] = Main)
  /\ UNCHANGED <<budget, queues, counters, mlock, events, prio, loops, arg>>

\* A thread of the pool has done the request of a coroutine.
PoolDone(x, t) ==
  /\ waits[t] = "async"
  /\ Jump(x, "pool", "incTotal")
  /\ ReadyBegin(x, t, "pool")
  /\ UNCHANGED <<current, budget, halted, counters, mlock, async_wait, fired,
                 batch, traced, prio, loops>>

\* The event a coroutine waits for happens on the network.
NetEvent(t) ==
  /\ ~halted
  /\ waits[t] = "net"
  /\ t \notin fired /\ \A v \in Vpus : t \notin batch[v]
  /\ fired' = fired \cup {t}
  /\ UNCHANGED <<coroutines, queues, counters, mlock, waits, async_wait, batch,
                 traced, threads>>
-----------------------------------------------------------------------------
ReadyStep(x) == ReadyTotal(x) \/ ReadyPrio(x) \/ ReadyIowait(x) \/ WakeupOne(x)

Sched(v) ==
  \/ SchedStart(v) \/ SchedScan(v) \/ SchedOwn(v) \/ SchedPoll(v)
  \/ SchedElect(v) \/ SchedElectFails(v) \/ SchedDecTotal(v) \/ SchedRun(v)
  \/ SchedLock(v) \/ SchedDecide(v) \/ SchedDecideIo(v) \/ SchedLast(v)
  \/ SchedNetpoll(v) \/ SchedWakeups(v) \/ SchedWoken(v)

Coroutine(v) ==
  \/ CoreYield(v) \/ YieldReady(v) \/ YieldTotal(v) \/ CoreExit(v) \/ Preempt(v)
  \/ \E k \in Kinds : CoreWait(v, k)
  \/ \E t \in Tasks : CallReady(v, t)

VpuStep(v) == ReadyStep(v) \/ Sched(v) \/ Coroutine(v)
PoolStep(x) == ReadyStep(x) \/ \E t \in Tasks : PoolDone(x, t)

Next ==
  \/ \E v \in Vpus : VpuStep(v) \/ SpuriousWakeup(v)
  \/ \E x \in Pool : PoolStep(x)
  \/ \E t \in Tasks : NetEvent(t)

Spec == Init /\ [][Next]_vars

(***************************************************************************)
(* The operating system runs every thread that can run; a VPU does not     *)
(* lose every race for the global queue and for the other rings; requests  *)
(* to the pool and network operations complete.                            *)
(***************************************************************************)
FairSpec ==
  /\ Spec
  /\ \A v \in Vpus : WF_vars(VpuStep(v)) /\ SF_vars(SchedElect(v))
  /\ \A x \in Pool : WF_vars(PoolStep(x))
  /\ \A t \in Tasks : WF_vars(NetEvent(t))
-----------------------------------------------------------------------------
(* Properties *)

Num(S) == Cardinality(S)
At(labels) == {x \in Actors : pc[x] \in labels}

\* Every variable has its type.
TypeOK ==
  /\ status \in [Tasks -> {"READY", "RUNNING", "WAIT", "EXIT"}]
  /\ current \in [Vpus -> Tasks \cup {NULL}]
  /\ budget \in [Tasks -> 0..MaxStops]
  /\ rq \in [Vpus -> SUBSET Tasks] /\ gq \subseteq Tasks
  /\ {total_ready, total_iowait, alive, idle} \subseteq 0..(Word - 1)
  /\ ready \in [Prios -> 0..(Word - 1)]
  /\ mlock \in Vpus \cup {NULL}
  /\ waits \in [Tasks -> {"none", "birth"} \cup Kinds]
  /\ async_wait \subseteq Tasks /\ fired \subseteq Tasks
  /\ batch \in [Vpus -> SUBSET Tasks]
  /\ loops \in [Vpus -> 0..2]

\* The counters are what the threads make of them: total_ready and ready[p]
\* count the coroutines in the queues, short of the ones whose increment in
\* vpu_ready or core_yield is still to come and beyond them by the ones whose
\* decrement in core_sched is; alive and idle count the VPUs that are not
\* asleep and that look for work.  A coroutine is READY exactly while it is in a
\* queue or taken from one.  (A deadlock report puts waiting ones in as well.)
CountersExact ==
  LET asleep == {"cond", "woken"}
      locked == {"decide", "decideIo", "last"}
      looking(x) == x \in Vpus /\ current[x] = NULL
      prioIn(x, p) == Prio[arg[x].task] = p
  IN
  /\ traced = {} =>
       /\ \A t \in Tasks : status[t] = "READY" <=>
            t \in Queued \cup {arg[v].task : v \in At({"found", "found2"})}
       /\ total_ready = (Num(Queued) + Num(At({"found"}))
                         - Num(At({"incTotal", "yieldReady", "yieldTotal"}))) % Word
       /\ \A p \in Prios :
            ready[p] = (Num({t \in Queued : Prio[t] = p})
                        + Num({x \in At({"found", "found2"}) : prioIn(x, p)})
                        - Num({x \in At({"incTotal", "incReady"}) : prioIn(x, p)})
                        - Num({v \in At({"yieldReady"}) : Prio[current[v]] = p})) % Word
  /\ alive = N - Num(At(asleep \cup locked))
  /\ idle = Num({v \in Vpus : looking(v) /\ pc[v] \notin
                                 asleep \cup {"start", "found", "found2"}})

\* No wakeup is lost: when all VPUs sleep on the condition variable and a
\* coroutine is in a queue, some thread is still inside vpu_ready and will
\* come to vpu_wakeup_one.
NoLostWakeup ==
  traced = {} /\ (\A v \in Vpus : pc[v] = "cond") =>
     Queued = {} \/ At({"incTotal", "incReady", "decIo", "wake"}) # {}

\* "All threads are sleep, deadlock may happen!": vpu_backtrace runs only when
\* every coroutine waits for another one, or has finished.
DeadlockReportIsTrue ==
  [][traced' # traced =>
       \A t \in Tasks : status[t] \in {"WAIT", "EXIT"}
                         /\ waits[t] \in {"none", "plain", "birth"}]_vars

\* A coroutine that is ready runs in the end, unless the program ends before.
ReadyRuns ==
  \A t \in Tasks : status[t] = "READY" ~> status[t] = "RUNNING" \/ halted
=============================================================================
