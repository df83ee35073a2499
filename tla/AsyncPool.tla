----------------------------- MODULE AsyncPool -----------------------------
(***************************************************************************)
(* The pool of threads for blocking calls (src/async.c), and the file       *)
(* operations that use it (src/vfs.c).  A coroutine puts a request, which   *)
(* lives on its stack, into the pool's queue and suspends; a thread         *)
(* runs the request and makes the coroutine ready again.                    *)
(*                                                                         *)
(* Of the values that pass, the model tells apart the argument "in", what a *)
(* driver returned "ret", 0, -1 and an uninitialised "junk".                *)
(***************************************************************************)
EXTENDS Coroutine

CONSTANT Threads   \* the threads of a pool that is used

VARIABLES
  workers,  \* the pool's threads: none if it was initialised with n = 0
  mutex,    \* the coroutine that holds the pool's mutex over its suspension
  wait_que, \* the queue of requests; a request is named by its coroutine
  ops,      \* the file operation on a coroutine's stack
  apc,      \* where a coroutine is in coroc_async_request_submit
  tpc,      \* where a thread is
  treq,     \* the request that it has taken
  asked,    \* history: the requests in the queue, in the order of submission
  result    \* history: the file operation that a coroutine has last returned from

pool == <<workers, mutex, wait_que, asked, tpc, treq>>
avars == <<pool, ops, apc, result>>

Types == {"open", "close", "flush", "read", "write", "lseek", "ioctl", "sleep"}
Values == {"in", "ret", "zero", "minus1", "junk"}
NoOps == [type |-> "sleep", drv |-> {}, arg0 |-> "zero"]

-----------------------------------------------------------------------------
(* coroc_vfs_callback, and what the synchronous calls return.              *)

\* arg0 after coroc_vfs_callback; nanosleep stores nothing.
Callback(o) ==
  CASE o.type \in {"open", "read", "write"} -> "ret"
    [] o.type = "lseek" -> IF "lseek" \in o.drv THEN "ret" ELSE "junk"
    [] o.type = "ioctl" -> IF "ioctl" \in o.drv THEN "ret" ELSE "minus1"
    [] OTHER -> o.arg0

\* What a call with `sync' set returns.
SyncValue(o) ==
  IF o.type \in {"lseek", "ioctl"} /\ o.type \notin o.drv THEN "minus1" ELSE "ret"

\* __coroc_vfs_init_ops, with arg0 as each of the calls sets it.
InitOps(type, drv) ==
  [type |-> type, drv |-> drv,
   arg0 |-> IF type \in {"close", "flush", "sleep"} THEN "zero" ELSE "in"]

-----------------------------------------------------------------------------
(* The coroutine.                                                          *)

AGoto(t, l) == apc' = [apc EXCEPT ![t] = l]

\* A file operation, or coroc_nanosleep, calls coroc_async_request_submit; drv is
\* the set of the optional functions that the driver has.
Submit(t, type, drv) ==
  /\ apc[t] = "out"
  /\ LET o == InitOps(type, drv)
     IN ops' = [ops EXCEPT ![t] = IF workers = {} THEN [o EXCEPT !.arg0 = Callback(o)] ELSE o]
  /\ AGoto(t, IF workers = {} THEN "back" ELSE "lock")
  /\ UNCHANGED <<status, pool, result>>

\* A file operation with `sync' set calls the driver itself; a flush that the driver
\* lacks goes through the pool all the same.
InCaller(type, drv) == type # "sleep" /\ (type = "flush" => "flush" \in drv)
CallDriver(t, type, drv) ==
  /\ apc[t] = "out" /\ InCaller(type, drv)
  /\ LET o == InitOps(type, drv)
     IN result' = [result EXCEPT ![t] = [o EXCEPT !.arg0 = SyncValue(o)]]
  /\ UNCHANGED <<status, pool, ops, apc>>

\* Seeded fault: no thread is signalled.
NoSignal == UNCHANGED tpc
\* pthread_cond_signal.
Signal ==
  IF \E h \in workers : tpc[h] = "asleep"
  THEN \E h \in workers : tpc[h] = "asleep" /\ tpc' = [tpc EXCEPT ![h] = "lock"]
  ELSE UNCHANGED tpc

\* The request joins the queue; the mutex is kept.
Enqueue(t) ==
  /\ apc[t] = "lock" /\ mutex = NULL
  /\ mutex' = t
  /\ wait_que' = QueueAdd(wait_que, "wait", t)
  /\ asked' = Append(asked, t)
  /\ Signal
  /\ AGoto(t, "suspend")
  /\ UNCHANGED <<status, workers, treq, ops, result>>

\* Seeded fault: the mutex is released before the context is saved.
MutexIgnored == TRUE
\* Threads wait for the mutex until the coroutine is suspended.
MutexFree == mutex = NULL

\* vpu_suspend releases the mutex when the coroutine's context is saved.
SuspendInPool(t) ==
  /\ apc[t] = "suspend"
  /\ status' = [status EXCEPT ![t] = "wait"]
  /\ mutex' = NULL
  /\ AGoto(t, "suspended")
  /\ UNCHANGED <<workers, wait_que, asked, tpc, treq, ops, result>>

\* The coroutine runs again and the operation returns arg0.
Back(t) ==
  /\ apc[t] = "back"
  /\ AGoto(t, "out")
  /\ result' = [result EXCEPT ![t] = ops[t]]
  /\ ops' = [ops EXCEPT ![t] = NoOps]
  /\ UNCHANGED <<status, pool>>

-----------------------------------------------------------------------------
(* A thread: coroc_async_thread_routine.                                   *)

TGoto(h, l) == tpc' = [tpc EXCEPT ![h] = l]

\* With the mutex: sleep on the condition if there is no request.
Sleep(h) ==
  /\ tpc[h] = "lock" /\ MutexFree /\ wait_que.status["wait"] = 0
  /\ TGoto(h, "asleep")
  /\ UNCHANGED <<status, workers, mutex, wait_que, asked, treq, ops, apc, result>>

\* A spurious wake-up.
Spurious(h) ==
  /\ tpc[h] = "asleep"
  /\ TGoto(h, "lock")
  /\ UNCHANGED <<status, workers, mutex, wait_que, asked, treq, ops, apc, result>>

\* Take the first request and release the mutex.
Take(h) ==
  /\ tpc[h] = "lock" /\ MutexFree /\ wait_que.status["wait"] > 0
  /\ treq' = [treq EXCEPT ![h] = wait_que.head["wait"]]
  /\ wait_que' = QueueRem(wait_que, "wait")
  /\ asked' = Tail(asked)
  /\ TGoto(h, "work")
  /\ UNCHANGED <<status, workers, mutex, ops, apc, result>>

\* Run the request, however long it blocks.
Work(h) ==
  /\ tpc[h] = "work"
  /\ ops' = [ops EXCEPT ![treq[h]].arg0 = Callback(ops[treq[h]])]
  /\ TGoto(h, "ready")
  /\ UNCHANGED <<status, workers, mutex, wait_que, asked, treq, apc, result>>

\* vpu_ready.
Ready(h) ==
  /\ tpc[h] = "ready"
  /\ status' = [status EXCEPT ![treq[h]] = "run"]
  /\ AGoto(treq[h], "back")
  /\ treq' = [treq EXCEPT ![h] = NULL]
  /\ TGoto(h, "lock")
  /\ UNCHANGED <<workers, mutex, wait_que, asked, ops, result>>

\* coroc_async_pool_initialize.
PoolInit ==
  /\ workers \in {{}, Threads}
  /\ mutex = NULL
  /\ wait_que = QueueInit({"wait"}, Tasks) /\ asked = <<>>
  /\ ops = [t \in Tasks |-> NoOps] /\ apc = [t \in Tasks |-> "out"]
  /\ tpc = [h \in Threads |-> "lock"] /\ treq = [h \in Threads |-> NULL]
  /\ result = [t \in Tasks |-> NoOps]

TaskInPool(t) == Enqueue(t) \/ SuspendInPool(t) \/ Back(t)
ThreadSteps(h) == Sleep(h) \/ Take(h) \/ Work(h) \/ Ready(h)

-----------------------------------------------------------------------------
PoolTypeOK ==
  /\ mutex \in Tasks \cup {NULL} /\ asked \in Seq(Tasks)
  /\ \A t \in Tasks : /\ ops[t].type \in Types /\ ops[t].arg0 \in Values
                      /\ result[t].type \in Types /\ result[t].arg0 \in Values
  /\ apc \in [Tasks -> {"out", "lock", "suspend", "suspended", "back"}]
  /\ tpc \in [Threads -> {"lock", "asleep", "work", "ready"}]
  /\ treq \in [Threads -> Tasks \cup {NULL}]

(* A request lives on the stack of its coroutine: as long as it is in the queue or
   with a thread, its coroutine has not returned from the submission; no two
   threads have it; and the thread that calls vpu_ready finds the coroutine
   suspended, as vpu_ready asserts (async.c 33-44, 83-85, 101-111). *)
RequestOnStack ==
  /\ \A k \in DOMAIN asked : apc[asked[k]] \in {"suspend", "suspended"}
  /\ \A h \in Threads : tpc[h] \in {"work", "ready"} =>
       /\ apc[treq[h]] = "suspended" /\ status[treq[h]] = "wait"
       /\ \A k \in DOMAIN asked : asked[k] # treq[h]
       /\ \A g \in Threads : g # h => treq[g] # treq[h]

(* No wake-up is lost: the threads are not all asleep while a request waits
   (async.c 27-31, 104-106). *)
NotAllAsleep == asked # <<>> => \E h \in workers : tpc[h] # "asleep"

=============================================================================
