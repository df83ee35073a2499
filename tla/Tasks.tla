------------------------------- MODULE Tasks -------------------------------
(***************************************************************************)
(* Coroutines that create one another, exchange messages, wait for file     *)
(* operations and exit: Message and AsyncPool, which share the coroutines   *)
(* and their status.  A coroutine is readied by a sender or by a thread of  *)
(* the pool, and must be readied by the one it waits for.                   *)
(*                                                                         *)
(* A coroutine runs a program, a sequence of calls, and then exits.  As in  *)
(* examples/C/findmax_msg.c, a creator gives what it creates a counted      *)
(* handle to itself, which is put when it is not needed any more.           *)
(***************************************************************************)
EXTENDS AsyncPool, Message

CONSTANT Programs   \* functions from coroutines to sequences of calls

VARIABLE todo       \* the calls that a coroutine has still to make

vars == <<cvars, mvars, avars, todo>>
Unchanged == <<coroutine_list, count, memory, handles, born>>

-----------------------------------------------------------------------------
\* t is not in a call, and the next one is an op.
Next1(t) == Head(todo[t])
Calls(t, op) ==
  /\ status[t] = "run" /\ apc[t] = "out" /\ mpc[t] = "out"
  /\ todo[t] # <<>> /\ Next1(t).op = op
  /\ todo' = [todo EXCEPT ![t] = Tail(@)]

CallSpawn(t) == Calls(t, "spawn") /\ Allocate(t, Next1(t).who) /\ UNCHANGED <<mvars, avars>>
CallSend(t) == Calls(t, "send") /\ Send(Next1(t).who, Next1(t).msg) /\ UNCHANGED avars
CallRecv(t) == Calls(t, "recv") /\ Recv(t) /\ UNCHANGED avars
CallTryRecv(t) == Calls(t, "tryrecv") /\ TryRecv(t) /\ UNCHANGED avars
CallVfs(t) ==
  /\ Calls(t, "vfs")
  /\ \E how \in Next1(t).hows :
       \/ how.sync /\ CallDriver(t, how.type, how.drv)
       \/ ~(how.sync /\ InCaller(how.type, how.drv)) /\ Submit(t, how.type, how.drv)
  /\ UNCHANGED <<Unchanged, mvars>>

\* __refcnt_put on a handle.
CallPut(t) ==
  /\ Calls(t, "put")
  /\ Put(Next1(t).who)
  /\ handles' = [handles EXCEPT ![t] = @ \ {Next1(t).who}]
  /\ UNCHANGED <<mvars, avars>>

CallExit(t) ==
  /\ status[t] = "run" /\ apc[t] = "out" /\ mpc[t] = "out" /\ todo[t] = <<>>
  /\ Exit(t)
  /\ UNCHANGED <<avars, todo>>

Calling(t) ==
  \/ CallSpawn(t) \/ CallSend(t) \/ CallRecv(t) \/ CallTryRecv(t)
  \/ CallVfs(t) \/ CallPut(t) \/ CallExit(t)

InMessage(t) == MessageSteps(t) /\ UNCHANGED <<avars, todo>>
InPool(t) == TaskInPool(t) /\ UNCHANGED <<Unchanged, mvars, todo>>
InThread(h) == h \in workers /\ ThreadSteps(h) /\ UNCHANGED <<Unchanged, mvars, todo>>
ThreadWakes(h) == h \in workers /\ Spurious(h) /\ UNCHANGED <<Unchanged, mvars, todo>>

Init == CoroutineInit /\ MessageInit /\ PoolInit /\ todo \in Programs

TaskStep(t) == Calling(t) \/ InMessage(t) \/ InPool(t)
Next ==
  \/ \E t \in Tasks : TaskStep(t)
  \/ \E h \in Threads : InThread(h) \/ ThreadWakes(h)

Spec == Init /\ [][Next]_vars
\* Every coroutine that can run is run, and every thread of the pool; the functions
\* that the threads call return.
FairSpec ==
  /\ Spec
  /\ \A t \in Tasks : WF_vars(TaskStep(t))
  /\ \A h \in Threads : WF_vars(InThread(h))

-----------------------------------------------------------------------------
TypeOK ==
  /\ CoroutineTypeOK /\ MessageTypeOK /\ PoolTypeOK
  /\ \A t \in Tasks : todo[t] # <<>> => "op" \in DOMAIN Next1(t)

(* A coroutine's reference count is the number of counted handles to it, and one
   for itself until its exit is complete; its memory is freed when the count
   reaches zero and not before, so that whoever is about to send to it finds it
   allocated, also when it has long exited (refcnt.h 18-35; coroutine.c 115-128). *)
LiveHandles ==
  /\ \A t \in Tasks :
       count[t] = Cardinality({s \in Tasks : t \in handles[s]})
                  + IF status[t] # "none" /\ mpc[t] # "gone" THEN 1 ELSE 0
  /\ memory = {t \in Tasks : count[t] > 0}
  /\ \A t \in Tasks :
       status[t] = "run" /\ todo[t] # <<>> /\ Next1(t).op = "send" => Next1(t).who \in memory

(* vpu_manager.coroutine_list holds the coroutines that have not exited, and the pool's
   queue the requests that no thread has taken, both in the order of their arrival
   and with all their links intact, also after an item has left from the middle
   (coroc_queue.h 70-86, 123-144, 172-204). *)
ListsSound == IsList(coroutine_list, "list", born) /\ IsList(wait_que, "wait", asked)

(* Every coroutine whose program sends as many messages as are waited for ends, and
   in the end all memory is freed: no wake-up is lost, whether by a sender, a
   thread or the condition variable. *)
AllEnd == <>[](\A t \in Tasks : mpc[t] = "gone" /\ t \notin memory)
=============================================================================
