------------------------------ MODULE Message ------------------------------
(***************************************************************************)
(* Messages between coroutines: src/message.c.  Every coroutine has an      *)
(* asynchronous channel: a send hands the message to the coroutine if it    *)
(* waits and queues it otherwise; it never blocks.  When the coroutine      *)
(* exits, the channel is emptied and closed.                                *)
(*                                                                         *)
(* A message stands for its payload, which coroc_send allocates and         *)
(* coroc_recv frees.                                                        *)
(***************************************************************************)
EXTENDS Coroutine

CONSTANT Messages

VARIABLES
  mque,    \* achan->mque of every coroutine
  close,   \* coroutines whose channel is closed
  clock,   \* coroutines that hold the lock of their channel until they are suspended
  rwait,   \* coroutines in the recv_que of their channel
  mpc,     \* where a coroutine is in coroc_recv or in its exit
  sent,    \* history: messages that a coroutine's channel has accepted
  rcvd     \* history: messages that the coroutine was given

mvars == <<mque, close, clock, rwait, mpc, sent, rcvd>>

MGoto(t, l) == mpc' = [mpc EXCEPT ![t] = l]
\* The lock of t's channel is free.
Unlocked(t) == t \notin clock

-----------------------------------------------------------------------------
\* Seeded fault: a message is queued although the coroutine waits.
HandOverNever(t) == FALSE
\* __coroc_chan_send finds t waiting.
HandOver(t) == t \in rwait

\* __coroc_copy_to_mque: a copy of the message is queued.
CopyToMque(t, m) == mque' = QueueAdd(mque, t, m)

\* coroc_send and coroc_sendp, to t: a coroutine that waits is given the message
\* and made ready; a closed channel refuses it, which the caller is not told.
Send(t, m) ==
  /\ Unlocked(t)
  /\ \/ /\ HandOver(t)
        /\ rwait' = rwait \ {t}
        /\ status' = [status EXCEPT ![t] = "run"]
        /\ MGoto(t, "got")
        /\ sent' = [sent EXCEPT ![t] = Append(@, m)]
        /\ rcvd' = [rcvd EXCEPT ![t] = Append(@, m)]
        /\ UNCHANGED mque
     \/ /\ ~HandOver(t) /\ t \in close
        /\ UNCHANGED <<mque, rwait, status, mpc, sent, rcvd>>
     \/ /\ ~HandOver(t) /\ t \notin close
        /\ CopyToMque(t, m)
        /\ sent' = [sent EXCEPT ![t] = Append(@, m)]
        /\ UNCHANGED <<rwait, status, mpc, rcvd>>
  /\ UNCHANGED <<close, clock, coroutine_list, count, memory, handles, born>>

\* __coroc_copy_from_mque finds no message.
NoMessage(t) == mque.status[t] = 0

\* __coroc_copy_from_mque: t takes the first message of its queue.
Dequeue(t) ==
  /\ ~NoMessage(t)
  /\ mque' = QueueRem(mque, t)
  /\ rcvd' = [rcvd EXCEPT ![t] = Append(@, mque.head[t])]
  /\ UNCHANGED <<rwait, clock, mpc>>

\* Seeded fault: the lock is released before the context is saved.
ReleasedEarly(t) == clock
\* vpu_suspend keeps the lock until the context is saved.
HeldToSuspend(t) == clock \cup {t}

\* coroc_recv and coroc_recvp that block: from the queue, or by waiting.
Recv(t) ==
  /\ Unlocked(t)
  /\ \/ Dequeue(t)
     \/ /\ NoMessage(t)
        /\ rwait' = rwait \cup {t} /\ clock' = HeldToSuspend(t)
        /\ MGoto(t, "suspend")
        /\ UNCHANGED <<mque, rcvd>>
  /\ UNCHANGED <<cvars, close, sent>>

\* coroc_recvp that does not block: CHAN_BUSY if there is no message.
TryRecv(t) ==
  /\ Unlocked(t)
  /\ Dequeue(t) \/ (NoMessage(t) /\ UNCHANGED <<mque, rcvd, rwait, clock, mpc>>)
  /\ UNCHANGED <<cvars, close, sent>>

RecvSuspend(t) ==
  /\ mpc[t] = "suspend"
  /\ status' = [status EXCEPT ![t] = "wait"]
  /\ clock' = clock \ {t}
  /\ MGoto(t, "waiting")
  /\ UNCHANGED <<mque, close, rwait, sent, rcvd, coroutine_list, count, memory, handles, born>>

\* t runs again, takes the lock once more and returns with its message.
Received(t) ==
  /\ mpc[t] = "got" /\ Unlocked(t)
  /\ MGoto(t, "out")
  /\ UNCHANGED <<cvars, mque, close, clock, rwait, sent, rcvd>>

-----------------------------------------------------------------------------
(* The exit: coroc_coroutine_exit, core_exit, coroc_coroutine_deallocate.  *)

Exit(t) ==
  /\ Unlist(t)
  /\ MGoto(t, "fini")
  /\ UNCHANGED <<mque, close, clock, rwait, sent, rcvd>>

\* The items of t's queue are removed one by one.
Emptied(t) ==
  LET left[k \in 0 .. mque.status[t]] == IF k = 0 THEN mque ELSE QueueRem(left[k - 1], t)
  IN left[mque.status[t]]

\* Seeded fault: the channel stays open.
StaysOpen(t) == close
Closed(t) == close \cup {t}

\* coroc_async_chan_fini.
Fini(t) ==
  /\ mpc[t] = "fini" /\ Unlocked(t)
  /\ mque' = Emptied(t)
  /\ close' = Closed(t)
  /\ MGoto(t, "put")
  /\ UNCHANGED <<cvars, clock, rwait, sent, rcvd>>

\* The coroutine's own reference goes last.
LastPut(t) ==
  /\ mpc[t] = "put"
  /\ Put(t) /\ UNCHANGED handles
  /\ MGoto(t, "gone")
  /\ UNCHANGED <<mque, close, clock, rwait, sent, rcvd>>

\* coroc_async_chan_init.
MessageInit ==
  /\ mque = QueueInit(Tasks, Messages)
  /\ close = {} /\ clock = {} /\ rwait = {}
  /\ mpc = [t \in Tasks |-> "out"]
  /\ sent = [t \in Tasks |-> <<>>] /\ rcvd = [t \in Tasks |-> <<>>]

MessageSteps(t) == RecvSuspend(t) \/ Received(t) \/ Fini(t) \/ LastPut(t)

-----------------------------------------------------------------------------
MessageTypeOK ==
  /\ close \subseteq Tasks /\ clock \subseteq Tasks /\ rwait \subseteq Tasks
  /\ mpc \in [Tasks -> {"out", "suspend", "waiting", "got", "fini", "put", "gone"}]
  /\ sent \in [Tasks -> Seq(Messages)] /\ rcvd \in [Tasks -> Seq(Messages)]

(* A coroutine is given the messages that were sent to it in the order in which its
   channel accepted them, none twice; those that it was not given yet are in its
   queue, until it exits.  From then on its queue stays empty: what comes is refused
   (message.c 19-39, 48-57; channel.c 112-127, 146-151). *)
FifoDelivery ==
  \A t \in Tasks :
    IF mpc[t] \in {"put", "gone"}
    THEN /\ IsList(mque, t, <<>>)
         /\ rcvd[t] = SubSeq(sent[t], 1, Len(rcvd[t]))
    ELSE LET queued == SubSeq(sent[t], Len(rcvd[t]) + 1, Len(sent[t]))
         IN rcvd[t] \o queued = sent[t] /\ IsList(mque, t, queued)

(* A sender that finds a coroutine waiting, with the lock free, finds it suspended,
   as vpu_ready asserts: its context is saved, and no message is left in its queue
   (channel.c 165-175; vpu.c 532, 606-616). *)
ReceiverSuspended ==
  \A t \in rwait : /\ Unlocked(t) => status[t] = "wait" /\ mpc[t] = "waiting"
                   /\ mque.status[t] = 0
=============================================================================
