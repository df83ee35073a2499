------------------------------ MODULE Channel ------------------------------
(***************************************************************************)
(* Channels and select (src/channel.c, include/inter/lock_chain.h).        *)
(*                                                                         *)
(* An operation on one channel runs under the lock of the channel from its *)
(* beginning to its end, or to the point where core_wait has made the      *)
(* coroutine wait and releases the lock: each such stretch is one action   *)
(* that needs the lock to be free.  A select acquires the locks of its     *)
(* channels one by one in the order of their addresses, and releases them  *)
(* one by one; so lock[c] is needed for selects only.                      *)
(*                                                                         *)
(* A quantum is a coroutine's entry in the queue of a channel.  A message  *)
(* is named by its sender and the number of the operation that sends it.   *)
(***************************************************************************)
EXTENDS Integers, Sequences, FiniteSets

CONSTANTS
  Tasks,      \* the coroutines
  Chans,      \* the channels: numbers, in the order of their locks' addresses
  Capacity,   \* the buffer size of each channel, 0 for none
  IsRef,      \* the channels whose buffered references close releases
  Programs,   \* the operations that each coroutine may call
  MaxOps,     \* bound: the number of calls of each coroutine
  NULL

ASSUME ChannelAssumption ==
  /\ Chans \subseteq Nat /\ NULL \notin Tasks /\ NULL \notin Chans
  /\ Capacity \in [Chans -> Nat] /\ IsRef \subseteq Chans
  /\ MaxOps \in Nat
  /\ IsFiniteSet(Tasks) /\ IsFiniteSet(Chans)
  /\ \A t \in Tasks : \A o \in Programs[t] :
       \/ o.kind \in {"send", "recv", "close"} /\ o.chan \in Chans
       \/ /\ o.kind = "select"
          /\ o.cases \in Seq([chan : Chans, type : {"send", "recv"}])
          /\ \A i, j \in DOMAIN o.cases : o.cases[i].chan = o.cases[j].chan => i = j

VARIABLES
  lock,       \* the select that holds the lock of each channel
  close, buf, send_que, recv_que,               \* the channels
  status, qtag,                                 \* of struct coroc_coroutine
  pc, op, nops, at, closed,                     \* the calls
  got,        \* the locks that a select has acquired
  rel,        \* the locks that core_wait still has to release for it
  res, with,  \* the result of the last call, and the channels of its transfers
  delivered, accepted, refused, dropped         \* the fate of each message

channels == <<close, buf, send_que, recv_que>>
calls == <<status, qtag, pc, op, nops, at, closed, res, with>>
messages == <<delivered, accepted, refused, dropped>>
vars == <<lock, channels, calls, got, rel, messages>>

Messages == Tasks \X (1..MaxOps)

\* The message that t sends in its current call.
Message(t) == <<t, nops[t]>>

QuantumType == [task : Tasks, chan : Chans, select : BOOLEAN]
Quantum(t, c, sel) == [task |-> t, chan |-> c, select |-> sel]

\* coroc_chan_init, coroc_buffered_chan_init.
Init ==
  /\ lock = [c \in Chans |-> NULL]
  /\ close = [c \in Chans |-> FALSE]
  /\ buf = [c \in Chans |-> <<>>]
  /\ send_que = [c \in Chans |-> <<>>]
  /\ recv_que = [c \in Chans |-> <<>>]
  /\ status = [t \in Tasks |-> "RUNNING"]
  /\ qtag = [t \in Tasks |-> NULL]
  /\ pc = [t \in Tasks |-> "idle"]
  /\ op = [t \in Tasks |-> NULL]
  /\ nops = [t \in Tasks |-> 0]
  /\ at = [t \in Tasks |-> 0]
  /\ closed = [t \in Tasks |-> FALSE]
  /\ got = [t \in Tasks |-> {}] /\ rel = [t \in Tasks |-> {}]
  /\ res = [t \in Tasks |-> [code |-> "none", chan |-> NULL]]
  /\ with = [t \in Tasks |-> {}]
  /\ delivered = [v \in Messages |-> 0]
  /\ accepted = {} /\ refused = {} /\ dropped = {}
-----------------------------------------------------------------------------
(* The queues *)

\* Seeded fault: a select's quantum is taken without the compare-and-swap.
FetchableAlways(que) == DOMAIN que

\* fetch_quantum drops the quanta of selects that have been served elsewhere.
Fetchable(que) ==
  {i \in DOMAIN que : que[i].select => qtag[que[i].task] = NULL}

\* The first of some indices of a queue.
Least(S) == CHOOSE i \in S : \A j \in S : i <= j

\* What fetch_quantum leaves in the queue.
Rest(que) ==
  IF Fetchable(que) = {} THEN <<>>
  ELSE SubSeq(que, Least(Fetchable(que)) + 1, Len(que))

\* The tags of the selects among the fetched quanta.
Tagged(quanta) ==
  [t \in Tasks |->
     IF \E q \in quanta : q.task = t /\ q.select
     THEN (CHOOSE q \in quanta : q.task = t).chan ELSE qtag[t]]

\* vpu_ready for the coroutines of the fetched quanta.
Readied(quanta) ==
  [t \in Tasks |-> IF \E q \in quanta : q.task = t THEN "RUNNING" ELSE status[t]]

Matched(t, u, c) ==
  with' = [with EXCEPT ![t] = @ \cup {c}, ![u] = @ \cup {c}]
-----------------------------------------------------------------------------
(* __coroc_chan_send and __coroc_chan_recv *)

SendCode(c) ==
  IF Fetchable(recv_que[c]) # {} THEN "success"
  ELSE IF close[c] THEN "closed"
  ELSE IF Len(buf[c]) < Capacity[c] THEN "success" ELSE "busy"

RecvCode(c) ==
  IF buf[c] # <<>> \/ Fetchable(send_que[c]) # {} THEN "success"
  ELSE IF close[c] THEN "closed" ELSE "busy"

\* Seeded fault: into the buffer if there is room, whoever waits.
SendSuccessBuffers(t, c) ==
  LET room == Len(buf[c]) < Capacity[c] IN
  /\ SendCode(c) = "success"
  /\ recv_que' = [recv_que EXCEPT ![c] = IF room THEN @ ELSE Rest(@)]
  /\ IF ~room
     THEN LET q == recv_que[c][Least(Fetchable(recv_que[c]))] IN
          /\ qtag' = Tagged({q}) /\ status' = Readied({q})
          /\ Matched(t, q.task, c)
          /\ delivered' = [delivered EXCEPT ![Message(t)] = @ + 1]
          /\ UNCHANGED buf
     ELSE /\ buf' = [buf EXCEPT ![c] = Append(@, Message(t))]
          /\ with' = [with EXCEPT ![t] = @ \cup {c}]
          /\ UNCHANGED <<qtag, status, delivered>>
  /\ UNCHANGED <<close, send_que, refused, dropped>>

\* To a waiting receiver, else into the buffer.
SendSuccess(t, c) ==
  /\ SendCode(c) = "success"
  /\ recv_que' = [recv_que EXCEPT ![c] = Rest(@)]
  /\ IF Fetchable(recv_que[c]) # {}
     THEN LET q == recv_que[c][Least(Fetchable(recv_que[c]))] IN
          /\ qtag' = Tagged({q}) /\ status' = Readied({q})
          /\ Matched(t, q.task, c)
          /\ delivered' = [delivered EXCEPT ![Message(t)] = @ + 1]
          /\ UNCHANGED buf
     ELSE /\ buf' = [buf EXCEPT ![c] = Append(@, Message(t))]
          /\ with' = [with EXCEPT ![t] = @ \cup {c}]
          /\ UNCHANGED <<qtag, status, delivered>>
  /\ UNCHANGED <<close, send_que, refused, dropped>>

\* Seeded fault: the receiver also leaves the message in the buffer.
RecvSuccessCopies(t, c) ==
  /\ RecvCode(c) = "success"
  /\ IF buf[c] # <<>>
     THEN /\ delivered' = [delivered EXCEPT ![Head(buf[c])] = @ + 1]
          /\ with' = [with EXCEPT ![t] = @ \cup {c}]
          /\ UNCHANGED <<buf, send_que, qtag, status>>
     ELSE LET q == send_que[c][Least(Fetchable(send_que[c]))] IN
          /\ send_que' = [send_que EXCEPT ![c] = Rest(@)]
          /\ qtag' = Tagged({q}) /\ status' = Readied({q})
          /\ Matched(t, q.task, c)
          /\ delivered' = [delivered EXCEPT ![Message(q.task)] = @ + 1]
          /\ UNCHANGED buf
  /\ UNCHANGED <<close, recv_que, accepted, refused, dropped>>

\* From the buffer, else from a waiting sender.
RecvSuccess(t, c) ==
  /\ RecvCode(c) = "success"
  /\ IF buf[c] # <<>>
     THEN /\ buf' = [buf EXCEPT ![c] = Tail(@)]
          /\ delivered' = [delivered EXCEPT ![Head(buf[c])] = @ + 1]
          /\ with' = [with EXCEPT ![t] = @ \cup {c}]
          /\ UNCHANGED <<send_que, qtag, status>>
     ELSE LET q == send_que[c][Least(Fetchable(send_que[c]))] IN
          /\ send_que' = [send_que EXCEPT ![c] = Rest(@)]
          /\ qtag' = Tagged({q}) /\ status' = Readied({q})
          /\ Matched(t, q.task, c)
          /\ delivered' = [delivered EXCEPT ![Message(q.task)] = @ + 1]
          /\ UNCHANGED buf
  /\ UNCHANGED <<close, recv_que, accepted, refused, dropped>>

\* fetch_quantum has found nobody: it leaves the queue empty.
SendFail(c) ==
  /\ SendCode(c) # "success"
  /\ recv_que' = [recv_que EXCEPT ![c] = <<>>]
  /\ UNCHANGED send_que

RecvFail(c) ==
  /\ RecvCode(c) # "success"
  /\ send_que' = [send_que EXCEPT ![c] = <<>>]
  /\ UNCHANGED recv_que

Fail(type, c) == IF type = "send" THEN SendFail(c) ELSE RecvFail(c)
Code(type, c) == IF type = "send" THEN SendCode(c) ELSE RecvCode(c)
-----------------------------------------------------------------------------
(* The public operations on one channel *)

Goto(t, l) == pc' = [pc EXCEPT ![t] = l]
Returns(t, code, c) ==
  /\ Goto(t, "idle")
  /\ res' = [res EXCEPT ![t] = [code |-> code, chan |-> c]]

\* A coroutine calls one of its operations.
Call(t) ==
  /\ pc[t] = "idle" /\ nops[t] < MaxOps
  /\ \E o \in Programs[t] :
       /\ op' = [op EXCEPT ![t] = o]
       /\ Goto(t, IF o.kind = "select" THEN "selLock" ELSE o.kind)
  /\ nops' = [nops EXCEPT ![t] = @ + 1]
  /\ at' = [at EXCEPT ![t] = 0]
  /\ closed' = [closed EXCEPT ![t] = FALSE]
  /\ with' = [with EXCEPT ![t] = {}]
  /\ UNCHANGED <<lock, channels, status, qtag, res, got, rel, messages>>

Send(t) ==
  LET c == op[t].chan IN
  /\ pc[t] = "send" /\ lock[c] = NULL
  /\ \/ /\ SendSuccess(t, c)
        /\ Returns(t, "success", c)
        /\ accepted' = accepted \cup {Message(t)}
     \/ /\ SendFail(c)
        /\ SendCode(c) = "closed" \/ ~op[t].block
        /\ Returns(t, SendCode(c), c)
        /\ refused' = refused \cup {Message(t)}
        /\ UNCHANGED <<close, buf, qtag, status, with, delivered, accepted, dropped>>
  /\ UNCHANGED <<lock, op, nops, at, closed, got, rel>>

Recv(t) ==
  LET c == op[t].chan IN
  /\ pc[t] = "recv" /\ lock[c] = NULL
  /\ \/ RecvSuccess(t, c) /\ Returns(t, "success", c)
     \/ /\ RecvFail(c)
        /\ RecvCode(c) = "closed" \/ ~op[t].block
        /\ Returns(t, RecvCode(c), c)
        /\ UNCHANGED <<close, buf, qtag, status, with, messages>>
  /\ UNCHANGED <<lock, op, nops, at, closed, got, rel>>

\* The quantum is queued, and core_wait releases the lock of the channel.
Block(t, type) ==
  LET c == op[t].chan
      q == Quantum(t, c, FALSE)
  IN
  /\ pc[t] = type /\ lock[c] = NULL
  /\ op[t].block /\ Code(type, c) = "busy"
  /\ IF type = "send"
     THEN /\ send_que' = [send_que EXCEPT ![c] = Append(@, q)]
          /\ recv_que' = [recv_que EXCEPT ![c] = <<>>]
     ELSE /\ recv_que' = [recv_que EXCEPT ![c] = Append(@, q)]
          /\ send_que' = [send_que EXCEPT ![c] = <<>>]
  /\ status' = [status EXCEPT ![t] = "WAIT"]
  /\ Goto(t, IF type = "send" THEN "sendWait" ELSE "recvWait")
  /\ UNCHANGED <<lock, close, buf, qtag, op, nops, at, closed, res, with, got, rel,
                 messages>>

\* The coroutine runs again and takes the lock once more to read q.close.
Awaken(t) ==
  LET c == op[t].chan IN
  /\ pc[t] \in {"sendWait", "recvWait"} /\ status[t] = "RUNNING"
  /\ lock[c] = NULL
  /\ Returns(t, IF closed[t] THEN "closed" ELSE "success", c)
  /\ IF pc[t] = "recvWait" THEN UNCHANGED <<accepted, refused>>
     ELSE IF closed[t]
     THEN refused' = refused \cup {Message(t)} /\ UNCHANGED accepted
     ELSE accepted' = accepted \cup {Message(t)} /\ UNCHANGED refused
  /\ UNCHANGED <<lock, channels, status, qtag, op, nops, at, closed, with, got, rel,
                 delivered, dropped>>

\* Seeded fault: only the receivers are woken.
WaitersRecv(c) == {recv_que[c][i] : i \in Fetchable(recv_que[c])}

Waiters(c) ==
  {send_que[c][i] : i \in Fetchable(send_que[c])} \cup
  {recv_que[c][i] : i \in Fetchable(recv_que[c])}

\* coroc_chan_close: everybody who waits is told and made ready; the buffered
\* references of an isref channel are released.
Close(t) ==
  LET c == op[t].chan IN
  /\ pc[t] = "close" /\ lock[c] = NULL
  /\ Returns(t, IF close[c] THEN "closed" ELSE "none", c)
  /\ IF close[c] THEN UNCHANGED <<channels, status, qtag, closed, dropped>>
     ELSE /\ close' = [close EXCEPT ![c] = TRUE]
          /\ send_que' = [send_que EXCEPT ![c] = <<>>]
          /\ recv_que' = [recv_que EXCEPT ![c] = <<>>]
          /\ closed' = [u \in Tasks |-> closed[u] \/ \E q \in Waiters(c) : q.task = u]
          /\ qtag' = Tagged(Waiters(c)) /\ status' = Readied(Waiters(c))
          /\ IF c \in IsRef
             THEN /\ buf' = [buf EXCEPT ![c] = <<>>]
                  /\ dropped' = dropped \cup {buf[c][i] : i \in DOMAIN buf[c]}
             ELSE UNCHANGED <<buf, dropped>>
  /\ UNCHANGED <<lock, op, nops, at, with, got, rel, delivered, accepted, refused>>
-----------------------------------------------------------------------------
(* Select *)

Set(t) == {op[t].cases[i].chan : i \in DOMAIN op[t].cases}

\* Seeded fault: the locks are taken in the order of the cases.
NextLockUnsorted(t) ==
  LET left == {i \in DOMAIN op[t].cases : op[t].cases[i].chan \notin got[t]}
  IN {op[t].cases[i].chan : i \in {j \in left : \A k \in left : j <= k}}

\* lock_chain_acquire sorts the locks by address.
NextLock(t) == {c \in Set(t) \ got[t] : \A d \in Set(t) \ got[t] : c <= d}

\* lock_chain_acquire, one lock at a time, on the way in and after waking up.
SelLock(t) ==
  /\ \/ pc[t] = "selLock"
     \/ pc[t] = "selWait" /\ status[t] = "RUNNING"
  /\ \E c \in NextLock(t) :
       /\ lock[c] = NULL
       /\ lock' = [lock EXCEPT ![c] = t]
       /\ got' = [got EXCEPT ![t] = @ \cup {c}]
       /\ IF got[t] \cup {c} = Set(t)
          THEN Goto(t, IF pc[t] = "selLock" THEN "selTry" ELSE "selDone")
          ELSE UNCHANGED pc
  /\ UNCHANGED <<channels, status, qtag, op, nops, at, closed, res, with, rel, messages>>

\* The outcome of the message of a select, if one of its cases sends.
Fate(t, sent) ==
  LET sends == \E i \in DOMAIN op[t].cases : op[t].cases[i].type = "send" IN
  /\ accepted' = IF sent THEN accepted \cup {Message(t)} ELSE accepted
  /\ refused' = IF sends /\ ~sent THEN refused \cup {Message(t)} ELSE refused

Leave(t, code, c) ==
  /\ Goto(t, "selLeave")
  /\ res' = [res EXCEPT ![t] = [code |-> code, chan |-> c]]

\* A case succeeds.
SelSuccess(t) ==
  LET e == op[t].cases[at[t] + 1] IN
  /\ pc[t] = "selTry"
  /\ IF e.type = "send"
     THEN /\ SendSuccess(t, e.chan)
          /\ accepted' = accepted \cup {Message(t)}
     ELSE RecvSuccess(t, e.chan)
  /\ Leave(t, "success", e.chan)
  /\ UNCHANGED <<lock, op, nops, at, closed, got, rel>>

\* A case does not.  After the last one a select with a default leaves.
SelFail(t) ==
  LET e == op[t].cases[at[t] + 1]
      last == at[t] + 1 = Len(op[t].cases)
  IN
  /\ pc[t] = "selTry"
  /\ Fail(e.type, e.chan)
  /\ IF last /\ ~op[t].block
     THEN Leave(t, Code(e.type, e.chan), NULL) /\ Fate(t, FALSE) /\ UNCHANGED at
     ELSE /\ at' = [at EXCEPT ![t] = @ + 1]
          /\ Goto(t, IF last THEN "selBlock" ELSE "selTry")
          /\ UNCHANGED <<res, accepted, refused>>
  /\ UNCHANGED <<lock, close, buf, status, qtag, op, nops, closed, with, got, rel,
                 delivered, dropped>>

Cases(t, type) == {op[t].cases[i].chan : i \in {j \in DOMAIN op[t].cases :
                                                    op[t].cases[j].type = type}}

\* A quantum in the queue of every case; then core_wait, which goes on to
\* release the chain while the coroutine may already be woken.
SelBlock(t) ==
  /\ pc[t] = "selBlock"
  /\ qtag' = [qtag EXCEPT ![t] = NULL]
  /\ send_que' = [c \in Chans |-> IF c \in Cases(t, "send")
                      THEN Append(send_que[c], Quantum(t, c, TRUE)) ELSE send_que[c]]
  /\ recv_que' = [c \in Chans |-> IF c \in Cases(t, "recv")
                      THEN Append(recv_que[c], Quantum(t, c, TRUE)) ELSE recv_que[c]]
  /\ status' = [status EXCEPT ![t] = "WAIT"]
  /\ rel' = [rel EXCEPT ![t] = got[t]] /\ got' = [got EXCEPT ![t] = {}]
  /\ Goto(t, "selWait")
  /\ UNCHANGED <<lock, close, buf, op, nops, at, closed, res, with, messages>>

\* lock_chain_release, last lock first.
LastLock(locks) == {c \in locks : \A d \in locks : d <= c}

\* The same on behalf of a select that waits.
CoreWaitRelease(t) ==
  /\ \E c \in LastLock(rel[t]) :
       /\ lock' = [lock EXCEPT ![c] = NULL]
       /\ rel' = [rel EXCEPT ![t] = @ \ {c}]
  /\ UNCHANGED <<channels, calls, got, messages>>

\* queue_extract of the entry at index i.
Without(que, i) == SubSeq(que, 1, i - 1) \o SubSeq(que, i + 1, Len(que))

\* queue_extract of t's quantum, if it is still there.
Others(que, t) ==
  LET mine == {i \in DOMAIN que : que[i].task = t}
  IN IF mine = {} THEN que ELSE Without(que, Least(mine))

\* Seeded fault: the quanta of the other cases stay in their queues.
SelDoneKeeps(t) ==
  LET c == qtag[t] IN
  /\ pc[t] = "selDone"
  /\ qtag' = [qtag EXCEPT ![t] = NULL]
  /\ Leave(t, IF closed[t] THEN "closed" ELSE "success", c)
  /\ Fate(t, c \in Cases(t, "send") /\ ~closed[t])
  /\ UNCHANGED <<lock, channels, status, op, nops, at, closed, with, got, rel,
                 delivered, dropped>>

\* Seeded fault: pq->close is not looked at.
SelDoneBlind(t) ==
  LET c == qtag[t] IN
  /\ pc[t] = "selDone"
  /\ send_que' = [d \in Chans |-> Others(send_que[d], t)]
  /\ recv_que' = [d \in Chans |-> Others(recv_que[d], t)]
  /\ qtag' = [qtag EXCEPT ![t] = NULL]
  /\ Leave(t, "success", c)
  /\ Fate(t, c \in Cases(t, "send"))
  /\ UNCHANGED <<lock, close, buf, status, op, nops, at, closed, with, got, rel,
                 delivered, dropped>>

\* With all locks held again, the select takes its quanta out of the queues.
SelDone(t) ==
  LET c == qtag[t] IN
  /\ pc[t] = "selDone"
  /\ send_que' = [d \in Chans |-> IF d \in Cases(t, "send")
                                   THEN Others(send_que[d], t) ELSE send_que[d]]
  /\ recv_que' = [d \in Chans |-> IF d \in Cases(t, "recv")
                                   THEN Others(recv_que[d], t) ELSE recv_que[d]]
  /\ qtag' = [qtag EXCEPT ![t] = NULL]
  /\ Leave(t, IF closed[t] THEN "closed" ELSE "success", c)
  /\ Fate(t, c \in Cases(t, "send") /\ ~closed[t])
  /\ UNCHANGED <<lock, close, buf, status, op, nops, at, closed, with, got, rel,
                 delivered, dropped>>

SelLeave(t) ==
  /\ pc[t] = "selLeave"
  /\ \E c \in LastLock(got[t]) :
       /\ lock' = [lock EXCEPT ![c] = NULL]
       /\ got' = [got EXCEPT ![t] = @ \ {c}]
       /\ IF got[t] = {c} THEN Goto(t, "idle") ELSE UNCHANGED pc
  /\ UNCHANGED <<channels, status, qtag, op, nops, at, closed, res, with, rel, messages>>
-----------------------------------------------------------------------------
Step(t) ==
  \/ Send(t) \/ Recv(t) \/ Block(t, "send") \/ Block(t, "recv") \/ Awaken(t)
  \/ Close(t) \/ SelLock(t) \/ SelSuccess(t) \/ SelFail(t) \/ SelBlock(t)
  \/ CoreWaitRelease(t) \/ SelDone(t) \/ SelLeave(t)

Next == \E t \in Tasks : Call(t) \/ Step(t)

Spec == Init /\ [][Next]_vars

(***************************************************************************)
(* A coroutine that can run does, and core_wait completes.  The locks are  *)
(* spin locks without a queue, but each one is taken a bounded number of   *)
(* times, so that weak fairness is enough.                                 *)
(***************************************************************************)
FairSpec == Spec /\ \A t \in Tasks : WF_vars(Step(t)) /\ WF_vars(CoreWaitRelease(t))
-----------------------------------------------------------------------------
(* Properties *)

Quanta(que, c) == {que[c][i] : i \in DOMAIN que[c]}

\* The places of v in the buffers.
Slots(v) == UNION {{<<c, i>> : i \in {j \in DOMAIN buf[c] : buf[c][j] = v}} : c \in Chans}

\* Every variable has its type, and no buffer holds more than its size.
TypeOK ==
  /\ lock \in [Chans -> Tasks \cup {NULL}]
  /\ close \in [Chans -> BOOLEAN]
  /\ buf \in [Chans -> Seq(Messages)] /\ \A c \in Chans : Len(buf[c]) <= Capacity[c]
  /\ send_que \in [Chans -> Seq(QuantumType)] /\ recv_que \in [Chans -> Seq(QuantumType)]
  /\ status \in [Tasks -> {"RUNNING", "WAIT"}] /\ qtag \in [Tasks -> Chans \cup {NULL}]
  /\ pc \in [Tasks -> {"idle", "send", "recv", "close", "sendWait", "recvWait", "selLock",
                       "selTry", "selBlock", "selWait", "selDone", "selLeave"}]
  /\ DOMAIN op = Tasks /\ nops \in [Tasks -> 0..MaxOps] /\ at \in [Tasks -> Nat]
  /\ closed \in [Tasks -> BOOLEAN] /\ with \in [Tasks -> SUBSET Chans]
  /\ res \in [Tasks -> [code : {"none", "success", "closed", "busy"},
                        chan : Chans \cup {NULL}]]
  /\ got \in [Tasks -> SUBSET Chans] /\ rel \in [Tasks -> SUBSET Chans]
  /\ delivered \in [Messages -> Nat]
  /\ accepted \subseteq Messages /\ refused \subseteq Messages /\ dropped \subseteq Messages

\* A message is never duplicated; one whose send was successful is received or
\* still in the buffer (or released by close), and one whose send failed is
\* received by nobody.
Conserved ==
  \A v \in Messages :
    LET places == delivered[v] + (IF Slots(v) # {} THEN 1 ELSE 0)
                               + (IF v \in dropped THEN 1 ELSE 0) IN
    /\ places <= 1 /\ \A x, y \in Slots(v) : x = y
    /\ v \in accepted => places = 1
    /\ v \in refused => places = 0

\* A call, and a select with all its cases, takes part in at most one transfer,
\* and reports exactly that one.
OneTransfer ==
  \A t \in Tasks :
    /\ \A c, d \in with[t] : c = d
    /\ pc[t] = "idle" /\ res[t].code # "none" =>
         with[t] = IF res[t].code = "success" THEN {res[t].chan} ELSE {}

\* The assertion of vpu_ready: a quantum that fetch_quantum can return belongs
\* to a coroutine that waits, in a call that uses this channel.
FetchesWaiting ==
  \A c \in Chans : lock[c] = NULL =>
    \A q \in Waiters(c) :
      /\ status[q.task] = "WAIT"
      /\ pc[q.task] \in {"sendWait", "recvWait", "selWait"}

\* The memory of a quantum is valid while the quantum is queued: the stack of
\* a call that waits, or the array that a select frees in the end.  Likewise
\* the set of a select is not used by core_wait after the select returned.
NoDangling ==
  /\ \A c \in Chans : \A q \in Quanta(send_que, c) \cup Quanta(recv_que, c) :
       IF q.select
       THEN pc[q.task] \in {"selWait", "selDone"} /\ c \in Set(q.task)
       ELSE pc[q.task] \in {"sendWait", "recvWait"} /\ c = op[q.task].chan
  /\ \A t \in Tasks : rel[t] # {} => pc[t] = "selWait"

\* Nobody waits to receive what is there: while a receiver waits, the buffer is
\* empty and no other coroutine waits to send.
NoMissedMatch ==
  \A c \in Chans : lock[c] = NULL /\ Fetchable(recv_que[c]) # {} =>
    /\ buf[c] = <<>>
    /\ Fetchable(send_que[c]) = {}

\* Selects that overlap do not wait for each other for ever.
LocksFreed == \A c \in Chans : lock[c] # NULL ~> lock[c] = NULL

WaitsOnOpen(t) == pc[t] = "selWait" => \A c \in Set(t) : ~close[c]

\* "chan_close: tasks blocked in << and >> return false": an operation that waits for a
\* channel returns once the channel is closed, and so does a select that waits on open
\* channels only when one of them is closed.  A select that begins when one of its
\* channels is closed already is excepted: it queues its quanta there and may wait for
\* ever (channel.c 312-331).
CloseEndsWaits ==
  \A t \in Tasks :
    /\ (pc[t] \in {"sendWait", "recvWait"} /\ close[op[t].chan]) ~> pc[t] = "idle"
    /\ [](pc[t] = "selWait" /\ WaitsOnOpen(t) => <>(pc[t] = "idle") \/ []WaitsOnOpen(t))
-----------------------------------------------------------------------------
(* The inductive invariant *)

\* A coroutine is where its call can take it.
Calling ==
  \A t \in Tasks : pc[t] # "idle" =>
    /\ nops[t] > 0 /\ op[t] \in Programs[t]
    /\ op[t].kind = IF pc[t] \in {"send", "sendWait"} THEN "send"
                    ELSE IF pc[t] \in {"recv", "recvWait"} THEN "recv"
                    ELSE IF pc[t] = "close" THEN "close" ELSE "select"
    /\ pc[t] = "selLock" => at[t] = 0
    /\ pc[t] = "selTry" => at[t] < Len(op[t].cases)
    /\ pc[t] = "selBlock" => at[t] = Len(op[t].cases)

\* A select holds the locks it has acquired and those that core_wait has not released
\* yet; these are the first ones of its set, so that it cannot go on before core_wait
\* has released the last.
Chained ==
  \A t \in Tasks :
    /\ \A c \in got[t] \cup rel[t] : lock[c] = t
    /\ pc[t] \in {"selLock", "selTry", "selBlock", "selWait", "selDone", "selLeave"} =>
         got[t] \cup rel[t] \subseteq Set(t)
    /\ pc[t] \in {"idle", "send", "recv", "close", "sendWait", "recvWait"} => got[t] = {}
    /\ pc[t] \in {"selTry", "selBlock", "selDone"} => got[t] = Set(t)
    /\ rel[t] # {} => /\ pc[t] = "selWait" /\ got[t] = {}
                      /\ \A c \in rel[t], d \in Set(t) : d <= c => d \in rel[t]

\* Who waits, and for which channel a select has been served.
Waiting ==
  \A t \in Tasks :
    /\ status[t] = "WAIT" => pc[t] \in {"sendWait", "recvWait", "selWait"}
    /\ pc[t] \in {"selWait", "selDone"} => (qtag[t] = NULL <=> status[t] = "WAIT")

\* The call that a quantum in a queue of c belongs to.
Belongs(q, c, type) ==
  /\ q.chan = c
  /\ IF q.select
     THEN pc[q.task] \in {"selWait", "selDone"} /\ c \in Cases(q.task, type)
     ELSE /\ pc[q.task] = IF type = "send" THEN "sendWait" ELSE "recvWait"
          /\ op[q.task].chan = c /\ status[q.task] = "WAIT"

Once(que) == \A i, j \in DOMAIN que : que[i].task = que[j].task => i = j

Queued ==
  \A c \in Chans :
    /\ \A q \in Quanta(send_que, c) : Belongs(q, c, "send")
    /\ \A q \in Quanta(recv_que, c) : Belongs(q, c, "recv")
    /\ Once(send_que[c]) /\ Once(recv_que[c])

\* The case e of a select cannot succeed.
NoMatch(e) ==
  IF e.type = "send" THEN Fetchable(recv_que[e.chan]) = {}
  ELSE buf[e.chan] = <<>> /\ Fetchable(send_que[e.chan]) = {}

\* No match is missed, at no time; and a select has found none in the cases it tried.
Unmatched ==
  /\ \A c \in Chans : Fetchable(recv_que[c]) # {} =>
                        buf[c] = <<>> /\ Fetchable(send_que[c]) = {}
  /\ \A t \in Tasks : pc[t] \in {"selTry", "selBlock"} =>
                        \A i \in 1..at[t] : NoMatch(op[t].cases[i])

\* The transfer that the current, or the last, call of t has taken part in.
Transfer(t) ==
  IF pc[t] \in {"idle", "selLeave"}
  THEN IF res[t].code = "success" THEN {res[t].chan} ELSE {}
  ELSE IF closed[t] \/ status[t] = "WAIT" THEN {}
  ELSE IF pc[t] \in {"sendWait", "recvWait"} THEN {op[t].chan}
  ELSE IF pc[t] \in {"selWait", "selDone"} THEN {qtag[t]} ELSE {}

Transfers ==
  \A t \in Tasks :
    /\ with[t] = Transfer(t)
    /\ pc[t] \notin {"sendWait", "recvWait", "selWait", "selDone", "idle", "selLeave"} \/
       status[t] = "WAIT" => ~closed[t]

\* The message of the current call of t has been taken from it while it waited.
Sent(t) ==
  /\ pc[t] \in {"sendWait", "selWait", "selDone"} /\ status[t] = "RUNNING" /\ ~closed[t]
  /\ pc[t] # "sendWait" => qtag[t] \in Cases(t, "send")

Nowhere(v) == delivered[v] = 0 /\ v \notin dropped /\ Slots(v) = {}

InOnePlace(v) ==
  /\ delivered[v] <= 1 /\ \A x, y \in Slots(v) : x = y
  /\ delivered[v] = 1 => v \notin dropped /\ Slots(v) = {}
  /\ v \in dropped => Slots(v) = {}

\* A message is in at most one place: in one if its sender knows it accepted or if it was
\* taken from the sender, in none if it was refused or its sender still has it.
Accounted ==
  /\ \A v \in Messages :
       /\ InOnePlace(v)
       /\ v \in accepted => ~Nowhere(v)
       /\ v \in refused => Nowhere(v)
       /\ v[2] > nops[v[1]] => Nowhere(v) /\ v \notin accepted \cup refused
  /\ \A t \in Tasks : pc[t] \notin {"idle", "selLeave"} =>
       /\ Message(t) \notin accepted \cup refused
       /\ Nowhere(Message(t)) <=> ~Sent(t)
=============================================================================
