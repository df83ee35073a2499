------------------------ MODULE ChannelMessageProofs ------------------------
EXTENDS ChannelProofs

\* A select that has been served stays so while it has quanta in the queues.
Mono ==
  \A c \in Chans, type \in {"send", "recv"} : \A q \in Quanta(Que(type)', c) :
    qtag[q.task] # NULL => qtag'[q.task] # NULL

\* A queue in which nobody waits stays so when quanta are only taken out.
LEMMA FetchableKept ==
  ASSUME NEW c \in Chans, NEW type \in {"send", "recv"}, Mono,
         Kept(Que(type)'[c], Que(type)[c]), Fetchable(Que(type)[c]) = {}
  PROVE Fetchable(Que(type)[c])' = {}
<1> SUFFICES ASSUME NEW i \in DOMAIN Que(type)'[c],
                    Que(type)'[c][i].select => qtag'[Que(type)'[c][i].task] = NULL
             PROVE  FALSE
  BY Zenon DEF Fetchable
<1> DEFINE q == Que(type)'[c][i]
<1>1. PICK k \in DOMAIN Que(type)[c] : q = Que(type)[c][k]
  BY Zenon DEF Kept
<1>2. q \in Quanta(Que(type)', c)
  BY Zenon DEF Quanta
<1>3. q.select /\ qtag[q.task] # NULL
  BY Zenon, <1>1 DEF Fetchable
<1> QED BY Zenon, <1>2, <1>3 DEF Mono

\* A case of x after a step.
LEMMA NoMatchIs ==
  ASSUME NEW x, NEW i, NEW e, op'[x].cases[i] = e
  PROVE NoMatch(op[x].cases[i])' <=> NoMatch(e)'
BY Zenon DEF NoMatch, Fetchable

\* The cases that a select has tried are cases of its set.
LEMMA PrefixIs ==
  ASSUME NEW a \in Nat, NEW n \in Nat, a < n \/ a = n, NEW i \in 1..a
  PROVE i \in 1..n
OBVIOUS

\* Matches stay found when quanta are only taken out of the queues, a message is put in
\* a buffer only if nobody waits for it, and the locks of the selects are respected.
LEMMA UnmatchedKept ==
  ASSUME SInv, Unmatched, Mono, NEW t \in Tasks,
         \A c \in Chans : Kept(send_que'[c], send_que[c]) /\ Kept(recv_que'[c], recv_que[c]),
         \A c \in Chans : \/ buf'[c] = buf[c] \/ buf'[c] = <<>> \/ buf[c] # <<>>
                          \/ Fetchable(recv_que[c]) = {} /\ lock[c] \in {NULL, t},
         \A x \in Tasks : x # t => pc'[x] = pc[x] /\ op'[x] = op[x] /\ at'[x] = at[x],
         pc'[t] \in {"selTry", "selBlock"} =>
           op'[t] = op[t] /\ \A i \in 1..at'[t] : \A e : e = op[t].cases[i] => NoMatch(e)'
  PROVE Unmatched'
<1> TypeOK /\ Calling /\ Chained /\ Waiting /\ Queued
  BY Zenon DEF SInv
<1>1. \A c \in Chans : /\ Fetchable(send_que[c]) = {} => Fetchable(send_que[c])' = {}
                       /\ Fetchable(recv_que[c]) = {} => Fetchable(recv_que[c])' = {}
  BY Zenon, FetchableKept DEF Que
<1>2. \A c \in Chans : Fetchable(recv_que[c])' # {} =>
                         buf'[c] = <<>> /\ Fetchable(send_que[c])' = {}
  BY Zenon, <1>1 DEF Unmatched
<1>3. ASSUME NEW x \in Tasks, x # t, pc[x] \in {"selTry", "selBlock"}, NEW i \in 1..at[x],
             NEW e, e = op[x].cases[i]
      PROVE  NoMatch(e)'
  <2>1. i \in DOMAIN op[x].cases
    <3>1. op[x].cases \in Seq([chan : Chans, type : {"send", "recv"}])
      BY Zenon, <1>3, CallIs
    <3>2. /\ Len(op[x].cases) \in Nat /\ DOMAIN op[x].cases = 1..Len(op[x].cases)
          /\ at[x] \in Nat /\ (at[x] < Len(op[x].cases) \/ at[x] = Len(op[x].cases))
      <4>1. Len(op[x].cases) \in Nat /\ DOMAIN op[x].cases = 1..Len(op[x].cases)
        BY <3>1
      <4>2. at[x] \in Nat
        BY Zenon DEF TypeOK
      <4>3. at[x] < Len(op[x].cases) \/ at[x] = Len(op[x].cases)
        BY Zenon, <1>3 DEF Calling
      <4> QED BY Zenon, <4>1, <4>2, <4>3
    <3>3. i \in 1..Len(op[x].cases)
      BY Zenon, <3>2, PrefixIs
    <3> QED BY Zenon, <3>2, <3>3
  <2>2. e.chan \in Set(x) /\ Set(x) \subseteq Chans
    BY Zenon, <1>3, <2>1, CallIs DEF Set
  <2>3. lock[e.chan] = x
    BY <1>3, <2>2 DEF Chained
  <2>4. NoMatch(e)
    BY Zenon, <1>3 DEF Unmatched
  <2>5. buf[e.chan] = <<>> => buf'[e.chan] = <<>>
    <3>1. e.chan \in Chans /\ x # NULL
      BY Zenon, <2>2, ChannelAssumption
    <3>2. lock[e.chan] \notin {NULL, t}
      BY Zenon, <1>3, <2>3, <3>1
    <3> QED BY Zenon, <3>1, <3>2
  <2> QED BY Zenon, <1>1, <2>2, <2>4, <2>5 DEF NoMatch
<1>4. ASSUME NEW x \in Tasks, pc'[x] \in {"selTry", "selBlock"}, NEW i \in 1..at'[x]
      PROVE  NoMatch(op[x].cases[i])'
  <2>1. PICK e : e = op[x].cases[i]
    BY Zenon
  <2>2. op'[x] = op[x] /\ NoMatch(e)'
    BY Zenon, <1>3, <1>4, <2>1
  <2>3. op'[x].cases[i] = e
    BY Zenon, <2>1, <2>2
  <2>4. NoMatch(op[x].cases[i])' <=> NoMatch(e)'
    BY Zenon, <2>3, NoMatchIs
  <2> QED BY Zenon, <2>2, <2>4
<1> QED BY Zenon, <1>2, <1>4 DEF Unmatched


\* Whoever is made ready by fetch_quantum is marked as served.
LEMMA WakesMono ==
  ASSUME SInv, Wakes,
         \A c \in Chans : Kept(send_que'[c], send_que[c]) /\ Kept(recv_que'[c], recv_que[c])
  PROVE Mono
<1> TypeOK /\ Calling /\ Chained /\ Waiting /\ Queued
  BY Zenon DEF SInv
<1>1. \A c \in Chans, type \in {"send", "recv"} : \A q \in Quanta(Que(type)', c) : q.task \in Tasks
  BY QuantaTyped DEF Kept, Quanta, Que
<1>2. \A x \in Tasks : qtag[x] # NULL => qtag'[x] # NULL
  BY ChannelAssumption DEF Wakes, Served, TypeOK
<1> QED BY Zenon, <1>1, <1>2 DEF Mono

\* A step that leaves the queues and the buffers alone.
LEMMA QuietUnmatched ==
  ASSUME SInv, Unmatched, NEW t \in Tasks, UNCHANGED <<buf, send_que, recv_que, qtag>>,
         \A x \in Tasks : x # t => pc'[x] = pc[x] /\ op'[x] = op[x] /\ at'[x] = at[x],
         \/ pc'[t] \notin {"selTry", "selBlock"}
         \/ op'[t] = op[t] /\ at'[t] = 0
         \/ pc'[t] = pc[t] /\ op'[t] = op[t] /\ at'[t] = at[t]
  PROVE Unmatched'
<1>1. \A c \in Chans : Kept(send_que'[c], send_que[c]) /\ Kept(recv_que'[c], recv_que[c])
  BY Zenon DEF Kept
<1>2. Mono
  BY Zenon DEF Mono
<1>3. ASSUME NEW i \in 1..at'[t], NEW e, e = op[t].cases[i], pc'[t] \in {"selTry", "selBlock"}
      PROVE  NoMatch(e)'
  <2>1. pc'[t] = pc[t] /\ op'[t] = op[t] /\ at'[t] = at[t]
    BY <1>3
  <2>2. NoMatch(e)
    BY Zenon, <1>3, <2>1 DEF Unmatched
  <2> QED BY Zenon, <2>2 DEF NoMatch, Fetchable
<1> QED BY Zenon, <1>1, <1>2, <1>3, UnmatchedKept

\* A successful attempt to send finds who waits first.
LEMMA SendMatches ==
  ASSUME SInv, NEW t \in Tasks, pc[t] # "idle", NEW c \in Chans, SendSuccess(t, c),
         lock[c] \in {NULL, t}
  PROVE /\ Mono
        /\ \A d \in Chans : Kept(send_que'[d], send_que[d]) /\ Kept(recv_que'[d], recv_que[d])
        /\ \A d \in Chans : \/ buf'[d] = buf[d] \/ buf'[d] = <<>> \/ buf[d] # <<>>
                            \/ Fetchable(recv_que[d]) = {} /\ lock[d] \in {NULL, t}
<1> TypeOK /\ Calling /\ Chained /\ Waiting /\ Queued
  BY Zenon DEF SInv
<1>1. \A d \in Chans : Kept(send_que'[d], send_que[d]) /\ Kept(recv_que'[d], recv_que[d])
  BY Zenon, SendIs DEF Kept
<1>2. Mono
  BY Zenon, <1>1, SendTyped, WakesMono
<1>3. ASSUME NEW d \in Chans
      PROVE  buf'[d] = buf[d] \/ (Fetchable(recv_que[d]) = {} /\ lock[d] \in {NULL, t})
  <2>1. CASE \E u \in Tasks : Handover(t, u, c, "recv", Message(t))
    BY Zenon, <2>1 DEF Handover
  <2>2. CASE Fetchable(recv_que[c]) = {} /\ buf' = [buf EXCEPT ![c] = Append(@, Message(t))]
    BY Zenon, <2>2 DEF TypeOK
  <2> QED BY Zenon, <2>1, <2>2, SendIs
<1> QED BY Zenon, <1>1, <1>2, <1>3

\* A successful attempt to receive leaves nobody behind who could be matched.
LEMMA RecvMatches ==
  ASSUME SInv, NEW t \in Tasks, NEW c \in Chans, RecvSuccess(t, c)
  PROVE /\ Mono
        /\ \A d \in Chans : Kept(send_que'[d], send_que[d]) /\ Kept(recv_que'[d], recv_que[d])
        /\ \A d \in Chans : buf'[d] = buf[d] \/ buf[d] # <<>>
<1> TypeOK /\ Calling /\ Chained /\ Waiting /\ Queued
  BY Zenon DEF SInv
<1>1. \A d \in Chans : Kept(send_que'[d], send_que[d]) /\ Kept(recv_que'[d], recv_que[d])
  BY Zenon, RecvIs DEF Kept
<1>2. Mono
  BY Zenon, <1>1, RecvTyped, WakesMono
<1>3. ASSUME NEW d \in Chans
      PROVE  buf'[d] = buf[d] \/ buf[d] # <<>>
  <2>1. CASE \E u \in Tasks : Handover(t, u, c, "send", Message(u))
    BY Zenon, <2>1 DEF Handover
  <2>2. CASE buf[c] # <<>> /\ buf' = [buf EXCEPT ![c] = Tail(@)]
    BY Zenon, <2>2 DEF TypeOK
  <2> QED BY Zenon, <2>1, <2>2, RecvIs
<1> QED BY Zenon, <1>1, <1>2, <1>3

\* An attempt that fails.
LEMMA FailMatches ==
  ASSUME SInv, NEW c \in Chans, NEW type \in {"send", "recv"}, Fail(type, c),
         UNCHANGED <<buf, qtag>>
  PROVE /\ Mono
        /\ \A d \in Chans : Kept(send_que'[d], send_que[d]) /\ Kept(recv_que'[d], recv_que[d])
        /\ \A e : e.type = type /\ e.chan = c => NoMatch(e)'
<1> TypeOK /\ Calling /\ Chained /\ Waiting /\ Queued
  BY Zenon DEF SInv
<1>1. Mono
  BY Zenon DEF Mono
<1>2. CASE type = "send"
  <2>1. recv_que'[c] = <<>>
    BY Zenon, <1>2 DEF Fail, SendFail, TypeOK
  <2>2. Fetchable(recv_que[c])' = {}
    BY <2>1 DEF Fetchable
  <2> QED BY Zenon, <1>1, <1>2, <2>2, FailIs DEF NoMatch
<1>3. CASE type = "recv"
  <2>1. send_que'[c] = <<>> /\ buf[c] = <<>>
    BY Zenon, <1>3 DEF Fail, RecvFail, RecvCode, TypeOK
  <2>2. Fetchable(send_que[c])' = {}
    BY <2>1 DEF Fetchable
  <2> QED BY Zenon, <1>1, <1>3, <2>1, <2>2, FailIs DEF NoMatch
<1> QED BY Zenon, <1>2, <1>3


-----------------------------------------------------------------------------
(* Transfers *)

\* The account of a call that has not moved on.
LEMMA SameTransfer ==
  ASSUME NEW x, pc'[x] = pc[x], res'[x] = res[x], closed'[x] = closed[x],
         status'[x] = status[x], op'[x] = op[x], qtag'[x] = qtag[x]
  PROVE Transfer(x)' = Transfer(x)
BY Zenon DEF Transfer

\* A step that changes the account of t only.
LEMMA OwnTransfer ==
  ASSUME Transfers, NEW t \in Tasks,
         \A x \in Tasks : x # t => /\ pc'[x] = pc[x] /\ res'[x] = res[x] /\ closed'[x] = closed[x]
                                   /\ status'[x] = status[x] /\ op'[x] = op[x]
                                   /\ qtag'[x] = qtag[x] /\ with'[x] = with[x],
         with'[t] = Transfer(t)',
         pc'[t] \notin {"sendWait", "recvWait", "selWait", "selDone", "idle", "selLeave"} \/
           status'[t] = "WAIT" => ~closed'[t]
  PROVE Transfers'
<1>1. ASSUME NEW x \in Tasks, x # t
      PROVE  with'[x] = Transfer(x)'
  <2>1. Transfer(x)' = Transfer(x)
    BY Zenon, <1>1, SameTransfer
  <2> QED BY Zenon, <1>1, <2>1 DEF Transfers
<1> QED BY Zenon, <1>1 DEF Transfers

\* A handover is the transfer of both.
LEMMA HandoverTransfers ==
  ASSUME SInv, Transfers, NEW t \in Tasks, NEW u \in Tasks, NEW c \in Chans,
         NEW type \in {"send", "recv"}, NEW v, Handover(t, u, c, type, v),
         pc[t] \in {"send", "recv", "selTry"}, NEW l \in {"idle", "selLeave"},
         pc' = [pc EXCEPT ![t] = l], UNCHANGED <<op, closed>>,
         res' = [res EXCEPT ![t] = [code |-> "success", chan |-> c]]
  PROVE Transfers'
<1> TypeOK /\ Calling /\ Chained /\ Waiting /\ Queued
  BY Zenon DEF SInv
<1>1. /\ status[u] = "WAIT" /\ status'[u] = "RUNNING" /\ u # t
      /\ pc[u] \in {"sendWait", "recvWait"} => op[u].chan = c
      /\ pc[u] \notin {"sendWait", "recvWait"} => pc[u] = "selWait" /\ qtag'[u] = c
      /\ \A x \in Tasks : x # u => status'[x] = status[x] /\ qtag'[x] = qtag[x]
  BY Zenon DEF Handover, Served, TypeOK
<1>2. /\ with'[t] = with[t] \cup {c} /\ with'[u] = with[u] \cup {c}
      /\ \A x \in Tasks : x \notin {t, u} => with'[x] = with[x]
  BY Zenon, <1>1 DEF Handover, TypeOK
<1>3. /\ pc'[t] = l /\ res'[t] = [code |-> "success", chan |-> c]
      /\ \A x \in Tasks : x # t => pc'[x] = pc[x] /\ res'[x] = res[x]
  BY Zenon DEF TypeOK
<1>4. with[t] = {} /\ with[u] = {} /\ ~closed[t] /\ ~closed[u] /\ status[t] # "WAIT"
  BY Zenon, <1>1 DEF Transfers, Transfer, Waiting
<1>5. with'[t] = Transfer(t)'
  BY <1>2, <1>3, <1>4 DEF Transfer
<1>6. with'[u] = Transfer(u)'
  <2>1. pc'[u] = pc[u] /\ pc[u] \in {"sendWait", "recvWait", "selWait"} /\ closed'[u] = closed[u]
    BY Zenon, <1>1, <1>3
  <2> QED BY Zenon, <1>1, <1>2, <1>4, <2>1 DEF Transfer
<1>7. ASSUME NEW x \in Tasks, x \notin {t, u}
      PROVE  with'[x] = Transfer(x)'
  <2>1. Transfer(x)' = Transfer(x)
    BY Zenon, <1>1, <1>3, <1>7, SameTransfer
  <2> QED BY Zenon, <1>2, <1>7, <2>1 DEF Transfers
<1> QED BY Zenon, <1>1, <1>3, <1>4, <1>5, <1>6, <1>7 DEF Transfers


-----------------------------------------------------------------------------
(* The places of the messages *)

\* A place in a buffer.
LEMMA SlotIs ==
  ASSUME NEW v, NEW x
  PROVE /\ x \in Slots(v) <=>
             \E c \in Chans : \E i \in DOMAIN buf[c] : x = <<c, i>> /\ buf[c][i] = v
        /\ x \in Slots(v)' <=>
             \E c \in Chans : \E i \in DOMAIN buf'[c] : x = <<c, i>> /\ buf'[c][i] = v
BY DEF Slots

\* A message that goes straight to its receiver.
LEMMA DeliverPlaces ==
  ASSUME SInv, NEW w \in Messages, InOnePlace(w), Nowhere(w),
         \A v \in Messages : InOnePlace(v),
         delivered' = [delivered EXCEPT ![w] = @ + 1], buf' = buf, dropped' = dropped,
         NEW v \in Messages
  PROVE InOnePlace(v)' /\ (Nowhere(v)' <=> Nowhere(v) /\ v # w)
<1> TypeOK /\ Calling /\ Chained /\ Waiting /\ Queued
  BY Zenon DEF SInv
<1>1. Slots(v)' = Slots(v)
  BY DEF Slots
<1>2. delivered'[v] = IF v = w THEN delivered[v] + 1 ELSE delivered[v]
  BY Zenon DEF TypeOK
<1>3. v = w => delivered[v] = 0 /\ delivered'[v] = 1 /\ v \notin dropped /\ Slots(v) = {}
  BY <1>2 DEF Nowhere
<1>4. CASE v = w
  BY <1>1, <1>3, <1>4 DEF InOnePlace, Nowhere
<1>5. CASE v # w
  BY Zenon, <1>1, <1>2, <1>5 DEF InOnePlace, Nowhere
<1> QED BY Zenon, <1>4, <1>5

\* A message that goes to the buffer of c.
LEMMA BufferPlaces ==
  ASSUME SInv, NEW w \in Messages, Nowhere(w), \A v \in Messages : InOnePlace(v),
         NEW c \in Chans, buf' = [buf EXCEPT ![c] = Append(@, w)],
         delivered' = delivered, dropped' = dropped, NEW v \in Messages
  PROVE InOnePlace(v)' /\ (Nowhere(v)' <=> Nowhere(v) /\ v # w)
<1> TypeOK /\ Calling /\ Chained /\ Waiting /\ Queued
  BY Zenon DEF SInv
<1> DEFINE n == Len(buf[c]) + 1
<1>1. buf[c] \in Seq(Messages) /\ n \in Nat
  BY DEF TypeOK
<1>2. /\ DOMAIN buf'[c] = 1..n /\ DOMAIN buf[c] = 1..(n - 1) /\ buf'[c][n] = w
      /\ \A i \in 1..(n - 1) : buf'[c][i] = buf[c][i]
      /\ \A d \in Chans : d # c => buf'[d] = buf[d]
  <2>1. buf'[c] = Append(buf[c], w) /\ \A d \in Chans : d # c => buf'[d] = buf[d]
    BY Zenon DEF TypeOK
  <2> QED BY <1>1, <2>1, SeqAppendIs
<1> HIDE DEF n
<1>3. n \in 1..n /\ n \notin 1..(n - 1) /\ 1..n = 1..(n - 1) \cup {n}
  <2>1. n \in Nat \ {0}
    BY <1>1 DEF n
  <2> QED BY <2>1
<1>4. CASE v # w
  <2>1. \A x : x \in Slots(v)' <=> x \in Slots(v)
    BY <1>2, <1>3, <1>4, SlotIs
  <2>2. Slots(v)' = Slots(v)
    BY Zenon, <2>1 DEF Slots
  <2> QED BY Zenon, <1>4, <2>2 DEF InOnePlace, Nowhere
<1>5. CASE v = w
  <2>1. \A x : ~(x \in Slots(w))
    BY Zenon DEF Nowhere
  <2>2. \A x : x \in Slots(w)' <=> x = <<c, n>>
    <3>1. \A d \in Chans : \A i \in DOMAIN buf[d] : buf[d][i] # w
      BY Zenon, <2>1, SlotIs
    <3> QED BY <1>2, <1>3, <3>1, SlotIs
  <2>3. <<c, n>> \in Slots(w)' /\ \A x, y \in Slots(w)' : x = y
    BY <2>2
  <2>4. delivered'[w] = 0 /\ w \notin dropped'
    BY Zenon DEF Nowhere
  <2>5. InOnePlace(w)' /\ ~Nowhere(w)'
    BY <2>3, <2>4 DEF InOnePlace, Nowhere
  <2> QED BY Zenon, <1>5, <2>5
<1> QED BY Zenon, <1>4, <1>5

\* A message that a receiver takes from the buffer of c.
LEMMA TakePlaces ==
  ASSUME SInv, \A v \in Messages : InOnePlace(v), NEW c \in Chans, buf[c] # <<>>,
         buf' = [buf EXCEPT ![c] = Tail(@)],
         delivered' = [delivered EXCEPT ![Head(buf[c])] = @ + 1],
         dropped' = dropped, NEW v \in Messages
  PROVE InOnePlace(v)' /\ (Nowhere(v)' <=> Nowhere(v))
<1> TypeOK /\ Calling /\ Chained /\ Waiting /\ Queued
  BY Zenon DEF SInv
<1> DEFINE n == Len(buf[c]) - 1
           h == Head(buf[c])
<1>1. buf[c] \in Seq(Messages) /\ n \in Nat /\ h \in Messages /\ h = buf[c][1]
  BY TailIs DEF TypeOK
<1>2. /\ DOMAIN buf'[c] = 1..n /\ DOMAIN buf[c] = 1..(n + 1)
      /\ \A i \in 1..n : buf'[c][i] = buf[c][i + 1]
      /\ \A d \in Chans : d # c => buf'[d] = buf[d]
  <2>1. buf'[c] = Tail(buf[c]) /\ \A d \in Chans : d # c => buf'[d] = buf[d]
    BY Zenon DEF TypeOK
  <2>2. /\ Tail(buf[c]) \in Seq(Messages) /\ Len(Tail(buf[c])) = n
        /\ \A i \in 1..n : Tail(buf[c])[i] = buf[c][i + 1]
    BY Zenon, <1>1, TailIs
  <2>3. DOMAIN Tail(buf[c]) = 1..n /\ DOMAIN buf[c] = 1..(n + 1)
    BY <1>1, <2>2, IndexIs
  <2> QED BY Zenon, <2>1, <2>2, <2>3
<1>3. delivered'[v] = IF v = h THEN delivered[v] + 1 ELSE delivered[v]
  BY Zenon, <1>1 DEF TypeOK
<1> HIDE DEF n, h
<1>4. <<c, 1>> \in Slots(h)
  BY <1>1, <1>2, SlotIs
<1>5. \A i \in 1..n : i + 1 \in 1..(n + 1) /\ i + 1 # 1
  BY <1>1
<1>6. CASE v = h
  <2>1. delivered[v] = 0 /\ v \notin dropped /\ \A x \in Slots(v) : x = <<c, 1>>
    <3>1. InOnePlace(v) /\ delivered[v] \in Nat
      BY Zenon DEF TypeOK
    <3> QED BY <1>4, <1>6, <3>1 DEF InOnePlace
  <2>2. \A d \in Chans : \A i \in DOMAIN buf[d] : buf[d][i] = v => d = c /\ i = 1
    BY Zenon, <2>1, SlotIs
  <2>3. ASSUME NEW d \in Chans, NEW i \in DOMAIN buf'[d], buf'[d][i] = v
        PROVE  FALSE
    <3>1. CASE d = c
      <4>1. i \in 1..n /\ buf[c][i + 1] = v
        BY Zenon, <1>2, <2>3, <3>1
      <4>2. i + 1 \in DOMAIN buf[c] /\ i + 1 # 1
        BY Zenon, <1>2, <1>5, <4>1
      <4> QED BY Zenon, <2>2, <4>1, <4>2
    <3>2. CASE d # c
      BY Zenon, <1>2, <2>2, <2>3, <3>2
    <3> QED BY Zenon, <3>1, <3>2
  <2>4. \A x : ~(x \in Slots(v)')
    BY Zenon, <2>3, SlotIs
  <2> QED BY <1>3, <1>4, <1>6, <2>1, <2>4 DEF InOnePlace, Nowhere
<1>7. CASE v # h
  <2>1. ASSUME NEW d \in Chans, NEW i \in DOMAIN buf'[d], buf'[d][i] = v
        PROVE  /\ IF d = c THEN i + 1 \in DOMAIN buf[c] /\ buf[c][i + 1] = v
                  ELSE i \in DOMAIN buf[d] /\ buf[d][i] = v
               /\ <<d, IF d = c THEN i + 1 ELSE i>> \in Slots(v)
    <3>1. IF d = c THEN i + 1 \in DOMAIN buf[c] /\ buf[c][i + 1] = v
          ELSE i \in DOMAIN buf[d] /\ buf[d][i] = v
      BY Zenon, <1>2, <1>5, <2>1
    <3> QED BY Zenon, <3>1, SlotIs
  <2>2. \A x, y \in Slots(v)' : x = y
    <3> SUFFICES ASSUME NEW d \in Chans, NEW i \in DOMAIN buf'[d], buf'[d][i] = v,
                        NEW e \in Chans, NEW j \in DOMAIN buf'[e], buf'[e][j] = v
                 PROVE  d = e /\ i = j
      BY SlotIs
    <3>1. <<d, IF d = c THEN i + 1 ELSE i>> = <<e, IF e = c THEN j + 1 ELSE j>>
      BY Zenon, <2>1 DEF InOnePlace
    <3>2. d = e
      BY Zenon, <3>1
    <3>3. d = c => i \in Nat /\ j \in Nat
      <4>1. ASSUME d = c
            PROVE  i \in 1..n /\ j \in 1..n
        BY Zenon, <1>2, <3>2, <4>1
      <4> QED BY <4>1
    <3> QED BY <3>1, <3>2, <3>3
  <2>3. Slots(v)' # {} => Slots(v) # {}
    BY Zenon, <2>1, SlotIs
  <2>4. ASSUME Slots(v) # {}
        PROVE  Slots(v)' # {}
    <3>1. PICK d \in Chans : \E i \in DOMAIN buf[d] : buf[d][i] = v
      BY <2>4, SlotIs
    <3>2. PICK i \in DOMAIN buf[d] : buf[d][i] = v
      BY Zenon, <3>1
    <3>3. CASE d # c
      BY Zenon, <1>2, <3>2, <3>3, SlotIs
    <3>4. CASE d = c
      <4>1. i \in 1..(n + 1) /\ i # 1
        BY Zenon, <1>1, <1>2, <1>7, <3>2, <3>4
      <4>2. i - 1 \in 1..n /\ (i - 1) + 1 = i
        BY <1>1, <4>1
      <4>3. buf'[c][i - 1] = v
        BY Zenon, <1>2, <3>2, <3>4, <4>2
      <4> QED BY Zenon, <1>2, <4>2, <4>3, SlotIs
    <3> QED BY Zenon, <3>3, <3>4
  <2> QED BY Zenon, <1>3, <1>7, <2>2, <2>3, <2>4 DEF InOnePlace, Nowhere
<1> QED BY Zenon, <1>6, <1>7

\* The messages in the buffer of c that close releases.
LEMMA DropPlaces ==
  ASSUME SInv, \A v \in Messages : InOnePlace(v), NEW c \in Chans,
         buf' = [buf EXCEPT ![c] = <<>>],
         dropped' = dropped \cup {buf[c][i] : i \in DOMAIN buf[c]},
         delivered' = delivered, NEW v \in Messages
  PROVE InOnePlace(v)' /\ (Nowhere(v)' <=> Nowhere(v))
<1> TypeOK /\ Calling /\ Chained /\ Waiting /\ Queued
  BY Zenon DEF SInv
<1>1. buf'[c] = <<>> /\ \A d \in Chans : d # c => buf'[d] = buf[d]
  BY Zenon DEF TypeOK
<1>2. CASE \E i \in DOMAIN buf[c] : buf[c][i] = v
  <2>1. PICK i \in DOMAIN buf[c] : buf[c][i] = v
    BY Zenon, <1>2
  <2>2. <<c, i>> \in Slots(v) /\ v \in dropped'
    BY Zenon, <2>1, SlotIs
  <2>3. \A d \in Chans : \A j \in DOMAIN buf[d] : buf[d][j] = v => d = c
    <3>1. ASSUME NEW d \in Chans, NEW j \in DOMAIN buf[d], buf[d][j] = v
          PROVE  d = c
      <4>1. <<d, j>> \in Slots(v)
        BY Zenon, <3>1, SlotIs
      <4>2. <<d, j>> = <<c, i>>
        BY Zenon, <2>2, <4>1 DEF InOnePlace
      <4> QED BY Zenon, <4>2
    <3> QED BY Zenon, <3>1
  <2>4. \A x : ~(x \in Slots(v)')
    BY <1>1, <2>3, SlotIs
  <2>5. delivered[v] # 1
    BY Zenon, <2>2 DEF InOnePlace
  <2> QED BY Zenon, <2>2, <2>4, <2>5 DEF InOnePlace, Nowhere
<1>3. CASE ~\E i \in DOMAIN buf[c] : buf[c][i] = v
  <2>1. \A x : x \in Slots(v)' <=> x \in Slots(v)
    BY <1>1, <1>3, SlotIs
  <2>2. Slots(v)' = Slots(v) /\ (v \in dropped' <=> v \in dropped)
    BY Zenon, <1>3, <2>1 DEF Slots
  <2> QED BY Zenon, <2>2 DEF InOnePlace, Nowhere
<1> QED BY Zenon, <1>2, <1>3


\* The message of x after a step, and where it is then.
LEMMA NowhereIs ==
  ASSUME NEW x, NEW v, v = Message(x)'
  PROVE Nowhere(Message(x))' <=> Nowhere(v)'
<1>1. \A y : y \in Slots(Message(x))' <=> \E c \in Chans : \E i \in DOMAIN buf'[c] :
                                              y = <<c, i>> /\ buf'[c][i] = Message(x)'
  BY DEF Slots
<1>2. \A y : y \in Slots(Message(x))' <=> y \in Slots(v)'
  BY Zenon, <1>1, SlotIs
<1> QED BY Zenon, <1>2 DEF Nowhere

\* The accounts after a step that finds a place for the messages in P, each one taken
\* from its sender, and that tells nobody but t what became of its message.
LEMMA AccountedStep ==
  ASSUME SInv, Accounted, NEW t \in Tasks, NEW P, nops' = nops,
         \A v \in Messages : InOnePlace(v)' /\ (Nowhere(v)' <=> Nowhere(v) /\ v \notin P),
         \A v \in P : \E x \in Tasks : v = Message(x) /\ pc[x] \notin {"idle", "selLeave"},
         accepted' \subseteq accepted \cup {Message(t)},
         refused' \subseteq refused \cup {Message(t)},
         \A v \in accepted' : v = Message(t) => ~Nowhere(v)',
         \A v \in refused' : v = Message(t) => Nowhere(v)',
         \A x \in Tasks : x # t =>
           pc'[x] = pc[x] /\ (pc[x] \notin {"idle", "selLeave"} =>
                                (Sent(x)' <=> Sent(x) \/ Message(x) \in P)),
         pc'[t] \notin {"idle", "selLeave"} =>
           /\ pc[t] \notin {"idle", "selLeave"} /\ accepted' = accepted /\ refused' = refused
           /\ Sent(t)' <=> Sent(t) \/ Message(t) \in P
  PROVE Accounted'
<1> TypeOK /\ Calling /\ Chained /\ Waiting /\ Queued
  BY Zenon DEF SInv
<1>1. \A x \in Tasks : /\ Message(x)' = Message(x) /\ Message(x)[1] = x
                       /\ Message(x)[2] = nops[x] /\ nops[x] \in Nat
  BY DEF Message, TypeOK
<1>2. \A x, y \in Tasks : Message(x) = Message(y) => x = y
  BY <1>1
<1>3. \A x \in Tasks : pc[x] \notin {"idle", "selLeave"} => Message(x) \in Messages
  BY Zenon, MessageTyped
<1>4. ASSUME NEW v \in Messages
      PROVE  /\ InOnePlace(v)'
             /\ v \in accepted' => ~Nowhere(v)'
             /\ v \in refused' => Nowhere(v)'
             /\ v[2] > nops'[v[1]] => Nowhere(v)' /\ v \notin accepted' \cup refused'
  <2>1. v \in accepted' => ~Nowhere(v)'
    <3>1. v \in accepted => ~Nowhere(v)
      BY Zenon, <1>4 DEF Accounted
    <3>2. v \in accepted => ~Nowhere(v)'
      BY Zenon, <1>4, <3>1
    <3>3. v = Message(t) => (v \in accepted' => ~Nowhere(v)')
      BY Zenon
    <3>4. v \in accepted' => v \in accepted \/ v = Message(t)
      BY Zenon
    <3> QED BY Zenon, <3>2, <3>3, <3>4
  <2>2. v \in refused /\ v \in P => FALSE
    BY Zenon, <1>4 DEF Accounted
  <2>3. v \in refused' => Nowhere(v)'
    <3>1. v \in refused => Nowhere(v)
      BY Zenon, <1>4 DEF Accounted
    <3> QED BY Zenon, <1>4, <2>2, <3>1
  <2>4. v[1] \in Tasks /\ v[2] \in Nat /\ nops[v[1]] \in Nat
    BY DEF Messages, TypeOK
  <2>5. v[2] > nops[v[1]] => v \notin P /\ v # Message(t)
    BY <1>1, <2>4
  <2>6. v[2] > nops[v[1]] => Nowhere(v) /\ v \notin accepted \cup refused
    BY Zenon, <1>4 DEF Accounted
  <2> QED BY Zenon, <1>4, <2>1, <2>3, <2>5, <2>6
<1>5. ASSUME NEW x \in Tasks, pc'[x] \notin {"idle", "selLeave"}
      PROVE  /\ Message(x)' \notin accepted' \cup refused'
             /\ Nowhere(Message(x))' <=> ~Sent(x)'
  <2>1. pc[x] \notin {"idle", "selLeave"}
    BY Zenon, <1>5
  <2>2. Message(x) \notin accepted \cup refused /\ (Nowhere(Message(x)) <=> ~Sent(x))
    BY Zenon, <2>1 DEF Accounted
  <2>3. Message(x) \notin accepted' \cup refused'
    BY Zenon, <1>2, <1>5, <2>2
  <2>4. Sent(x)' <=> Sent(x) \/ Message(x) \in P
    BY Zenon, <1>5, <2>1
  <2>5. PICK v \in Messages : v = Message(x)
    BY Zenon, <1>3, <2>1
  <2>6. Nowhere(v)' <=> ~Sent(x)'
    BY Zenon, <2>2, <2>4, <2>5
  <2>7. Message(x)' = v
    BY Zenon, <1>1, <2>5
  <2>8. Nowhere(Message(x))' <=> Nowhere(v)'
    BY Zenon, <2>7, NowhereIs
  <2> QED BY Zenon, <2>3, <2>5, <2>6, <2>7, <2>8
<1> QED BY Zenon, <1>4, <1>5 DEF Accounted

\* The same for a step that moves no message.
LEMMA QuietAccounted ==
  ASSUME SInv, Accounted, NEW t \in Tasks, UNCHANGED <<nops, buf, delivered, dropped>>,
         accepted' \subseteq accepted \cup {Message(t)},
         refused' \subseteq refused \cup {Message(t)},
         Message(t) \in accepted' => ~Nowhere(Message(t)),
         Message(t) \in refused' => Nowhere(Message(t)),
         \A x \in Tasks : x # t => pc'[x] = pc[x] /\ (Sent(x)' <=> Sent(x)),
         pc'[t] \notin {"idle", "selLeave"} =>
           /\ pc[t] \notin {"idle", "selLeave"} /\ accepted' = accepted /\ refused' = refused
           /\ Sent(t)' <=> Sent(t)
  PROVE Accounted'
<1>1. \A v : (Nowhere(v)' <=> Nowhere(v)) /\ (InOnePlace(v)' <=> InOnePlace(v))
  BY DEF Nowhere, InOnePlace, Slots
<1>5. \A w \in Messages : InOnePlace(w)' /\ (Nowhere(w)' <=> Nowhere(w))
  BY Zenon, <1>1 DEF Accounted
<1>6. /\ \A v \in accepted' : v = Message(t) => ~Nowhere(v)'
      /\ \A v \in refused' : v = Message(t) => Nowhere(v)'
  BY Zenon, <1>1
<1>7. \A w \in {} : \E x \in Tasks : w = Message(x) /\ pc[x] \notin {"idle", "selLeave"}
  BY Zenon
<1>8. PICK P : P = {}
  BY Zenon
<1>9. \A x \in Tasks : x # t => pc'[x] = pc[x] /\ (pc[x] \notin {"idle", "selLeave"} =>
                                (Sent(x)' <=> Sent(x) \/ Message(x) \in P))
  BY Zenon, <1>8
<1>10. /\ \A w \in Messages : InOnePlace(w)' /\ (Nowhere(w)' <=> Nowhere(w) /\ w \notin P)
       /\ \A w \in P : \E x \in Tasks : w = Message(x) /\ pc[x] \notin {"idle", "selLeave"}
       /\ Sent(t) <=> Sent(t) \/ Message(t) \in P
  BY Zenon, <1>5, <1>7, <1>8
<1> QED BY Zenon, <1>6, <1>9, <1>10, AccountedStep

\* Whose message is taken does not change while nothing happens to its call.
LEMMA SameSent ==
  ASSUME NEW x, pc'[x] = pc[x], closed'[x] = closed[x], status'[x] = status[x],
         op'[x] = op[x], qtag'[x] = qtag[x]
  PROVE Sent(x)' <=> Sent(x)
BY Zenon DEF Sent, Cases


-----------------------------------------------------------------------------
(* The steps *)

\* The invariant that the messages and the matches keep.
MInv == Unmatched /\ Transfers /\ Accounted

\* A coroutine that calls an operation keeps the invariant.
LEMMA CallMInv ==
  ASSUME SInv, MInv, NEW t \in Tasks, Call(t)
  PROVE MInv'
<1> TypeOK /\ Calling /\ Chained /\ Waiting /\ Queued
  BY Zenon DEF SInv
<1> Unmatched /\ Transfers /\ Accounted
  BY Zenon DEF MInv
<1>1. PICK o \in Programs[t] :
        /\ op' = [op EXCEPT ![t] = o]
        /\ pc' = [pc EXCEPT ![t] = IF o.kind = "select" THEN "selLock" ELSE o.kind]
  BY Zenon DEF Call, Goto
<1>2. /\ pc[t] = "idle" /\ nops[t] < MaxOps /\ nops' = [nops EXCEPT ![t] = @ + 1]
      /\ at' = [at EXCEPT ![t] = 0] /\ closed' = [closed EXCEPT ![t] = FALSE]
      /\ with' = [with EXCEPT ![t] = {}]
      /\ UNCHANGED <<lock, buf, send_que, recv_que, status, qtag, res,
                     delivered, accepted, refused, dropped>>
  BY Zenon DEF Call, channels, messages
<1>3. pc'[t] \in {"send", "recv", "close", "selLock"}
  BY Zenon, <1>1, ChannelAssumption DEF TypeOK
<1>4. ASSUME NEW x \in Tasks, x # t
      PROVE  /\ pc'[x] = pc[x] /\ op'[x] = op[x] /\ at'[x] = at[x] /\ closed'[x] = closed[x]
             /\ with'[x] = with[x] /\ nops'[x] = nops[x]
  BY Zenon, <1>1, <1>2, <1>4 DEF TypeOK
<1>5. closed'[t] = FALSE /\ with'[t] = {} /\ nops'[t] = nops[t] + 1 /\ nops[t] \in Nat
  BY <1>2 DEF TypeOK
<1>6. Unmatched'
  BY Zenon, <1>2, <1>3, <1>4, QuietUnmatched DEF MInv
<1>7. Transfers'
  <2>1. Transfer(t)' = {}
    BY Zenon, <1>3, <1>5 DEF Transfer
  <2> QED BY Zenon, <1>2, <1>4, <1>5, <2>1, OwnTransfer DEF MInv
<1>8. \A v : (Nowhere(v)' <=> Nowhere(v)) /\ (InOnePlace(v)' <=> InOnePlace(v))
  BY <1>2 DEF Nowhere, InOnePlace, Slots
<1>9. ASSUME NEW v \in Messages
      PROVE  /\ InOnePlace(v)'
             /\ v \in accepted' => ~Nowhere(v)'
             /\ v \in refused' => Nowhere(v)'
             /\ v[2] > nops'[v[1]] => Nowhere(v)' /\ v \notin accepted' \cup refused'
  <2>1. v[1] \in Tasks /\ v[2] \in Nat
    BY DEF Messages
  <2>2. v[2] > nops'[v[1]] => v[2] > nops[v[1]]
    BY <1>4, <1>5, <2>1
  <2>3. /\ InOnePlace(v) /\ (v \in accepted => ~Nowhere(v)) /\ (v \in refused => Nowhere(v))
        /\ v[2] > nops[v[1]] => Nowhere(v) /\ v \notin accepted \cup refused
    BY Zenon DEF Accounted
  <2> QED BY Zenon, <1>2, <1>8, <2>2, <2>3
<1>10. ASSUME NEW x \in Tasks, pc'[x] \notin {"idle", "selLeave"}
       PROVE  /\ Message(x)' \notin accepted' \cup refused'
              /\ Nowhere(Message(x))' <=> ~Sent(x)'
  <2>1. PICK v : v = Message(x)'
    BY Zenon
  <2>2. v \notin accepted \cup refused /\ (Nowhere(v) <=> ~Sent(x)')
    <3>1. CASE x = t
      <4>1. v = <<t, nops[t] + 1>> /\ v \in Messages /\ v[2] > nops[v[1]]
        BY <1>2, <1>5, <2>1, <3>1, ChannelAssumption DEF Message, Messages
      <4>2. ~Sent(x)'
        BY Zenon, <1>3, <3>1 DEF Sent
      <4> QED BY Zenon, <4>1, <4>2 DEF Accounted
    <3>2. CASE x # t
      <4>1. v = Message(x)
        BY Zenon, <1>4, <2>1, <3>2 DEF Message
      <4>2. Sent(x)' <=> Sent(x)
        BY Zenon, <1>2, <1>4, <3>2, SameSent
      <4> QED BY Zenon, <1>4, <1>10, <3>2, <4>1, <4>2 DEF Accounted
    <3> QED BY Zenon, <3>1, <3>2
  <2>3. Nowhere(Message(x))' <=> Nowhere(v)'
    BY Zenon, <2>1, NowhereIs
  <2> QED BY Zenon, <1>2, <1>8, <2>1, <2>2, <2>3
<1>11. Accounted'
  BY Zenon, <1>9, <1>10 DEF Accounted
<1> QED BY Zenon, <1>6, <1>7, <1>11 DEF MInv

\* A coroutine that wakes up in a send or a receive keeps the invariant.
LEMMA AwakenMInv ==
  ASSUME SInv, MInv, NEW t \in Tasks, Awaken(t)
  PROVE MInv'
<1> TypeOK /\ Calling /\ Chained /\ Waiting /\ Queued
  BY Zenon DEF SInv
<1> Unmatched /\ Transfers /\ Accounted
  BY Zenon DEF MInv
<1> DEFINE c == op[t].chan
<1>1. /\ pc[t] \in {"sendWait", "recvWait"} /\ status[t] = "RUNNING"
      /\ pc' = [pc EXCEPT ![t] = "idle"]
      /\ res' = [res EXCEPT ![t] = [code |-> IF closed[t] THEN "closed" ELSE "success", chan |-> c]]
      /\ UNCHANGED <<buf, send_que, recv_que, status, qtag, op, nops, at, closed, with,
                     delivered, dropped>>
  BY Zenon DEF Awaken, Returns, Goto, channels
<1>2. /\ pc[t] = "recvWait" => accepted' = accepted /\ refused' = refused
      /\ pc[t] = "sendWait" => IF closed[t]
                               THEN refused' = refused \cup {Message(t)} /\ accepted' = accepted
                               ELSE accepted' = accepted \cup {Message(t)} /\ refused' = refused
  BY Zenon DEF Awaken
<1> HIDE DEF c
<1>3. /\ pc'[t] = "idle" /\ \A x \in Tasks : x # t => pc'[x] = pc[x] /\ res'[x] = res[x]
      /\ res'[t] = [code |-> IF closed[t] THEN "closed" ELSE "success", chan |-> c]
  BY Zenon, <1>1 DEF TypeOK
<1>4. Unmatched'
  BY Zenon, <1>1, <1>3, QuietUnmatched DEF MInv
<1>5. Transfers'
  <2>1. with[t] = Transfer(t)
    BY Zenon DEF Transfers
  <2>2. Transfer(t)' = Transfer(t)
    <3>1. Transfer(t) = IF closed[t] THEN {} ELSE {c}
      BY Zenon, <1>1 DEF Transfer, c
    <3>2. Transfer(t)' = IF res'[t].code = "success" THEN {res'[t].chan} ELSE {}
      BY Zenon, <1>3 DEF Transfer
    <3>3. res'[t].code = (IF closed[t] THEN "closed" ELSE "success") /\ res'[t].chan = c
      BY <1>3
    <3> QED BY <3>1, <3>2, <3>3
  <2> QED BY Zenon, <1>1, <1>3, <2>1, <2>2, OwnTransfer DEF MInv
<1>6. Accounted'
  <2>1. Message(t) \notin accepted \cup refused /\ (Nowhere(Message(t)) <=> ~Sent(t))
    BY Zenon, <1>1 DEF Accounted
  <2>2. pc[t] = "sendWait" => (Sent(t) <=> ~closed[t])
    BY Zenon, <1>1 DEF Sent
  <2>3. \A x \in Tasks : x # t => (Sent(x)' <=> Sent(x))
    BY Zenon, <1>1, <1>3, SameSent
  <2>4. /\ accepted' \subseteq accepted \cup {Message(t)}
        /\ refused' \subseteq refused \cup {Message(t)}
        /\ Message(t) \in accepted' => ~Nowhere(Message(t))
        /\ Message(t) \in refused' => Nowhere(Message(t))
    BY Zenon, <1>1, <1>2, <2>1, <2>2
  <2> QED BY Zenon, <1>1, <1>3, <2>3, <2>4, QuietAccounted DEF MInv
<1> QED BY Zenon, <1>4, <1>5, <1>6 DEF MInv

\* The locks that a select acquires keep the invariant.
LEMMA SelLockMInv ==
  ASSUME SInv, MInv, NEW t \in Tasks, SelLock(t)
  PROVE MInv'
<1> TypeOK /\ Calling /\ Chained /\ Waiting /\ Queued
  BY Zenon DEF SInv
<1> Unmatched /\ Transfers /\ Accounted
  BY Zenon DEF MInv
<1>1. UNCHANGED <<buf, send_que, recv_que, status, qtag, op, nops, at, closed, res, with,
                  delivered, accepted, refused, dropped>>
  BY Zenon DEF SelLock, channels, messages
<1>2. /\ pc[t] \in {"selLock", "selWait"}
      /\ \/ pc' = pc
         \/ pc' = [pc EXCEPT ![t] = IF pc[t] = "selLock" THEN "selTry" ELSE "selDone"]
  BY Zenon DEF SelLock, Goto
<1>3. /\ \/ pc'[t] = pc[t]
         \/ pc'[t] = IF pc[t] = "selLock" THEN "selTry" ELSE "selDone"
      /\ \A x \in Tasks : x # t => pc'[x] = pc[x]
  BY Zenon, <1>2 DEF TypeOK
<1>4. Unmatched'
  <2>1. pc[t] = "selLock" => at[t] = 0
    BY Zenon DEF Calling
  <2> QED BY Zenon, <1>1, <1>2, <1>3, <2>1, QuietUnmatched DEF MInv
<1>5. Transfers'
  <2>1. Transfer(t)' = Transfer(t)
    BY Zenon, <1>1, <1>2, <1>3 DEF Transfer
  <2> QED BY Zenon, <1>1, <1>2, <1>3, <2>1, OwnTransfer DEF Transfers
<1>6. Accounted'
  <2>1. Sent(t)' <=> Sent(t)
    <3>1. Cases(t, "send")' = Cases(t, "send")
      BY Zenon, <1>1 DEF Cases
    <3> QED BY Zenon, <1>1, <1>2, <1>3, <3>1 DEF Sent
  <2>2. \A x \in Tasks : x # t => (Sent(x)' <=> Sent(x))
    BY Zenon, <1>1, <1>3, SameSent
  <2>3. Message(t) \notin accepted \cup refused
    BY Zenon, <1>2 DEF Accounted
  <2> QED BY Zenon, <1>1, <1>2, <1>3, <2>1, <2>2, <2>3, QuietAccounted DEF MInv
<1> QED BY Zenon, <1>4, <1>5, <1>6 DEF MInv


\* So does a step that leaves the calls and the messages alone.
LEMMA SameMInv ==
  ASSUME SInv, MInv, NEW t \in Tasks,
         UNCHANGED <<buf, send_que, recv_que, status, qtag, pc, op, nops, at, closed, res, with,
                     delivered, accepted, refused, dropped>>
  PROVE MInv'
<1> TypeOK /\ Calling /\ Chained /\ Waiting /\ Queued
  BY Zenon DEF SInv
<1> Unmatched /\ Transfers /\ Accounted
  BY Zenon DEF MInv
<1>1. Unmatched'
  BY Zenon, QuietUnmatched DEF MInv
<1>2. Transfers'
  <2>1. Transfer(t)' = Transfer(t)
    BY Zenon DEF Transfer
  <2> QED BY Zenon, <2>1, OwnTransfer DEF Transfers
<1>3. Accounted'
  <2>1. \A x \in Tasks : Sent(x)' <=> Sent(x)
    BY Zenon, SameSent
  <2>2. accepted \subseteq Messages /\ refused \subseteq Messages
    BY Zenon DEF TypeOK
  <2>3. (Message(t) \in accepted => ~Nowhere(Message(t))) /\ (Message(t) \in refused => Nowhere(Message(t)))
    BY Zenon, <2>2 DEF Accounted
  <2> QED BY Zenon, <2>1, <2>3, QuietAccounted DEF MInv
<1> QED BY Zenon, <1>1, <1>2, <1>3 DEF MInv

\* core_wait, which releases a lock of a select that waits, keeps the invariant.
LEMMA CoreWaitReleaseMInv ==
  ASSUME SInv, MInv, NEW t \in Tasks, CoreWaitRelease(t)
  PROVE MInv'
BY Zenon, SameMInv DEF CoreWaitRelease, channels, calls, messages

\* A select that releases a lock on its way out keeps the invariant.
LEMMA SelLeaveMInv ==
  ASSUME SInv, MInv, NEW t \in Tasks, SelLeave(t)
  PROVE MInv'
<1> TypeOK /\ Calling /\ Chained /\ Waiting /\ Queued
  BY Zenon DEF SInv
<1> Unmatched /\ Transfers /\ Accounted
  BY Zenon DEF MInv
<1>1. UNCHANGED <<buf, send_que, recv_que, status, qtag, op, nops, at, closed, res, with,
                  delivered, accepted, refused, dropped>>
  BY Zenon DEF SelLeave, channels, messages
<1>2. pc[t] = "selLeave" /\ (pc' = pc \/ pc' = [pc EXCEPT ![t] = "idle"])
  BY Zenon DEF SelLeave, Goto
<1>3. pc'[t] \in {"idle", "selLeave"} /\ \A x \in Tasks : x # t => pc'[x] = pc[x]
  BY Zenon, <1>2 DEF TypeOK
<1>4. Unmatched'
  BY Zenon, <1>1, <1>3, QuietUnmatched DEF MInv
<1>5. Transfers'
  <2>1. Transfer(t)' = Transfer(t)
    BY Zenon, <1>1, <1>2, <1>3 DEF Transfer
  <2>2. status[t] # "WAIT"
    BY Zenon, <1>2 DEF Waiting
  <2> QED BY Zenon, <1>1, <1>2, <1>3, <2>1, <2>2, OwnTransfer DEF Transfers
<1>6. Accounted'
  <2>1. \A x \in Tasks : x # t => (Sent(x)' <=> Sent(x))
    BY Zenon, <1>1, <1>3, SameSent
  <2>2. Message(t) \in Messages
    BY Zenon, <1>2, MessageTyped
  <2>3. (Message(t) \in accepted => ~Nowhere(Message(t))) /\ (Message(t) \in refused => Nowhere(Message(t)))
    BY Zenon, <2>2 DEF Accounted
  <2> QED BY Zenon, <1>1, <1>3, <2>1, <2>3, QuietAccounted DEF MInv
<1> QED BY Zenon, <1>4, <1>5, <1>6 DEF MInv

\* An attempt of a call of t that fails, when the call ends or goes on to another case.
LEMMA FailKeeps ==
  ASSUME SInv, MInv, NEW t \in Tasks, pc[t] \in {"send", "recv", "selTry"},
         NEW c \in Chans, NEW type \in {"send", "recv"}, Fail(type, c),
         NEW l \in {"idle", "selTry", "selBlock", "selLeave"}, pc' = [pc EXCEPT ![t] = l],
         l = "idle" <=> pc[t] # "selTry",
         IF l \in {"idle", "selLeave"}
         THEN \E r : r.code # "success" /\ res' = [res EXCEPT ![t] = r]
         ELSE UNCHANGED <<res, accepted, refused>>,
         accepted' = accepted, refused' \subseteq refused \cup {Message(t)},
         UNCHANGED <<buf, status, qtag, op, nops, closed, with, delivered, dropped>>
  PROVE Transfers' /\ Accounted'
<1> TypeOK /\ Calling /\ Chained /\ Waiting /\ Queued
  BY Zenon DEF SInv
<1> Unmatched /\ Transfers /\ Accounted
  BY Zenon DEF MInv
<1>1. pc'[t] = l /\ \A x \in Tasks : x # t => pc'[x] = pc[x] /\ res'[x] = res[x]
  <2>1. \A x \in Tasks : x # t => res'[x] = res[x]
    BY Zenon DEF TypeOK
  <2> QED BY Zenon, <2>1 DEF TypeOK
<1>2. /\ with[t] = {} /\ ~closed[t] /\ status[t] # "WAIT" /\ ~Sent(t)
      /\ Message(t) \notin accepted \cup refused /\ Nowhere(Message(t))
  <2>1. with[t] = Transfer(t) /\ ~closed[t]
    BY Zenon DEF Transfers
  <2>2. Transfer(t) = {} /\ status[t] # "WAIT" /\ ~Sent(t)
    BY Zenon DEF Transfer, Sent, Waiting
  <2>3. Message(t) \notin accepted \cup refused /\ (Nowhere(Message(t)) <=> ~Sent(t))
    BY Zenon DEF Accounted
  <2> QED BY Zenon, <2>1, <2>2, <2>3
<1>3. l \in {"idle", "selLeave"} => res'[t].code # "success"
  BY Zenon DEF TypeOK
<1>4. Transfers'
  <2>1. Transfer(t)' = {}
    BY Zenon, <1>1, <1>3 DEF Transfer
  <2> QED BY Zenon, <1>1, <1>2, <2>1, OwnTransfer DEF MInv
<1>5. Accounted'
  <2>1. \A x \in Tasks : x # t => (Sent(x)' <=> Sent(x))
    BY Zenon, <1>1, SameSent
  <2>2. l \in {"selTry", "selBlock"} => ~Sent(t)'
    BY Zenon, <1>1 DEF Sent
  <2> QED BY Zenon, <1>1, <1>2, <2>1, <2>2, QuietAccounted DEF MInv
<1> QED BY Zenon, <1>4, <1>5

\* An attempt that puts the message of t into the buffer of c.
LEMMA BufferKeeps ==
  ASSUME SInv, MInv, NEW t \in Tasks, pc[t] \in {"send", "recv", "selTry"}, NEW c \in Chans,
         NEW l \in {"idle", "selLeave"}, pc' = [pc EXCEPT ![t] = l],
         res' = [res EXCEPT ![t] = [code |-> "success", chan |-> c]],
         with' = [with EXCEPT ![t] = @ \cup {c}],
         UNCHANGED <<status, qtag, op, nops, closed, dropped, refused>>,
         \/ /\ buf' = [buf EXCEPT ![c] = Append(@, Message(t))]
            /\ accepted' = accepted \cup {Message(t)} /\ delivered' = delivered
         \/ /\ buf[c] # <<>> /\ buf' = [buf EXCEPT ![c] = Tail(@)] /\ accepted' = accepted
            /\ delivered' = [delivered EXCEPT ![Head(buf[c])] = @ + 1]
  PROVE Transfers' /\ Accounted'
<1> TypeOK /\ Calling /\ Chained /\ Waiting /\ Queued
  BY Zenon DEF SInv
<1> Unmatched /\ Transfers /\ Accounted
  BY Zenon DEF MInv
<1>1. /\ pc'[t] = l /\ \A x \in Tasks : x # t => pc'[x] = pc[x] /\ res'[x] = res[x] /\ with'[x] = with[x]
      /\ res'[t].code = "success" /\ res'[t].chan = c /\ with'[t] = with[t] \cup {c}
  BY Zenon DEF TypeOK
<1>2. /\ with[t] = {} /\ ~closed[t] /\ status[t] # "WAIT"
      /\ Message(t) \notin accepted \cup refused /\ Nowhere(Message(t)) /\ Message(t) \in Messages
  <2>1. with[t] = Transfer(t) /\ ~closed[t]
    BY Zenon DEF Transfers
  <2>2. Transfer(t) = {} /\ status[t] # "WAIT" /\ ~Sent(t)
    BY Zenon DEF Transfer, Sent, Waiting
  <2>3. Message(t) \notin accepted \cup refused /\ (Nowhere(Message(t)) <=> ~Sent(t))
    BY Zenon DEF Accounted
  <2> QED BY Zenon, <2>1, <2>2, <2>3, MessageTyped
<1>3. Transfers'
  <2>1. Transfer(t)' = {c}
    BY Zenon, <1>1 DEF Transfer
  <2> QED BY Zenon, <1>1, <1>2, <2>1, OwnTransfer DEF MInv
<1>4. \A x \in Tasks : x # t => (Sent(x)' <=> Sent(x))
  BY Zenon, <1>1, SameSent
<1>5. \A v \in Messages : InOnePlace(v)
  BY Zenon DEF Accounted
<1>6. PICK w \in Messages : w = Message(t)
  BY Zenon, <1>2
<1>7. Accounted /\ TypeOK /\ Nowhere(w)
  BY Zenon, <1>2, <1>6 DEF MInv
<1>8. ASSUME buf' = [buf EXCEPT ![c] = Append(@, w)], accepted' = accepted \cup {w},
             delivered' = delivered
      PROVE  Accounted'
  <2>1. PICK P : P = {w}
    BY Zenon
  <2>2. \A v \in Messages : InOnePlace(v)' /\ (Nowhere(v)' <=> Nowhere(v) /\ v # w)
    BY Zenon, <1>5, <1>7, <1>8, BufferPlaces
  <2>3. /\ \A v \in Messages : InOnePlace(v)' /\ (Nowhere(v)' <=> Nowhere(v) /\ v \notin P)
        /\ \A v \in P : \E x \in Tasks : v = Message(x) /\ pc[x] \notin {"idle", "selLeave"}
    BY Zenon, <1>6, <2>1, <2>2
  <2>4. \A x \in Tasks : x # t => Message(x) \notin P
    BY Zenon, <1>6, <2>1 DEF Message
  <2>5. \A v \in accepted' : v = Message(t) => ~Nowhere(v)'
    BY Zenon, <1>6, <2>2
  <2>6. \A v \in refused' : v = Message(t) => Nowhere(v)'
    BY Zenon, <1>2
  <2>7. accepted' \subseteq accepted \cup {Message(t)} /\ refused' \subseteq refused \cup {Message(t)}
    BY Zenon, <1>6, <1>8
  <2>8. /\ \A x \in Tasks : x # t =>
             pc'[x] = pc[x] /\ (pc[x] \notin {"idle", "selLeave"} =>
                                  (Sent(x)' <=> Sent(x) \/ Message(x) \in P))
        /\ pc'[t] \in {"idle", "selLeave"}
    BY Zenon, <1>1, <1>4, <2>4
  <2> QED BY Zenon, <1>7, <2>3, <2>5, <2>6, <2>7, <2>8, AccountedStep
<1>9. ASSUME buf[c] # <<>>, buf' = [buf EXCEPT ![c] = Tail(@)], accepted' = accepted,
             delivered' = [delivered EXCEPT ![Head(buf[c])] = @ + 1]
      PROVE  Accounted'
  <2>1. PICK P : P = {}
    BY Zenon
  <2>2. \A v \in Messages : InOnePlace(v)' /\ (Nowhere(v)' <=> Nowhere(v))
    BY Zenon, <1>5, <1>7, <1>9, TakePlaces
  <2>3. /\ \A v \in Messages : InOnePlace(v)' /\ (Nowhere(v)' <=> Nowhere(v) /\ v \notin P)
        /\ \A v \in P : \E x \in Tasks : v = Message(x) /\ pc[x] \notin {"idle", "selLeave"}
    BY Zenon, <2>1, <2>2
  <2>4. \A x \in Tasks : Message(x) \notin P
    BY Zenon, <2>1
  <2>5. /\ \A v \in accepted' : v = Message(t) => ~Nowhere(v)'
        /\ \A v \in refused' : v = Message(t) => Nowhere(v)'
    BY Zenon, <1>2, <1>9
  <2>6. accepted' \subseteq accepted \cup {Message(t)} /\ refused' \subseteq refused \cup {Message(t)}
    BY Zenon, <1>7, <1>9
  <2>7. /\ \A x \in Tasks : x # t =>
             pc'[x] = pc[x] /\ (pc[x] \notin {"idle", "selLeave"} =>
                                  (Sent(x)' <=> Sent(x) \/ Message(x) \in P))
        /\ pc'[t] \in {"idle", "selLeave"}
    BY Zenon, <1>1, <1>4, <2>4
  <2> QED BY Zenon, <1>7, <2>3, <2>5, <2>6, <2>7, AccountedStep
<1> QED BY Zenon, <1>3, <1>6, <1>8, <1>9


\* An attempt that hands a message over to, or takes it from, a coroutine that waits.
LEMMA HandoverKeeps ==
  ASSUME SInv, MInv, NEW t \in Tasks, pc[t] \in {"send", "recv", "selTry"}, NEW c \in Chans,
         NEW l \in {"idle", "selLeave"}, pc' = [pc EXCEPT ![t] = l],
         res' = [res EXCEPT ![t] = [code |-> "success", chan |-> c]],
         NEW u \in Tasks, NEW type \in {"send", "recv"},
         NEW w, w = IF type = "recv" THEN Message(t) ELSE Message(u),
         Handover(t, u, c, type, w),
         accepted' = IF type = "recv" THEN accepted \cup {w} ELSE accepted,
         UNCHANGED <<op, nops, closed, dropped, refused>>
  PROVE Transfers' /\ Accounted'
<1> TypeOK /\ Calling /\ Chained /\ Waiting /\ Queued
  BY Zenon DEF SInv
<1> Unmatched /\ Transfers /\ Accounted
  BY Zenon DEF MInv
<1>1. Transfers'
  BY Zenon, HandoverTransfers DEF MInv
<1>2. /\ status[u] = "WAIT" /\ status'[u] = "RUNNING" /\ u # t
      /\ \/ pc[u] = IF type = "send" THEN "sendWait" ELSE "recvWait"
         \/ pc[u] = "selWait" /\ c \in Cases(u, type) /\ qtag'[u] = c
      /\ \A x \in Tasks : x # u => status'[x] = status[x] /\ qtag'[x] = qtag[x]
  BY Zenon DEF Handover, Served, TypeOK
<1>3. pc'[t] = l /\ \A x \in Tasks : x # t => pc'[x] = pc[x]
  BY Zenon DEF TypeOK
<1>4. delivered' = [delivered EXCEPT ![w] = @ + 1] /\ buf' = buf
  BY Zenon DEF Handover
<1>5. ~Sent(t) /\ ~Sent(u) /\ ~closed[u]
  <2>1. ~Sent(t) /\ ~Sent(u)
    BY Zenon, <1>2 DEF Sent
  <2> QED BY Zenon, <1>2, <2>1 DEF Transfers
<1>6. Sent(u)' <=> type = "send"
  <2>1. pc'[u] = pc[u] /\ closed'[u] = closed[u] /\ pc[u] # "idle"
    BY Zenon, <1>2, <1>3
  <2>2. Cases(u, "send")' = Cases(u, "send")
    BY Zenon DEF Cases
  <2>3. pc[u] = "selWait" => (c \in Cases(u, "send") <=> type = "send")
    <3>1. pc[u] = "selWait" => Cases(u, "send") \cap Cases(u, "recv") = {}
      BY Zenon, <2>1, CallIs
    <3> QED BY Zenon, <1>2, <3>1
  <2> QED BY Zenon, <1>2, <1>5, <2>1, <2>2, <2>3 DEF Sent
<1>7. ASSUME NEW x \in Tasks, x # t, x # u
      PROVE  Sent(x)' <=> Sent(x)
  BY Zenon, <1>2, <1>3, <1>7, SameSent
<1>8. PICK s \in Tasks : w = Message(s) /\ s \in {t, u} /\ (s = t <=> type = "recv")
  BY Zenon, <1>2
<1>9. pc[s] \notin {"idle", "selLeave"}
  BY Zenon, <1>2, <1>8
<1>10. w \in Messages /\ Nowhere(w) /\ w \notin accepted \cup refused
  <2>1. w \in Messages
    BY Zenon, <1>8, <1>9, MessageTyped
  <2>2. Nowhere(Message(s)) /\ Message(s) \notin accepted \cup refused
    BY Zenon, <1>5, <1>8, <1>9 DEF Accounted
  <2> QED BY Zenon, <1>8, <2>1, <2>2
<1>11. TypeOK /\ Accounted /\ \A v \in Messages : InOnePlace(v)
  BY Zenon DEF Accounted
<1>12. \A v \in Messages : InOnePlace(v)' /\ (Nowhere(v)' <=> Nowhere(v) /\ v # w)
  BY Zenon, <1>4, <1>10, <1>11, DeliverPlaces
<1>13. PICK P : P = {w}
  BY Zenon
<1>14. /\ \A v \in Messages : InOnePlace(v)' /\ (Nowhere(v)' <=> Nowhere(v) /\ v \notin P)
       /\ \A v \in P : \E x \in Tasks : v = Message(x) /\ pc[x] \notin {"idle", "selLeave"}
  BY Zenon, <1>8, <1>9, <1>12, <1>13
<1>15. \A x \in Tasks : Message(x) \in P <=> x = s
  BY <1>8, <1>13 DEF Message
<1>16. Message(t) \notin accepted \cup refused
  BY Zenon DEF Accounted
<1>17. \A v \in accepted' : v = Message(t) => ~Nowhere(v)'
  BY Zenon, <1>8, <1>10, <1>12, <1>16
<1>18. \A v \in refused' : v = Message(t) => Nowhere(v)'
  BY Zenon, <1>16
<1>19. accepted' \subseteq accepted \cup {Message(t)} /\ refused' \subseteq refused \cup {Message(t)}
  BY Zenon, <1>8
<1>20. /\ \A x \in Tasks : x # t =>
             pc'[x] = pc[x] /\ (pc[x] \notin {"idle", "selLeave"} =>
                                  (Sent(x)' <=> Sent(x) \/ Message(x) \in P))
       /\ pc'[t] \in {"idle", "selLeave"}
  <2>1. ASSUME NEW x \in Tasks, x # t
        PROVE  Sent(x)' <=> Sent(x) \/ Message(x) \in P
    <3>1. CASE x = u
      <4>1. Message(x) \in P <=> type = "send"
        BY Zenon, <1>2, <1>8, <1>15, <3>1
      <4> QED BY Zenon, <1>5, <1>6, <3>1, <4>1
    <3>2. CASE x # u
      BY Zenon, <1>7, <1>8, <1>15, <2>1, <3>2
    <3> QED BY Zenon, <3>1, <3>2
  <2> QED BY Zenon, <1>3, <2>1
<1>21. Accounted'
  BY Zenon, <1>11, <1>14, <1>17, <1>18, <1>19, <1>20, AccountedStep
<1> QED BY Zenon, <1>1, <1>21

\* An attempt to send that succeeds keeps the invariant.
LEMMA SendKeeps ==
  ASSUME SInv, MInv, NEW t \in Tasks, pc[t] \in {"send", "recv", "selTry"}, NEW c \in Chans,
         SendSuccess(t, c), lock[c] \in {NULL, t},
         NEW l \in {"idle", "selLeave"}, pc' = [pc EXCEPT ![t] = l],
         res' = [res EXCEPT ![t] = [code |-> "success", chan |-> c]],
         accepted' = accepted \cup {Message(t)}, UNCHANGED <<op, nops, at, closed>>
  PROVE MInv'
<1> TypeOK /\ Calling /\ Chained /\ Waiting /\ Queued
  BY Zenon DEF SInv
<1> Unmatched /\ Transfers /\ Accounted
  BY Zenon DEF MInv
<1>1. pc'[t] = l /\ \A x \in Tasks : x # t => pc'[x] = pc[x]
  BY Zenon DEF TypeOK
<1>2. Unmatched'
  <2>1. /\ Mono
        /\ \A d \in Chans : Kept(send_que'[d], send_que[d]) /\ Kept(recv_que'[d], recv_que[d])
        /\ \A d \in Chans : \/ buf'[d] = buf[d] \/ buf'[d] = <<>> \/ buf[d] # <<>>
                            \/ Fetchable(recv_que[d]) = {} /\ lock[d] \in {NULL, t}
    BY Zenon, SendMatches
  <2> QED BY Zenon, <1>1, <2>1, UnmatchedKept DEF MInv
<1>3. dropped' = dropped /\ refused' = refused
  BY Zenon, SendIs
<1>4. CASE \E u \in Tasks : Handover(t, u, c, "recv", Message(t))
  <2>1. PICK u \in Tasks : Handover(t, u, c, "recv", Message(t))
    BY Zenon, <1>4
  <2>2. PICK w : w = Message(t)
    BY Zenon
  <2>3. PICK type \in {"send", "recv"} : type = "recv"
    BY Zenon
  <2>4. Handover(t, u, c, type, w)
    BY Zenon, <2>1, <2>2, <2>3
  <2>5. accepted' = IF type = "recv" THEN accepted \cup {w} ELSE accepted
    BY Zenon, <2>2, <2>3
  <2>6. w = IF type = "recv" THEN Message(t) ELSE Message(u)
    BY Zenon, <2>2, <2>3
  <2>7. Transfers' /\ Accounted'
    BY Zenon, <1>3, <2>4, <2>5, <2>6, HandoverKeeps
  <2> QED BY Zenon, <1>2, <2>7 DEF MInv
<1>5. CASE /\ buf' = [buf EXCEPT ![c] = Append(@, Message(t))]
           /\ with' = [with EXCEPT ![t] = @ \cup {c}]
           /\ UNCHANGED <<qtag, status, delivered>>
  <2>1. Transfers' /\ Accounted'
    BY Zenon, <1>3, <1>5, BufferKeeps
  <2> QED BY Zenon, <1>2, <2>1 DEF MInv
<1> QED BY Zenon, <1>4, <1>5, SendIs

\* An attempt to receive that succeeds keeps the invariant.
LEMMA RecvKeeps ==
  ASSUME SInv, MInv, NEW t \in Tasks, pc[t] \in {"send", "recv", "selTry"}, NEW c \in Chans,
         RecvSuccess(t, c),
         NEW l \in {"idle", "selLeave"}, pc' = [pc EXCEPT ![t] = l],
         res' = [res EXCEPT ![t] = [code |-> "success", chan |-> c]],
         UNCHANGED <<op, nops, at, closed>>
  PROVE MInv'
<1> TypeOK /\ Calling /\ Chained /\ Waiting /\ Queued
  BY Zenon DEF SInv
<1> Unmatched /\ Transfers /\ Accounted
  BY Zenon DEF MInv
<1>1. pc'[t] = l /\ \A x \in Tasks : x # t => pc'[x] = pc[x]
  BY Zenon DEF TypeOK
<1>2. Unmatched'
  <2>1. /\ Mono
        /\ \A d \in Chans : Kept(send_que'[d], send_que[d]) /\ Kept(recv_que'[d], recv_que[d])
        /\ \A d \in Chans : buf'[d] = buf[d] \/ buf[d] # <<>>
    BY Zenon, RecvMatches
  <2> QED BY Zenon, <1>1, <2>1, UnmatchedKept DEF MInv
<1>3. UNCHANGED <<accepted, refused, dropped>>
  BY Zenon, RecvIs
<1>4. CASE \E u \in Tasks : Handover(t, u, c, "send", Message(u))
  <2>1. PICK u \in Tasks : Handover(t, u, c, "send", Message(u))
    BY Zenon, <1>4
  <2>2. PICK w : w = Message(u)
    BY Zenon
  <2>3. PICK type \in {"send", "recv"} : type = "send"
    BY Zenon
  <2>4. Handover(t, u, c, type, w)
    BY Zenon, <2>1, <2>2, <2>3
  <2>5. accepted' = IF type = "recv" THEN accepted \cup {w} ELSE accepted
    BY Zenon, <1>3, <2>3
  <2>6. w = IF type = "recv" THEN Message(t) ELSE Message(u)
    BY Zenon, <2>2, <2>3
  <2>7. Transfers' /\ Accounted'
    BY Zenon, <1>3, <2>4, <2>5, <2>6, HandoverKeeps
  <2> QED BY Zenon, <1>2, <2>7 DEF MInv
<1>5. CASE /\ buf[c] # <<>> /\ buf' = [buf EXCEPT ![c] = Tail(@)]
           /\ delivered' = [delivered EXCEPT ![Head(buf[c])] = @ + 1]
           /\ with' = [with EXCEPT ![t] = @ \cup {c}]
           /\ UNCHANGED <<qtag, status>>
  <2>1. Transfers' /\ Accounted'
    BY Zenon, <1>3, <1>5, BufferKeeps
  <2> QED BY Zenon, <1>2, <2>1 DEF MInv
<1> QED BY Zenon, <1>4, <1>5, RecvIs


\* _coroc_chan_send that does not wait keeps the invariant.
LEMMA SendMInv ==
  ASSUME SInv, MInv, NEW t \in Tasks, Send(t)
  PROVE MInv'
<1> TypeOK /\ Calling /\ Chained /\ Waiting /\ Queued
  BY Zenon DEF SInv
<1> Unmatched /\ Transfers /\ Accounted
  BY Zenon DEF MInv
<1> DEFINE c == op[t].chan
<1>1. pc[t] = "send" /\ lock[c] = NULL /\ UNCHANGED <<op, nops, at, closed>>
  BY Zenon DEF Send
<1>2. c \in Chans
  BY Zenon, <1>1, CallIs
<1>3. \/ /\ SendSuccess(t, c) /\ accepted' = accepted \cup {Message(t)}
         /\ pc' = [pc EXCEPT ![t] = "idle"]
         /\ res' = [res EXCEPT ![t] = [code |-> "success", chan |-> c]]
      \/ /\ Fail("send", c) /\ SendCode(c) # "success" /\ pc' = [pc EXCEPT ![t] = "idle"]
         /\ res' = [res EXCEPT ![t] = [code |-> SendCode(c), chan |-> c]]
         /\ refused' = refused \cup {Message(t)}
         /\ UNCHANGED <<buf, qtag, status, with, delivered, accepted, dropped>>
  BY Zenon DEF Send, Fail, SendFail, Returns, Goto
<1> HIDE DEF c
<1>4. CASE /\ SendSuccess(t, c) /\ accepted' = accepted \cup {Message(t)}
           /\ pc' = [pc EXCEPT ![t] = "idle"]
           /\ res' = [res EXCEPT ![t] = [code |-> "success", chan |-> c]]
  BY Zenon, <1>1, <1>2, <1>4, SendKeeps
<1>5. CASE /\ Fail("send", c) /\ SendCode(c) # "success" /\ pc' = [pc EXCEPT ![t] = "idle"]
           /\ res' = [res EXCEPT ![t] = [code |-> SendCode(c), chan |-> c]]
           /\ refused' = refused \cup {Message(t)}
           /\ UNCHANGED <<buf, qtag, status, with, delivered, accepted, dropped>>
  <2>1. pc'[t] = "idle" /\ \A x \in Tasks : x # t => pc'[x] = pc[x]
    BY Zenon, <1>5 DEF TypeOK
  <2>2. Unmatched'
    <3>1. /\ Mono
          /\ \A d \in Chans : Kept(send_que'[d], send_que[d]) /\ Kept(recv_que'[d], recv_que[d])
      BY Zenon, <1>2, <1>5, FailMatches
    <3> QED BY Zenon, <1>1, <1>5, <2>1, <3>1, UnmatchedKept DEF MInv
  <2>3. \E r : r.code # "success" /\ res' = [res EXCEPT ![t] = r]
    <3> DEFINE r == [code |-> SendCode(c), chan |-> c]
    <3>1. r.code # "success" /\ res' = [res EXCEPT ![t] = r]
      BY Zenon, <1>5
    <3> HIDE DEF r
    <3> QED BY Zenon, <3>1
  <2>4. Transfers' /\ Accounted'
    BY Zenon, <1>1, <1>2, <1>5, <2>3, FailKeeps
  <2> QED BY Zenon, <2>2, <2>4 DEF MInv
<1> QED BY Zenon, <1>3, <1>4, <1>5

\* _coroc_chan_recv that does not wait keeps the invariant.
LEMMA RecvMInv ==
  ASSUME SInv, MInv, NEW t \in Tasks, Recv(t)
  PROVE MInv'
<1> TypeOK /\ Calling /\ Chained /\ Waiting /\ Queued
  BY Zenon DEF SInv
<1> Unmatched /\ Transfers /\ Accounted
  BY Zenon DEF MInv
<1> DEFINE c == op[t].chan
<1>1. pc[t] = "recv" /\ UNCHANGED <<op, nops, at, closed>>
  BY Zenon DEF Recv
<1>2. c \in Chans
  BY Zenon, <1>1, CallIs
<1>3. \/ /\ RecvSuccess(t, c) /\ pc' = [pc EXCEPT ![t] = "idle"]
         /\ res' = [res EXCEPT ![t] = [code |-> "success", chan |-> c]]
      \/ /\ Fail("recv", c) /\ RecvCode(c) # "success" /\ pc' = [pc EXCEPT ![t] = "idle"]
         /\ res' = [res EXCEPT ![t] = [code |-> RecvCode(c), chan |-> c]]
         /\ UNCHANGED <<buf, qtag, status, with, delivered, accepted, refused, dropped>>
  BY Zenon DEF Recv, Fail, RecvFail, Returns, Goto, messages
<1> HIDE DEF c
<1>4. CASE /\ RecvSuccess(t, c) /\ pc' = [pc EXCEPT ![t] = "idle"]
           /\ res' = [res EXCEPT ![t] = [code |-> "success", chan |-> c]]
  BY Zenon, <1>1, <1>2, <1>4, RecvKeeps
<1>5. CASE /\ Fail("recv", c) /\ RecvCode(c) # "success" /\ pc' = [pc EXCEPT ![t] = "idle"]
           /\ res' = [res EXCEPT ![t] = [code |-> RecvCode(c), chan |-> c]]
           /\ UNCHANGED <<buf, qtag, status, with, delivered, accepted, refused, dropped>>
  <2>1. pc'[t] = "idle" /\ \A x \in Tasks : x # t => pc'[x] = pc[x]
    BY Zenon, <1>5 DEF TypeOK
  <2>2. Unmatched'
    <3>1. /\ Mono
          /\ \A d \in Chans : Kept(send_que'[d], send_que[d]) /\ Kept(recv_que'[d], recv_que[d])
      BY Zenon, <1>2, <1>5, FailMatches
    <3> QED BY Zenon, <1>1, <1>5, <2>1, <3>1, UnmatchedKept DEF MInv
  <2>3. \E r : r.code # "success" /\ res' = [res EXCEPT ![t] = r]
    <3> DEFINE r == [code |-> RecvCode(c), chan |-> c]
    <3>1. r.code # "success" /\ res' = [res EXCEPT ![t] = r]
      BY Zenon, <1>5
    <3> HIDE DEF r
    <3> QED BY Zenon, <3>1
  <2>4. Transfers' /\ Accounted'
    BY Zenon, <1>1, <1>2, <1>5, <2>3, FailKeeps
  <2> QED BY Zenon, <2>2, <2>4 DEF MInv
<1> QED BY Zenon, <1>3, <1>4, <1>5

\* A case of a select that succeeds keeps the invariant.
LEMMA SelSuccessMInv ==
  ASSUME SInv, MInv, NEW t \in Tasks, SelSuccess(t)
  PROVE MInv'
<1> TypeOK /\ Calling /\ Chained /\ Waiting /\ Queued
  BY Zenon DEF SInv
<1> DEFINE e == op[t].cases[at[t] + 1]
           c == e.chan
<1>1. /\ pc[t] = "selTry" /\ UNCHANGED <<op, nops, at, closed>>
      /\ pc' = [pc EXCEPT ![t] = "selLeave"]
      /\ res' = [res EXCEPT ![t] = [code |-> "success", chan |-> c]]
      /\ IF e.type = "send" THEN SendSuccess(t, c) /\ accepted' = accepted \cup {Message(t)}
         ELSE RecvSuccess(t, c)
  BY Zenon DEF SelSuccess, Leave, Goto
<1>2. c \in Chans /\ lock[c] = t
  <2>1. c \in Chans /\ c \in Set(t)
    BY Zenon, <1>1, CaseIs DEF Set
  <2> QED BY <1>1, <2>1 DEF Chained
<1> HIDE DEF c, e
<1>3. CASE e.type = "send"
  BY Zenon, <1>1, <1>2, <1>3, SendKeeps
<1>4. CASE e.type # "send"
  BY Zenon, <1>1, <1>2, <1>4, RecvKeeps
<1> QED BY Zenon, <1>3, <1>4

\* A case of a select that fails keeps the invariant.
LEMMA SelFailMInv ==
  ASSUME SInv, MInv, NEW t \in Tasks, SelFail(t)
  PROVE MInv'
<1> TypeOK /\ Calling /\ Chained /\ Waiting /\ Queued
  BY Zenon DEF SInv
<1> Unmatched /\ Transfers /\ Accounted
  BY Zenon DEF MInv
<1> DEFINE e == op[t].cases[at[t] + 1]
           last == at[t] + 1 = Len(op[t].cases)
<1>1. /\ pc[t] = "selTry" /\ Fail(e.type, e.chan)
      /\ UNCHANGED <<buf, status, qtag, op, nops, closed, with, delivered, dropped>>
      /\ \/ /\ pc' = [pc EXCEPT ![t] = "selLeave"]
            /\ res' = [res EXCEPT ![t] = [code |-> Code(e.type, e.chan), chan |-> NULL]]
            /\ accepted' = accepted /\ refused' \subseteq refused \cup {Message(t)} /\ at' = at
         \/ /\ at' = [at EXCEPT ![t] = @ + 1] /\ UNCHANGED <<res, accepted, refused>>
            /\ pc' = [pc EXCEPT ![t] = IF last THEN "selBlock" ELSE "selTry"]
  BY Zenon DEF SelFail, Leave, Goto, Fate
<1>2. e.chan \in Chans /\ e.type \in {"send", "recv"} /\ at[t] + 1 \in DOMAIN op[t].cases
  BY Zenon, <1>1, CaseIs
<1>3. Code(e.type, e.chan) # "success"
  BY Zenon, <1>1, <1>2 DEF Fail, Code, SendFail, RecvFail
<1>4. PICK f : f = e
  BY Zenon
<1>5. /\ f.chan \in Chans /\ f.type \in {"send", "recv"} /\ Fail(f.type, f.chan)
      /\ f = op[t].cases[at[t] + 1] /\ at[t] \in Nat
  BY Zenon, <1>1, <1>2, <1>4 DEF TypeOK
<1>6. /\ Mono
      /\ \A d \in Chans : Kept(send_que'[d], send_que[d]) /\ Kept(recv_que'[d], recv_que[d])
      /\ \A g : g.type = f.type /\ g.chan = f.chan => NoMatch(g)'
  BY Zenon, <1>1, <1>5, FailMatches
<1> HIDE DEF e, last
<1>7. ASSUME NEW l \in {"selTry", "selBlock", "selLeave"}, pc' = [pc EXCEPT ![t] = l],
             IF l = "selLeave" THEN at' = at /\ \E r : r.code # "success" /\ res' = [res EXCEPT ![t] = r]
             ELSE at' = [at EXCEPT ![t] = @ + 1] /\ UNCHANGED <<res, accepted, refused>>,
             accepted' = accepted, refused' \subseteq refused \cup {Message(t)}
      PROVE  MInv'
  <2>1. pc'[t] = l /\ \A x \in Tasks : x # t => pc'[x] = pc[x] /\ at'[x] = at[x]
    BY Zenon, <1>7 DEF TypeOK
  <2>2. Transfers' /\ Accounted'
    <3>1. /\ l \in {"idle", "selTry", "selBlock", "selLeave"}
          /\ IF l \in {"idle", "selLeave"}
             THEN \E r : r.code # "success" /\ res' = [res EXCEPT ![t] = r]
             ELSE UNCHANGED <<res, accepted, refused>>
      BY Zenon, <1>7
    <3>2. pc[t] \in {"send", "recv", "selTry"} /\ (l = "idle" <=> pc[t] # "selTry")
      BY Zenon, <1>1, <1>7
    <3>3. UNCHANGED <<buf, status, qtag, op, nops, closed, with, delivered, dropped>>
      BY Zenon, <1>1
    <3> QED BY Zenon, <1>5, <1>7, <3>1, <3>2, <3>3, FailKeeps
  <2>3. ASSUME l # "selLeave", NEW i \in 1..at'[t], NEW g, g = op[t].cases[i]
        PROVE  NoMatch(g)'
    <3>1. at'[t] = at[t] + 1
      BY Zenon, <1>7, <2>3 DEF TypeOK
    <3>2. CASE i = at[t] + 1
      BY Zenon, <1>5, <1>6, <2>3, <3>2
    <3>3. CASE i # at[t] + 1
      <4>1. i \in 1..at[t] /\ i \in DOMAIN op[t].cases
        <5>1. op[t].cases \in Seq([chan : Chans, type : {"send", "recv"}])
          BY Zenon, <1>1, CallIs
        <5>2. at[t] \in Nat /\ at[t] < Len(op[t].cases)
          BY Zenon, <1>1 DEF TypeOK, Calling
        <5>3. i \in 1..at[t]
          BY <2>3, <3>1, <3>3, <5>2
        <5>4. Len(op[t].cases) \in Nat /\ DOMAIN op[t].cases = 1..Len(op[t].cases)
          BY Zenon, <5>1, IndexIs
        <5> QED BY Zenon, <5>2, <5>3, <5>4, PrefixIs
      <4>2. NoMatch(g) /\ g.chan \in Chans
        <5>1. op[t].cases \in Seq([chan : Chans, type : {"send", "recv"}])
          BY Zenon, <1>1, CallIs
        <5>2. g.chan \in Chans
          <6>1. op[t].cases[i] \in [chan : Chans, type : {"send", "recv"}]
            <7>1. i \in 1..Len(op[t].cases)
              BY Zenon, <4>1, <5>1, IndexIs
            <7> QED BY Zenon, <5>1, <7>1, IndexIs
          <6> QED BY Zenon, <2>3, <6>1
        <5> QED BY Zenon, <1>1, <2>3, <4>1, <5>2 DEF Unmatched
      <4>3. /\ Fetchable(send_que[g.chan]) = {} => Fetchable(send_que[g.chan])' = {}
            /\ Fetchable(recv_que[g.chan]) = {} => Fetchable(recv_que[g.chan])' = {}
        BY Zenon, <1>6, <4>2, FetchableKept DEF Que
      <4> QED BY Zenon, <1>1, <4>2, <4>3 DEF NoMatch
    <3> QED BY Zenon, <3>2, <3>3
  <2>4. Unmatched'
    BY Zenon, <1>1, <1>6, <2>1, <2>3, UnmatchedKept DEF MInv
  <2> QED BY Zenon, <2>2, <2>4 DEF MInv
<1>8. CASE /\ pc' = [pc EXCEPT ![t] = "selLeave"]
           /\ res' = [res EXCEPT ![t] = [code |-> Code(e.type, e.chan), chan |-> NULL]]
           /\ accepted' = accepted /\ refused' \subseteq refused \cup {Message(t)} /\ at' = at
  <2>1. \E r : r.code # "success" /\ res' = [res EXCEPT ![t] = r]
    <3> DEFINE r == [code |-> Code(e.type, e.chan), chan |-> NULL]
    <3>1. r.code # "success" /\ res' = [res EXCEPT ![t] = r]
      BY Zenon, <1>3, <1>8
    <3> HIDE DEF r
    <3> QED BY Zenon, <3>1
  <2> QED BY Zenon, <1>7, <1>8, <2>1
<1>9. CASE /\ at' = [at EXCEPT ![t] = @ + 1] /\ UNCHANGED <<res, accepted, refused>>
           /\ pc' = [pc EXCEPT ![t] = IF last THEN "selBlock" ELSE "selTry"]
  BY Zenon, <1>7, <1>9
<1> QED BY Zenon, <1>1, <1>8, <1>9


\* Who can be fetched from a queue that a step leaves alone.
LEMMA FetchableSame ==
  ASSUME NEW d \in Chans, NEW type \in {"send", "recv"}, Que(type)'[d] = Que(type)[d],
         \A q \in Quanta(Que(type), d) : qtag'[q.task] = qtag[q.task]
  PROVE Fetchable(Que(type)[d])' = Fetchable(Que(type)[d])
<1>1. \A i \in DOMAIN Que(type)[d] : qtag'[Que(type)[d][i].task] = qtag[Que(type)[d][i].task]
  BY Zenon DEF Quanta
<1> QED BY Zenon, <1>1 DEF Fetchable

\* Matches stay found when t begins to wait at channels S that no other select has locked.
LEMMA BlockedUnmatched ==
  ASSUME SInv, Unmatched, NEW t \in Tasks, NEW S,
         \A d \in Chans \cap S : lock[d] \in {NULL, t},
         \A d \in Chans : /\ \A q \in Quanta(send_que, d) : qtag'[q.task] = qtag[q.task]
                          /\ \A q \in Quanta(recv_que, d) : qtag'[q.task] = qtag[q.task],
         \A d \in Chans : d \notin S => send_que'[d] = send_que[d] /\ recv_que'[d] = recv_que[d],
         \A d \in Chans \cap S :
           Fetchable(recv_que[d])' # {} => buf'[d] = <<>> /\ Fetchable(send_que[d])' = {},
         buf' = buf, pc'[t] \notin {"selTry", "selBlock"},
         \A x \in Tasks : x # t => pc'[x] = pc[x] /\ op'[x] = op[x] /\ at'[x] = at[x]
  PROVE Unmatched'
<1> TypeOK /\ Calling /\ Chained /\ Waiting /\ Queued
  BY Zenon DEF SInv
<1>1. ASSUME NEW d \in Chans, d \notin S
      PROVE  /\ Fetchable(send_que[d])' = Fetchable(send_que[d])
             /\ Fetchable(recv_que[d])' = Fetchable(recv_que[d])
  <2>1. Fetchable(Que("send")[d])' = Fetchable(Que("send")[d])
    BY Zenon, <1>1, FetchableSame DEF Que
  <2>2. Fetchable(Que("recv")[d])' = Fetchable(Que("recv")[d])
    BY Zenon, <1>1, FetchableSame DEF Que
  <2> QED BY Zenon, <2>1, <2>2 DEF Que
<1>2. \A d \in Chans : Fetchable(recv_que[d])' # {} =>
                         buf'[d] = <<>> /\ Fetchable(send_que[d])' = {}
  BY Zenon, <1>1 DEF Unmatched
<1>3. ASSUME NEW x \in Tasks, pc'[x] \in {"selTry", "selBlock"}, NEW i \in 1..at'[x]
      PROVE  NoMatch(op[x].cases[i])'
  <2>1. PICK e : e = op[x].cases[i]
    BY Zenon
  <2>2. x # t /\ pc[x] = pc'[x] /\ op'[x] = op[x] /\ at'[x] = at[x]
    BY Zenon, <1>3
  <2>3. op[x].cases \in Seq([chan : Chans, type : {"send", "recv"}]) /\ Set(x) \subseteq Chans
    BY Zenon, <1>3, <2>2, CallIs
  <2>4. at[x] \in Nat /\ at[x] <= Len(op[x].cases)
    BY <1>3, <2>2, <2>3 DEF TypeOK, Calling
  <2>5. i \in DOMAIN op[x].cases
    BY <1>3, <2>2, <2>3, <2>4
  <2>6. e.chan \in Set(x) /\ e.chan \in Chans
    BY Zenon, <2>1, <2>3, <2>5 DEF Set
  <2>7. lock[e.chan] = x
    BY <1>3, <2>2, <2>6 DEF Chained
  <2>8. e.chan \notin S
    BY Zenon, <2>2, <2>6, <2>7, ChannelAssumption
  <2>9. NoMatch(e)
    BY Zenon, <1>3, <2>1, <2>2 DEF Unmatched
  <2>10. NoMatch(e)'
    BY Zenon, <1>1, <2>6, <2>8, <2>9 DEF NoMatch
  <2>11. op'[x].cases[i] = e
    BY Zenon, <2>1, <2>2
  <2>12. NoMatch(op[x].cases[i])' <=> NoMatch(e)'
    BY Zenon, <2>11, NoMatchIs
  <2> QED BY Zenon, <2>10, <2>12
<1> QED BY Zenon, <1>2, <1>3 DEF Unmatched

\* A call that begins to wait takes part in no transfer yet and keeps its message.
LEMMA WaitKeeps ==
  ASSUME SInv, MInv, NEW t \in Tasks, pc[t] \in {"send", "recv", "selBlock"},
         NEW l \in {"sendWait", "recvWait", "selWait"}, pc' = [pc EXCEPT ![t] = l],
         status' = [status EXCEPT ![t] = "WAIT"], \A x \in Tasks : x # t => qtag'[x] = qtag[x],
         UNCHANGED <<buf, op, nops, closed, res, with, delivered, accepted, refused, dropped>>
  PROVE Transfers' /\ Accounted'
<1> TypeOK /\ Calling /\ Chained /\ Waiting /\ Queued
  BY Zenon DEF SInv
<1> Unmatched /\ Transfers /\ Accounted
  BY Zenon DEF MInv
<1>1. /\ pc'[t] = l /\ status'[t] = "WAIT"
      /\ \A x \in Tasks : x # t => pc'[x] = pc[x] /\ status'[x] = status[x]
  BY Zenon DEF TypeOK
<1>2. Transfers'
  <2>1. with[t] = Transfer(t) /\ ~closed[t]
    BY Zenon DEF Transfers
  <2>2. Transfer(t) = {} /\ Transfer(t)' = {}
    BY Zenon, <1>1 DEF Transfer
  <2> QED BY <1>1, <2>1, <2>2, OwnTransfer DEF MInv
<1>3. Accounted'
  <2>1. ~Sent(t) /\ ~Sent(t)'
    BY Zenon, <1>1 DEF Sent
  <2>2. \A x \in Tasks : x # t => (Sent(x)' <=> Sent(x))
    BY Zenon, <1>1, SameSent
  <2>3. Message(t) \notin accepted \cup refused
    BY Zenon DEF Accounted
  <2> QED BY Zenon, <1>1, <2>1, <2>2, <2>3, QuietAccounted DEF MInv
<1> QED BY Zenon, <1>2, <1>3

\* A send or a receive that begins to wait keeps the invariant.
LEMMA BlockMInv ==
  ASSUME SInv, MInv, NEW t \in Tasks, NEW type \in {"send", "recv"}, Block(t, type)
  PROVE MInv'
<1> TypeOK /\ Calling /\ Chained /\ Waiting /\ Queued
  BY Zenon DEF SInv
<1> Unmatched /\ Transfers /\ Accounted
  BY Zenon DEF MInv
<1> DEFINE c == op[t].chan
           q == Quantum(t, c, FALSE)
           l == IF type = "send" THEN "sendWait" ELSE "recvWait"
<1>1. /\ pc[t] = type /\ lock[c] = NULL /\ Code(type, c) = "busy"
      /\ status' = [status EXCEPT ![t] = "WAIT"] /\ pc' = [pc EXCEPT ![t] = l]
      /\ UNCHANGED <<buf, qtag, op, nops, at, closed, res, with,
                     delivered, accepted, refused, dropped>>
      /\ \/ /\ type = "send"
            /\ send_que' = [send_que EXCEPT ![c] = Append(@, q)]
            /\ recv_que' = [recv_que EXCEPT ![c] = <<>>]
         \/ /\ type = "recv"
            /\ recv_que' = [recv_que EXCEPT ![c] = Append(@, q)]
            /\ send_que' = [send_que EXCEPT ![c] = <<>>]
  BY Zenon DEF Block, Goto, messages
<1>2. c \in Chans
  BY Zenon, <1>1, CallIs
<1> HIDE DEF c, q
<1>3. Transfers' /\ Accounted'
  BY Zenon, <1>1, WaitKeeps
<1>4. Unmatched'
  <2>1. PICK S : S = {c}
    BY Zenon
  <2>2. \A d \in Chans : d \notin S => send_que'[d] = send_que[d] /\ recv_que'[d] = recv_que[d]
    BY Zenon, <1>1, <2>1 DEF TypeOK
  <2>3. ASSUME NEW d \in Chans \cap S, Fetchable(recv_que[d])' # {}
        PROVE  buf'[d] = <<>> /\ Fetchable(send_que[d])' = {}
    <3>1. d = c
      BY Zenon, <2>1
    <3>2. recv_que'[c] # <<>>
      BY <2>3, <3>1 DEF Fetchable
    <3>3. type = "recv" /\ send_que'[c] = <<>>
      BY Zenon, <1>1, <1>2, <3>2 DEF TypeOK
    <3>4. buf[c] = <<>>
      BY Zenon, <1>1, <3>3 DEF Code, RecvCode
    <3> QED BY <1>1, <3>1, <3>3, <3>4 DEF Fetchable
  <2>4. pc'[t] \notin {"selTry", "selBlock"} /\ \A x \in Tasks : x # t => pc'[x] = pc[x]
    BY Zenon, <1>1 DEF TypeOK
  <2>5. \A d \in Chans \cap S : lock[d] \in {NULL, t}
    BY Zenon, <1>1, <2>1
  <2> QED BY Zenon, <1>1, <2>2, <2>3, <2>4, <2>5, BlockedUnmatched DEF MInv
<1> QED BY Zenon, <1>3, <1>4 DEF MInv

\* A select that begins to wait keeps the invariant.
LEMMA SelBlockMInv ==
  ASSUME SInv, MInv, NEW t \in Tasks, SelBlock(t)
  PROVE MInv'
<1> TypeOK /\ Calling /\ Chained /\ Waiting /\ Queued
  BY Zenon DEF SInv
<1> Unmatched /\ Transfers /\ Accounted
  BY Zenon DEF MInv
<1>1. /\ pc[t] = "selBlock" /\ qtag' = [qtag EXCEPT ![t] = NULL]
      /\ status' = [status EXCEPT ![t] = "WAIT"] /\ pc' = [pc EXCEPT ![t] = "selWait"]
      /\ UNCHANGED <<buf, op, nops, at, closed, res, with, delivered, accepted, refused, dropped>>
  BY Zenon DEF SelBlock, Goto, messages
<1>2. \A d \in Chans : /\ d \notin Cases(t, "send") => send_que'[d] = send_que[d]
                       /\ d \notin Cases(t, "recv") => recv_que'[d] = recv_que[d]
  BY Zenon DEF SelBlock
<1>3. /\ Set(t) \subseteq Chans /\ Cases(t, "send") \cap Cases(t, "recv") = {}
      /\ op[t].cases \in Seq([chan : Chans, type : {"send", "recv"}])
      /\ \A type : Cases(t, type) \subseteq Set(t)
  BY Zenon, <1>1, CallIs
<1>4. /\ pc'[t] = "selWait"
      /\ \A x \in Tasks : x # t => pc'[x] = pc[x] /\ qtag'[x] = qtag[x]
  BY Zenon, <1>1 DEF TypeOK
<1>5. \A d \in Chans : /\ \A q \in Quanta(send_que, d) : qtag'[q.task] = qtag[q.task]
                       /\ \A q \in Quanta(recv_que, d) : qtag'[q.task] = qtag[q.task]
  BY Zenon, <1>1, <1>4, NoQuantum, QuantaTyped
<1>6. Transfers' /\ Accounted'
  BY Zenon, <1>1, <1>4, WaitKeeps
<1>7. Unmatched'
  <2>1. PICK S : S = Set(t)
    BY Zenon
  <2>2. ASSUME NEW d \in Chans \cap S, Fetchable(recv_que[d])' # {}
        PROVE  buf'[d] = <<>> /\ Fetchable(send_que[d])' = {}
    <3>1. PICK i \in DOMAIN op[t].cases : op[t].cases[i].chan = d
      BY Zenon, <2>1 DEF Set
    <3>2. PICK e : e = op[t].cases[i]
      BY Zenon
    <3>3. e.chan = d /\ e.type \in {"send", "recv"}
      <4>1. i \in 1..Len(op[t].cases)
        BY Zenon, <1>3, IndexIs
      <4>2. op[t].cases[i] \in [chan : Chans, type : {"send", "recv"}]
        BY Zenon, <1>3, <4>1, IndexIs
      <4> QED BY Zenon, <3>1, <3>2, <4>2
    <3>4. d \in Cases(t, e.type)
      BY Zenon, <3>1, <3>2 DEF Cases
    <3>5. NoMatch(e)
      <4>1. at[t] = Len(op[t].cases)
        BY Zenon, <1>1 DEF Calling
      <4>2. i \in 1..at[t]
        BY <1>3, <4>1, IndexIs
      <4> QED BY Zenon, <1>1, <3>2, <4>2 DEF Unmatched
    <3>6. CASE e.type = "send"
      <4>1. recv_que'[d] = recv_que[d]
        BY Zenon, <1>2, <1>3, <3>4, <3>6
      <4>2. Fetchable(Que("recv")[d])' = Fetchable(Que("recv")[d])
        BY Zenon, <1>5, <4>1, FetchableSame DEF Que
      <4> QED BY Zenon, <2>2, <3>3, <3>5, <3>6, <4>2 DEF NoMatch, Que
    <3>7. CASE e.type = "recv"
      <4>1. send_que'[d] = send_que[d]
        BY Zenon, <1>2, <1>3, <3>4, <3>7
      <4>2. Fetchable(Que("send")[d])' = Fetchable(Que("send")[d])
        BY Zenon, <1>5, <4>1, FetchableSame DEF Que
      <4> QED BY Zenon, <1>1, <3>3, <3>5, <3>7, <4>2 DEF NoMatch, Que
    <3> QED BY Zenon, <3>3, <3>6, <3>7
  <2>3. \A d \in Chans : d \notin S => send_que'[d] = send_que[d] /\ recv_que'[d] = recv_que[d]
    BY Zenon, <1>2, <1>3, <2>1
  <2>4. \A d \in Chans \cap S : lock[d] \in {NULL, t}
    BY <1>1, <2>1 DEF Chained
  <2> QED BY Zenon, <1>1, <1>4, <1>5, <2>2, <2>3, <2>4, BlockedUnmatched DEF MInv
<1> QED BY Zenon, <1>6, <1>7 DEF MInv


\* A select that takes its quanta out of the queues keeps the invariant.
LEMMA SelDoneMInv ==
  ASSUME SInv, MInv, NEW t \in Tasks, SelDone(t)
  PROVE MInv'
<1> TypeOK /\ Calling /\ Chained /\ Waiting /\ Queued
  BY Zenon DEF SInv
<1> Unmatched /\ Transfers /\ Accounted
  BY Zenon DEF MInv
<1> DEFINE sent == qtag[t] \in Cases(t, "send") /\ ~closed[t]
<1>1. /\ pc[t] = "selDone" /\ qtag' = [qtag EXCEPT ![t] = NULL]
      /\ pc' = [pc EXCEPT ![t] = "selLeave"]
      /\ res' = [res EXCEPT ![t] = [code |-> IF closed[t] THEN "closed" ELSE "success",
                                    chan |-> qtag[t]]]
      /\ UNCHANGED <<buf, status, op, nops, at, closed, with, delivered, dropped>>
      /\ accepted' = IF sent THEN accepted \cup {Message(t)} ELSE accepted
      /\ refused' = refused \/ (~sent /\ refused' = refused \cup {Message(t)})
  BY Zenon DEF SelDone, Leave, Goto, Fate
<1>2. /\ pc'[t] = "selLeave"
      /\ res'[t] = [code |-> IF closed[t] THEN "closed" ELSE "success", chan |-> qtag[t]]
      /\ \A x \in Tasks : x # t => pc'[x] = pc[x] /\ qtag'[x] = qtag[x] /\ res'[x] = res[x]
  BY Zenon, <1>1 DEF TypeOK
<1>3. status[t] # "WAIT" /\ status[t] = "RUNNING"
  BY Zenon, <1>1 DEF Waiting, TypeOK
<1>4. Unmatched'
  <2>1. \A d \in Chans : Kept(send_que'[d], send_que[d]) /\ Kept(recv_que'[d], recv_que[d])
    BY Zenon, SelDoneTakes DEF Que
  <2>2. Mono
    <3> SUFFICES ASSUME NEW d \in Chans, NEW type \in {"send", "recv"},
                        NEW q \in Quanta(Que(type)', d)
                 PROVE  qtag'[q.task] = qtag[q.task]
      BY Zenon DEF Mono
    <3>1. q.task # t
      BY Zenon, SelDoneTakes
    <3>2. q.task \in Tasks
      BY <2>1, QuantaTyped DEF Que, Quanta, Kept
    <3> QED BY Zenon, <1>2, <3>1, <3>2
  <2> QED BY Zenon, <1>1, <1>2, <2>1, <2>2, UnmatchedKept DEF MInv
<1>5. Transfers'
  <2>1. with[t] = Transfer(t)
    BY Zenon DEF Transfers
  <2>2. Transfer(t)' = Transfer(t)
    <3>1. Transfer(t) = IF closed[t] THEN {} ELSE {qtag[t]}
      BY Zenon, <1>1, <1>3 DEF Transfer
    <3>2. /\ res'[t].code = IF closed[t] THEN "closed" ELSE "success"
          /\ res'[t].chan = qtag[t]
      BY <1>2
    <3>3. Transfer(t)' = IF closed[t] THEN {} ELSE {qtag[t]}
      BY Zenon, <1>2, <3>2 DEF Transfer
    <3> QED BY Zenon, <3>1, <3>3
  <2> QED BY Zenon, <1>1, <1>2, <1>3, <2>1, <2>2, OwnTransfer DEF MInv
<1>6. Accounted'
  <2>1. Sent(t) <=> sent
    BY Zenon, <1>1, <1>3 DEF Sent
  <2>2. Message(t) \notin accepted \cup refused /\ (Nowhere(Message(t)) <=> ~Sent(t))
    BY Zenon, <1>1 DEF Accounted
  <2>3. \A x \in Tasks : x # t => (Sent(x)' <=> Sent(x))
    BY Zenon, <1>1, <1>2, SameSent
  <2> HIDE DEF sent
  <2>4. /\ accepted' \subseteq accepted \cup {Message(t)}
        /\ refused' \subseteq refused \cup {Message(t)}
        /\ Message(t) \in accepted' => ~Nowhere(Message(t))
        /\ Message(t) \in refused' => Nowhere(Message(t))
    BY Zenon, <1>1, <2>1, <2>2
  <2> QED BY Zenon, <1>1, <1>2, <2>3, <2>4, QuietAccounted DEF MInv
<1> QED BY Zenon, <1>4, <1>5, <1>6 DEF MInv

\* coroc_chan_close keeps the invariant.
LEMMA CloseMInv ==
  ASSUME SInv, MInv, NEW t \in Tasks, Close(t)
  PROVE MInv'
<1> TypeOK /\ Calling /\ Chained /\ Waiting /\ Queued
  BY Zenon DEF SInv
<1> Unmatched /\ Transfers /\ Accounted
  BY Zenon DEF MInv
<1> DEFINE c == op[t].chan
<1>1. /\ pc[t] = "close" /\ pc' = [pc EXCEPT ![t] = "idle"]
      /\ UNCHANGED <<op, nops, at, with, delivered, accepted, refused>>
  BY Zenon DEF Close, Returns, Goto
<1>2. PICK code \in {"none", "closed"} : res' = [res EXCEPT ![t] = [code |-> code, chan |-> c]]
  BY Zenon DEF Close, Returns
<1>3. c \in Chans
  BY Zenon, <1>1, CallIs
<1>4. \/ UNCHANGED <<buf, send_que, recv_que, status, qtag, closed, dropped>>
      \/ /\ send_que' = [send_que EXCEPT ![c] = <<>>] /\ recv_que' = [recv_que EXCEPT ![c] = <<>>]
         /\ closed' = [u \in Tasks |-> closed[u] \/ \E q \in Waiters(c) : q.task = u]
         /\ qtag' = Tagged(Waiters(c)) /\ status' = Readied(Waiters(c))
         /\ \/ /\ buf' = [buf EXCEPT ![c] = <<>>]
               /\ dropped' = dropped \cup {buf[c][i] : i \in DOMAIN buf[c]}
            \/ buf' = buf /\ dropped' = dropped
  BY Zenon DEF Close, channels
<1> HIDE DEF c
<1>5. /\ pc'[t] = "idle" /\ res'[t].code # "success"
      /\ \A x \in Tasks : x # t => pc'[x] = pc[x] /\ res'[x] = res[x]
  BY Zenon, <1>1, <1>2 DEF TypeOK
<1>6. /\ with[t] = {} /\ ~closed[t] /\ status[t] # "WAIT" /\ Message(t) \notin accepted \cup refused
  <2>1. with[t] = Transfer(t) /\ ~closed[t] /\ Message(t) \notin accepted \cup refused
    BY Zenon, <1>1 DEF Transfers, Accounted
  <2>2. Transfer(t) = {} /\ status[t] # "WAIT"
    BY Zenon, <1>1 DEF Transfer, Waiting
  <2> QED BY Zenon, <2>1, <2>2
<1>7. CASE UNCHANGED <<buf, send_que, recv_que, status, qtag, closed, dropped>>
  <2>1. Unmatched'
    BY Zenon, <1>1, <1>5, <1>7, QuietUnmatched DEF MInv
  <2>2. Transfers'
    <3>1. Transfer(t)' = {}
      BY Zenon, <1>5 DEF Transfer
    <3> QED BY Zenon, <1>1, <1>5, <1>6, <1>7, <3>1, OwnTransfer DEF MInv
  <2>3. Accounted'
    <3>1. \A x \in Tasks : x # t => (Sent(x)' <=> Sent(x))
      BY Zenon, <1>1, <1>5, <1>7, SameSent
    <3> QED BY Zenon, <1>1, <1>5, <1>6, <1>7, <3>1, QuietAccounted DEF MInv
  <2> QED BY Zenon, <2>1, <2>2, <2>3 DEF MInv
<1>8. ASSUME send_que' = [send_que EXCEPT ![c] = <<>>], recv_que' = [recv_que EXCEPT ![c] = <<>>],
             closed' = [u \in Tasks |-> closed[u] \/ \E q \in Waiters(c) : q.task = u],
             qtag' = Tagged(Waiters(c)), status' = Readied(Waiters(c)),
             \/ /\ buf' = [buf EXCEPT ![c] = <<>>]
                /\ dropped' = dropped \cup {buf[c][i] : i \in DOMAIN buf[c]}
             \/ buf' = buf /\ dropped' = dropped
      PROVE  MInv'
  <2>1. ASSUME NEW x \in Tasks
        PROVE  \/ /\ status'[x] = status[x] /\ qtag'[x] = qtag[x] /\ closed'[x] = closed[x]
               \/ /\ status[x] = "WAIT" /\ status'[x] = "RUNNING" /\ closed'[x]
                  /\ qtag'[x] \in {c, qtag[x]}
    <3>1. \/ /\ \A w \in Waiters(c) : w.task # x
             /\ status'[x] = status[x] /\ qtag'[x] = qtag[x]
          \/ \E w \in Waiters(c) :
               /\ w.task = x /\ status'[x] = "RUNNING"
               /\ qtag'[x] = IF w.select THEN c ELSE qtag[x]
      BY Zenon, <1>3, <1>8, CloseWakes
    <3>2. CASE \A w \in Waiters(c) : w.task # x
      BY Zenon, <1>8, <3>1, <3>2 DEF TypeOK
    <3>3. ASSUME NEW w \in Waiters(c), w.task = x, status'[x] = "RUNNING",
                 qtag'[x] = IF w.select THEN c ELSE qtag[x]
          PROVE  status[x] = "WAIT" /\ closed'[x] /\ qtag'[x] \in {c, qtag[x]}
      BY Zenon, <1>3, <1>8, <3>3, WaitersAre
    <3> QED BY Zenon, <3>1, <3>2, <3>3
  <2>2. Unmatched'
    <3>1. \A d \in Chans : Kept(send_que'[d], send_que[d]) /\ Kept(recv_que'[d], recv_que[d])
      <4>1. \A s : Kept(s, s) /\ Kept(<<>>, s)
        BY DEF Kept, Once
      <4> QED BY Zenon, <1>3, <1>8, <4>1 DEF TypeOK
    <3>2. \A x \in Tasks : qtag[x] # NULL => qtag'[x] # NULL
      BY Zenon, <1>3, <2>1, ChannelAssumption
    <3>3. Mono
      <4>1. \A d \in Chans, type \in {"send", "recv"} :
              \A q \in Quanta(Que(type)', d) : q.task \in Tasks
        BY <3>1, QuantaTyped DEF Kept, Quanta, Que
      <4> QED BY Zenon, <3>2, <4>1 DEF Mono
    <3>4. \A d \in Chans : buf'[d] = buf[d] \/ buf'[d] = <<>>
      BY Zenon, <1>8 DEF TypeOK
    <3> QED BY Zenon, <1>1, <1>5, <3>1, <3>3, <3>4, UnmatchedKept DEF MInv
  <2>3. \A x \in Tasks : status[x] = "WAIT" => with[x] = {} /\ x # t /\ ~Sent(x) /\
                           pc[x] \in {"sendWait", "recvWait", "selWait"}
    <3>1. \A x \in Tasks : status[x] = "WAIT" => pc[x] \in {"sendWait", "recvWait", "selWait"}
      BY Zenon DEF Waiting
    <3>2. \A x \in Tasks : status[x] = "WAIT" => ~Sent(x)
      BY Zenon DEF Sent
    <3>3. \A x \in Tasks : status[x] = "WAIT" => with[x] = {}
      BY Zenon, <3>1 DEF Transfers, Transfer
    <3> QED BY Zenon, <1>6, <3>1, <3>2, <3>3
  <2>4. ASSUME NEW x \in Tasks
        PROVE  /\ with'[x] = Transfer(x)'
               /\ pc'[x] \notin {"sendWait", "recvWait", "selWait", "selDone", "idle", "selLeave"} \/
                  status'[x] = "WAIT" => ~closed'[x]
               /\ x # t => (Sent(x)' <=> Sent(x))
    <3>1. CASE x = t
      <4>1. Transfer(t)' = {}
        BY Zenon, <1>5 DEF Transfer
      <4>2. closed'[t] = closed[t]
        BY Zenon, <1>6, <2>1
      <4> QED BY Zenon, <1>1, <1>5, <1>6, <3>1, <4>1, <4>2
    <3>2. CASE x # t /\ status'[x] = status[x] /\ qtag'[x] = qtag[x] /\ closed'[x] = closed[x]
      <4>1. Transfer(x)' = Transfer(x)
        BY Zenon, <1>1, <1>5, <3>2, SameTransfer
      <4>2. Sent(x)' <=> Sent(x)
        BY Zenon, <1>1, <1>5, <3>2, SameSent
      <4> QED BY Zenon, <1>1, <1>5, <3>2, <4>1, <4>2 DEF Transfers
    <3>3. CASE x # t /\ status[x] = "WAIT" /\ status'[x] = "RUNNING" /\ closed'[x]
      <4>1. pc'[x] \in {"sendWait", "recvWait", "selWait"} /\ with[x] = {} /\ ~Sent(x)
        BY Zenon, <1>5, <2>3, <3>3
      <4>2. Transfer(x)' = {} /\ ~Sent(x)'
        BY Zenon, <3>3, <4>1 DEF Transfer, Sent
      <4> QED BY Zenon, <1>1, <3>3, <4>1, <4>2
    <3> QED BY Zenon, <2>1, <3>1, <3>2, <3>3
  <2>5. Transfers'
    BY Zenon, <2>4 DEF Transfers
  <2>6. Accounted'
    <3>1. TypeOK /\ Accounted /\ \A v \in Messages : InOnePlace(v)
      BY Zenon DEF Accounted
    <3>2. \A v \in Messages : InOnePlace(v)' /\ (Nowhere(v)' <=> Nowhere(v))
      <4>1. CASE /\ buf' = [buf EXCEPT ![c] = <<>>]
                 /\ dropped' = dropped \cup {buf[c][i] : i \in DOMAIN buf[c]}
        BY Zenon, <1>1, <1>3, <3>1, <4>1, DropPlaces
      <4>2. CASE buf' = buf /\ dropped' = dropped
        BY <1>1, <3>1, <4>2 DEF InOnePlace, Nowhere, Slots
      <4> QED BY Zenon, <1>8, <4>1, <4>2
    <3>3. PICK P : P = {}
      BY Zenon
    <3>4. /\ \A v \in Messages : InOnePlace(v)' /\ (Nowhere(v)' <=> Nowhere(v) /\ v \notin P)
          /\ \A v \in P : \E x \in Tasks : v = Message(x) /\ pc[x] \notin {"idle", "selLeave"}
      BY Zenon, <3>2, <3>3
    <3>5. /\ \A v \in accepted' : v = Message(t) => ~Nowhere(v)'
          /\ \A v \in refused' : v = Message(t) => Nowhere(v)'
      BY Zenon, <1>1, <1>6
    <3>6. /\ \A x \in Tasks : x # t =>
               pc'[x] = pc[x] /\ (pc[x] \notin {"idle", "selLeave"} =>
                                    (Sent(x)' <=> Sent(x) \/ Message(x) \in P))
          /\ pc'[t] \in {"idle", "selLeave"}
      BY Zenon, <1>5, <2>4, <3>3
    <3>7. accepted' \subseteq accepted \cup {Message(t)} /\ refused' \subseteq refused \cup {Message(t)}
      BY Zenon, <1>1
    <3> QED BY Zenon, <1>1, <3>1, <3>4, <3>5, <3>6, <3>7, AccountedStep
  <2> QED BY Zenon, <2>2, <2>5, <2>6 DEF MInv
<1> QED BY Zenon, <1>4, <1>7, <1>8


-----------------------------------------------------------------------------
(* The theorems *)

\* The invariant holds at first.
LEMMA InitMInv == Init => MInv
<1> SUFFICES ASSUME Init
             PROVE  MInv
  BY Zenon
<1>1. Unmatched
  BY DEF Init, Unmatched, Fetchable
<1>2. Transfers
  BY Zenon DEF Init, Transfers, Transfer
<1>3. \A v \in Messages : delivered[v] = 0 /\ Slots(v) = {}
  BY DEF Init, Slots
<1>4. \A v \in Messages : Nowhere(v) /\ InOnePlace(v)
  BY <1>3 DEF Init, Nowhere, InOnePlace
<1>5. Accounted
  BY Zenon, <1>4 DEF Init, Accounted
<1> QED BY Zenon, <1>1, <1>2, <1>5 DEF MInv

\* Every step keeps it.
LEMMA NextMInv == SInv /\ MInv /\ [Next]_vars => MInv'
<1> SUFFICES ASSUME SInv, MInv, [Next]_vars
             PROVE  MInv'
  BY Zenon
<1>1. ASSUME NEW t \in Tasks, Call(t) \/ Step(t)
      PROVE  MInv'
  BY Zenon, <1>1, CallMInv, SendMInv, RecvMInv, BlockMInv, AwakenMInv, CloseMInv, SelLockMInv,
     SelSuccessMInv, SelFailMInv, SelBlockMInv, CoreWaitReleaseMInv, SelDoneMInv,
     SelLeaveMInv DEF Step
<1>2. CASE UNCHANGED vars
  <2>1. UNCHANGED <<buf, send_que, recv_que, status, qtag, pc, op, nops, at, closed, res, with,
                    delivered, accepted, refused, dropped>>
    BY Zenon, <1>2 DEF vars, channels, calls, messages
  <2>2. CASE Tasks = {}
    <3>1. Messages = {}
      BY Zenon, <2>2 DEF Messages
    <3>2. Unmatched'
      BY Zenon, <2>1, <2>2 DEF MInv, Unmatched, Fetchable
    <3>3. Transfers' /\ Accounted'
      BY Zenon, <2>2, <3>1 DEF Transfers, Accounted
    <3> QED BY Zenon, <3>2, <3>3 DEF MInv
  <2>3. CASE Tasks # {}
    <3>1. PICK t : t \in Tasks
      BY Zenon, <2>3
    <3> QED BY Zenon, <2>1, <3>1, SameMInv
  <2> QED BY Zenon, <2>2, <2>3
<1> QED BY Zenon, <1>1, <1>2 DEF Next

\* The invariant always holds.
LEMMA MInvAlways == Spec => [](SInv /\ MInv)
<1>1. Init => SInv /\ MInv
  BY Zenon, InitSInv, InitMInv
<1>2. SInv /\ MInv /\ [Next]_vars => SInv' /\ MInv'
  BY Zenon, NextSInv, NextMInv
<1> QED BY <1>1, <1>2, PTL DEF Spec

\* The invariant says what the properties say of the messages.
LEMMA MInvImplies == SInv /\ MInv => NoMissedMatch /\ OneTransfer /\ Conserved
<1> SUFFICES ASSUME SInv, MInv
             PROVE  NoMissedMatch /\ OneTransfer /\ Conserved
  BY Zenon
<1>1. NoMissedMatch
  BY Zenon DEF MInv, Unmatched, NoMissedMatch
<1>2. OneTransfer
  <2> SUFFICES ASSUME NEW t \in Tasks
               PROVE  /\ \A c, d \in with[t] : c = d
                      /\ pc[t] = "idle" /\ res[t].code # "none" =>
                           with[t] = IF res[t].code = "success" THEN {res[t].chan} ELSE {}
    BY Zenon DEF OneTransfer
  <2>1. with[t] = Transfer(t)
    BY Zenon DEF MInv, Transfers
  <2> QED BY Zenon, <2>1 DEF Transfer
<1>3. Conserved
  <2> SUFFICES ASSUME NEW v \in Messages
               PROVE  LET places == delivered[v] + (IF Slots(v) # {} THEN 1 ELSE 0)
                                    + (IF v \in dropped THEN 1 ELSE 0) IN
                      /\ places <= 1 /\ \A x, y \in Slots(v) : x = y
                      /\ v \in accepted => places = 1
                      /\ v \in refused => places = 0
    BY Zenon DEF Conserved
  <2>1. delivered[v] \in Nat
    BY Zenon DEF SInv, TypeOK
  <2>2. InOnePlace(v) /\ (v \in accepted => ~Nowhere(v)) /\ (v \in refused => Nowhere(v))
    BY Zenon DEF MInv, Accounted
  <2> QED BY <2>1, <2>2 DEF InOnePlace, Nowhere
<1> QED BY Zenon, <1>1, <1>2, <1>3

\* Whatever the coroutines, the channels and what they call: nobody waits to receive
\* what is in the buffer or what somebody else waits to send.
THEOREM ChannelNoMissedMatch == Spec => []NoMissedMatch
BY MInvAlways, MInvImplies, PTL

\* A call, also a select with many cases, takes part in at most one transfer, the one
\* that it reports.
THEOREM ChannelOneTransfer == Spec => []OneTransfer
BY MInvAlways, MInvImplies, PTL

\* No message is lost, received twice, or received after its send has failed.
THEOREM ChannelConserved == Spec => []Conserved
BY MInvAlways, MInvImplies, PTL
=============================================================================
