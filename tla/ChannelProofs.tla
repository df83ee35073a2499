--------------------------- MODULE ChannelProofs ---------------------------
EXTENDS Channel, WellFoundedInduction, TLAPS

\* The invariant that the queues, the locks and the waiting coroutines keep.
SInv == TypeOK /\ Calling /\ Chained /\ Waiting /\ Queued

\* A set of numbers that is not empty has a least one.
LEMMA LeastIs ==
  ASSUME NEW S, S \subseteq Nat, S # {}
  PROVE Least(S) \in S /\ \A j \in S : Least(S) <= j
<1> DEFINE R == OpToRel(<, Nat)
<1>1. IsWellFoundedOn(R, Nat)
  BY Zenon, NatLessThanWellFounded
<1>2. \A x, y \in Nat : y < x => <<y, x>> \in R
  BY Zenon DEF OpToRel
<1> HIDE DEF R
<1>3. PICK x \in S : \A y \in S : ~(<<y, x>> \in R)
  BY Zenon, <1>1, WFMin
<1>4. \A y \in S : x <= y
  <2> TAKE y \in S
  <2>1. x \in Nat /\ y \in Nat
    BY Zenon
  <2>2. ~(y < x)
    BY Zenon, <1>2, <1>3, <2>1
  <2> QED BY <2>1, <2>2
<1> QED BY Zenon, <1>4 DEF Least

\* What fetch_quantum takes and what it leaves.
LEMMA RestIs ==
  ASSUME NEW Q, NEW que \in Seq(Q), Fetchable(que) # {}
  PROVE LET m == Least(Fetchable(que)) IN
        /\ m \in Fetchable(que) /\ m \in 1..Len(que)
        /\ Rest(que) \in Seq(Q) /\ DOMAIN Rest(que) = 1..(Len(que) - m)
        /\ \A j \in 1..(Len(que) - m) : j + m \in DOMAIN que /\ Rest(que)[j] = que[j + m]
<1> DEFINE m == Least(Fetchable(que))
<1>1. Fetchable(que) \subseteq 1..Len(que)
  BY DEF Fetchable
<1>2. m \in Fetchable(que) /\ m \in 1..Len(que)
  BY <1>1, LeastIs
<1>3. Rest(que) = SubSeq(que, m + 1, Len(que))
  BY Zenon DEF Rest
<1> HIDE DEF m
<1>4. Len(que) \in Nat /\ m + 1 \in 1..(Len(que) + 1) /\ Len(que) - (m + 1) + 1 = Len(que) - m
  BY <1>2
<1>5. /\ Rest(que) \in Seq(Q) /\ Len(Rest(que)) = Len(que) - m
      /\ \A j \in 1..(Len(que) - m) : Rest(que)[j] = que[j + m]
  <2>1. \A i \in (m + 1)..Len(que) : que[i] \in Q
    BY <1>2
  <2>2. /\ SubSeq(que, m + 1, Len(que)) \in Seq(Q)
        /\ Len(SubSeq(que, m + 1, Len(que))) =
             IF m + 1 <= Len(que) THEN Len(que) - (m + 1) + 1 ELSE 0
        /\ \A i \in 1..(Len(que) - (m + 1) + 1) :
             SubSeq(que, m + 1, Len(que))[i] = que[(m + 1) + i - 1]
    BY <1>4, <2>1
  <2>3. \A j \in 1..(Len(que) - m) : (m + 1) + j - 1 = j + m
    BY <1>2
  <2>4. Len(SubSeq(que, m + 1, Len(que))) = Len(que) - m
    BY <1>2, <2>2
  <2>5. 1..(Len(que) - (m + 1) + 1) = 1..(Len(que) - m)
    BY Zenon, <1>4
  <2> QED BY Zenon, <1>3, <2>2, <2>3, <2>4, <2>5
<1>6. \A j \in 1..(Len(que) - m) : j + m \in DOMAIN que
  BY <1>2
<1> QED BY <1>2, <1>5, <1>6 DEF m

\* What queue_extract leaves.
LEMMA WithoutIs ==
  ASSUME NEW Q, NEW que \in Seq(Q), NEW m \in 1..Len(que)
  PROVE /\ Without(que, m) \in Seq(Q) /\ DOMAIN Without(que, m) = 1..(Len(que) - 1)
        /\ \A j \in 1..(Len(que) - 1) :
             Without(que, m)[j] = que[IF j < m THEN j ELSE j + 1]
<1>1. /\ SubSeq(que, 1, m - 1) \in Seq(Q) /\ Len(SubSeq(que, 1, m - 1)) = m - 1
      /\ \A j \in 1..(m - 1) : SubSeq(que, 1, m - 1)[j] = que[j]
  <2>1. \A i \in 1..(m - 1) : que[i] \in Q
    OBVIOUS
  <2> QED BY <2>1
<1>2. /\ SubSeq(que, m + 1, Len(que)) \in Seq(Q)
      /\ Len(SubSeq(que, m + 1, Len(que))) = Len(que) - m
      /\ \A j \in 1..(Len(que) - m) : SubSeq(que, m + 1, Len(que))[j] = que[j + m]
  <2>1. \A i \in (m + 1)..Len(que) : que[i] \in Q
    OBVIOUS
  <2> QED BY <2>1
<1> DEFINE a == SubSeq(que, 1, m - 1)
           b == SubSeq(que, m + 1, Len(que))
<1>3. Without(que, m) = a \o b
  BY Zenon DEF Without
<1> HIDE DEF a, b
<1>4. /\ a \o b \in Seq(Q) /\ Len(a \o b) = Len(que) - 1
      /\ \A i \in 1..(Len(que) - 1) : (a \o b)[i] = IF i <= m - 1 THEN a[i] ELSE b[i - (m - 1)]
  <2>1. a \in Seq(Q) /\ b \in Seq(Q) /\ Len(a) = m - 1 /\ Len(b) = Len(que) - m
    BY Zenon, <1>1, <1>2 DEF a, b
  <2>2. Len(a) + Len(b) = Len(que) - 1
    BY <2>1
  <2>3. Len(a \o b) = Len(a) + Len(b)
    BY <2>1
  <2>5. a \o b \in Seq(Q)
    BY <2>1
  <2>4. ASSUME NEW i \in 1..(Len(a) + Len(b))
        PROVE  (a \o b)[i] = IF i <= Len(a) THEN a[i] ELSE b[i - Len(a)]
    BY <2>1
  <2> QED BY Zenon, <2>1, <2>2, <2>3, <2>4, <2>5
<1>5. \A i \in 1..(Len(que) - 1) : i < m => (a \o b)[i] = que[i]
  BY <1>1, <1>4 DEF a
<1>6. \A i \in 1..(Len(que) - 1) : ~(i < m) => (a \o b)[i] = que[i + 1]
  <2> SUFFICES ASSUME NEW i \in 1..(Len(que) - 1), ~(i < m)
               PROVE  (a \o b)[i] = que[i + 1]
    BY Zenon
  <2>0. ~(i <= m - 1)
    OBVIOUS
  <2>1. (a \o b)[i] = b[i - (m - 1)]
    BY Zenon, <1>4, <2>0
  <2>2. i - (m - 1) \in 1..(Len(que) - m) /\ i - (m - 1) + m = i + 1
    OBVIOUS
  <2> QED BY Zenon, <1>2, <2>1, <2>2 DEF b
<1> QED BY <1>3, <1>4, <1>5, <1>6

\* The indices of a queue, a buffer or the cases of a select.
LEMMA IndexIs ==
  ASSUME NEW S, NEW seq \in Seq(S)
  PROVE /\ Len(seq) \in Nat /\ DOMAIN seq = 1..Len(seq)
        /\ \A i \in 1..Len(seq) : seq[i] \in S
OBVIOUS

\* What a queue or a buffer is once an element has been added to its end.
LEMMA SeqAppendIs ==
  ASSUME NEW S, NEW seq \in Seq(S), NEW e \in S
  PROVE /\ Append(seq, e) \in Seq(S) /\ Len(Append(seq, e)) = Len(seq) + 1
        /\ DOMAIN Append(seq, e) = 1..(Len(seq) + 1)
        /\ \A i \in 1..Len(seq) : Append(seq, e)[i] = seq[i]
        /\ Append(seq, e)[Len(seq) + 1] = e
<1>1. Append(seq, e) \in Seq(S) /\ Len(Append(seq, e)) = Len(seq) + 1
  OBVIOUS
<1>2. DOMAIN Append(seq, e) = 1..(Len(seq) + 1)
  BY <1>1
<1> QED BY <1>1, <1>2

\* What a buffer is once its first message has been taken.
LEMMA TailIs ==
  ASSUME NEW S, NEW seq \in Seq(S), seq # <<>>
  PROVE /\ Head(seq) \in S /\ Head(seq) = seq[1]
        /\ Tail(seq) \in Seq(S) /\ Len(Tail(seq)) = Len(seq) - 1
        /\ Len(seq) - 1 \in Nat /\ DOMAIN Tail(seq) = 1..(Len(seq) - 1)
        /\ \A i \in 1..(Len(seq) - 1) : Tail(seq)[i] = seq[i + 1]
<1>1. /\ Head(seq) \in S /\ Tail(seq) \in Seq(S) /\ Len(Tail(seq)) = Len(seq) - 1
      /\ \A i \in 1..Len(Tail(seq)) : Tail(seq)[i] = seq[i + 1]
  OBVIOUS
<1>2. Len(Tail(seq)) \in Nat /\ DOMAIN Tail(seq) = 1..Len(Tail(seq))
  BY <1>1
<1>3. Head(seq) = seq[1]
  OBVIOUS
<1> QED BY Zenon, <1>1, <1>2, <1>3

\* A queue r that holds some of the quanta of s, each one once.
Kept(r, s) ==
  /\ \A j \in DOMAIN r : \E k \in DOMAIN s : r[j] = s[k]
  /\ Once(s) => Once(r)

\* What fetch_quantum leaves: none of it belongs to the coroutine it returns.
LEMMA RestKept ==
  ASSUME NEW que \in Seq(QuantumType)
  PROVE /\ Rest(que) \in Seq(QuantumType) /\ Kept(Rest(que), que)
        /\ Fetchable(que) # {} =>
             LET m == Least(Fetchable(que)) IN
             /\ m \in Fetchable(que) /\ m \in DOMAIN que
             /\ Once(que) => \A j \in DOMAIN Rest(que) : Rest(que)[j].task # que[m].task
<1>1. CASE Fetchable(que) = {}
  <2>1. Rest(que) = <<>>
    BY Zenon, <1>1 DEF Rest
  <2> QED BY <1>1, <2>1 DEF Kept, Once
<1>2. CASE Fetchable(que) # {}
  <2> DEFINE m == Least(Fetchable(que))
  <2>1. /\ m \in Fetchable(que) /\ m \in 1..Len(que)
        /\ Rest(que) \in Seq(QuantumType) /\ DOMAIN Rest(que) = 1..(Len(que) - m)
        /\ \A j \in 1..(Len(que) - m) : j + m \in DOMAIN que /\ Rest(que)[j] = que[j + m]
    BY Zenon, <1>2, RestIs
  <2> HIDE DEF m
  <2>2. \A j \in DOMAIN Rest(que) : \E k \in DOMAIN que : Rest(que)[j] = que[k]
    BY Zenon, <2>1
  <2>3. ASSUME Once(que)
        PROVE  /\ Once(Rest(que))
               /\ \A j \in DOMAIN Rest(que) : Rest(que)[j].task # que[m].task
    <3>1. \A i, j \in 1..(Len(que) - m) : i + m = j + m => i = j
      BY <2>1
    <3>2. \A j \in 1..(Len(que) - m) : j + m # m
      BY <2>1
    <3>3. m \in DOMAIN que
      BY <2>1
    <3>4. Once(Rest(que))
      <4>1. ASSUME NEW i \in DOMAIN Rest(que), NEW j \in DOMAIN Rest(que),
                   Rest(que)[i].task = Rest(que)[j].task
            PROVE  i = j
        <5>1. /\ i \in 1..(Len(que) - m) /\ j \in 1..(Len(que) - m)
              /\ i + m \in DOMAIN que /\ j + m \in DOMAIN que
              /\ que[i + m].task = que[j + m].task
          BY Zenon, <2>1, <4>1
        <5>2. i + m = j + m
          BY Zenon, <2>3, <5>1 DEF Once
        <5> QED BY Zenon, <3>1, <5>1, <5>2
      <4> QED BY Zenon, <4>1 DEF Once
    <3> QED BY <2>1, <2>3, <3>2, <3>3, <3>4 DEF Once
  <2> QED BY <2>1, <2>2, <2>3 DEF Kept, m
<1> QED BY Zenon, <1>1, <1>2

\* What queue_extract leaves: nothing that belongs to t.
LEMMA OthersKept ==
  ASSUME NEW que \in Seq(QuantumType), NEW t
  PROVE /\ Others(que, t) \in Seq(QuantumType) /\ Kept(Others(que, t), que)
        /\ Once(que) => \A j \in DOMAIN Others(que, t) : Others(que, t)[j].task # t
<1> DEFINE mine == {i \in DOMAIN que : que[i].task = t}
           m == Least(mine)
<1>1. CASE mine = {}
  <2>1. Others(que, t) = que
    BY Zenon, <1>1 DEF Others
  <2> QED BY Zenon, <1>1, <2>1 DEF Kept
<1>2. CASE mine # {}
  <2>1. m \in mine
    BY <1>2, LeastIs
  <2>2. Others(que, t) = Without(que, m)
    BY Zenon, <1>2 DEF Others
  <2>3. m \in 1..Len(que) /\ que[m].task = t
    BY <2>1
  <2> HIDE DEF m, mine
  <2>4. /\ Others(que, t) \in Seq(QuantumType) /\ DOMAIN Others(que, t) = 1..(Len(que) - 1)
        /\ \A j \in 1..(Len(que) - 1) :
             Others(que, t)[j] = que[IF j < m THEN j ELSE j + 1]
    BY Zenon, <2>2, <2>3, WithoutIs
  <2> DEFINE f(j) == IF j < m THEN j ELSE j + 1
  <2>5. \A i, j \in 1..(Len(que) - 1) : /\ f(j) \in DOMAIN que /\ f(j) # m
                                        /\ f(i) = f(j) => i = j
    BY <2>3
  <2>6. \A j \in 1..(Len(que) - 1) : Others(que, t)[j] = que[f(j)]
    BY Zenon, <2>4
  <2> HIDE DEF f
  <2>7. \A j \in DOMAIN Others(que, t) : \E k \in DOMAIN que : Others(que, t)[j] = que[k]
    BY Zenon, <2>4, <2>5, <2>6
  <2>8. ASSUME Once(que)
        PROVE  /\ Once(Others(que, t))
               /\ \A j \in DOMAIN Others(que, t) : Others(que, t)[j].task # t
    <3>1. m \in DOMAIN que
      BY <2>3
    <3>2. Once(Others(que, t))
      <4> SUFFICES ASSUME NEW i \in 1..(Len(que) - 1), NEW j \in 1..(Len(que) - 1),
                          que[f(i)].task = que[f(j)].task
                   PROVE  i = j
        BY Zenon, <2>4, <2>6 DEF Once
      <4> QED BY Zenon, <2>5, <2>8 DEF Once
    <3>3. \A j \in 1..(Len(que) - 1) : que[f(j)].task # que[m].task
      BY Zenon, <2>5, <2>8, <3>1 DEF Once
    <3> QED BY Zenon, <2>3, <2>4, <2>6, <3>2, <3>3
  <2> QED BY Zenon, <2>4, <2>7, <2>8 DEF Kept
<1> QED BY Zenon, <1>1, <1>2


\* What a coroutine in a call may rely on.
LEMMA CallIs ==
  ASSUME SInv, NEW t \in Tasks, pc[t] # "idle"
  PROVE /\ pc[t] \in {"send", "recv", "close", "sendWait", "recvWait"} => op[t].chan \in Chans
        /\ pc[t] \in {"selLock", "selTry", "selBlock", "selWait", "selDone", "selLeave"} =>
             /\ op[t].cases \in Seq([chan : Chans, type : {"send", "recv"}])
             /\ \A i, j \in DOMAIN op[t].cases :
                  op[t].cases[i].chan = op[t].cases[j].chan => i = j
             /\ Set(t) \subseteq Chans
             /\ \A type : Cases(t, type) \subseteq Set(t)
             /\ Cases(t, "send") \cap Cases(t, "recv") = {}
<1> TypeOK /\ Calling /\ Chained /\ Waiting /\ Queued
  BY Zenon DEF SInv
<1>1. CASE pc[t] \in {"send", "recv", "close", "sendWait", "recvWait"}
  BY Zenon, <1>1, ChannelAssumption DEF Calling
<1>2. CASE pc[t] \in {"selLock", "selTry", "selBlock", "selWait", "selDone", "selLeave"}
  <2>1. /\ op[t].cases \in Seq([chan : Chans, type : {"send", "recv"}])
        /\ \A i, j \in DOMAIN op[t].cases :
             op[t].cases[i].chan = op[t].cases[j].chan => i = j
    BY Zenon, <1>2, ChannelAssumption DEF Calling
  <2>2. Set(t) \subseteq Chans
    <3> DEFINE S == [chan : Chans, type : {"send", "recv"}]
               cs == op[t].cases
    <3>1. cs \in Seq(S)
      BY Zenon, <2>1
    <3> HIDE DEF S, cs
    <3>2. \A i \in DOMAIN cs : cs[i] \in S
      BY <3>1
    <3> QED BY Zenon, <3>2 DEF Set, S, cs
  <2>4. \A type : Cases(t, type) \subseteq Set(t)
    BY Zenon DEF Set, Cases
  <2>3. Cases(t, "send") \cap Cases(t, "recv") = {}
    BY Zenon, <2>1 DEF Cases
  <2> QED BY Zenon, <1>2, <2>1, <2>2, <2>3, <2>4
<1> QED BY Zenon, <1>1, <1>2 DEF TypeOK

\* A quantum belongs to the same call while that call has not moved on.
LEMMA BelongsKept ==
  ASSUME NEW q, NEW c, NEW type, Belongs(q, c, type),
         pc'[q.task] = pc[q.task], op'[q.task] = op[q.task],
         q.select \/ status'[q.task] = status[q.task]
  PROVE Belongs(q, c, type)'
BY Zenon DEF Belongs, Cases

\* The quanta in the queues are quanta of coroutines.
LEMMA QuantaTyped ==
  ASSUME SInv, NEW c \in Chans
  PROVE /\ \A q \in Quanta(send_que, c) : q \in QuantumType /\ q.task \in Tasks
        /\ \A q \in Quanta(recv_que, c) : q \in QuantumType /\ q.task \in Tasks
<1> TypeOK /\ Calling /\ Chained /\ Waiting /\ Queued
  BY Zenon DEF SInv
<1>1. send_que[c] \in Seq(QuantumType) /\ recv_que[c] \in Seq(QuantumType)
  BY Zenon DEF TypeOK
<1>2. /\ \A i \in DOMAIN send_que[c] : send_que[c][i] \in QuantumType
      /\ \A i \in DOMAIN recv_que[c] : recv_que[c][i] \in QuantumType
  BY <1>1
<1> QED BY Zenon, <1>2 DEF Quanta, QuantumType

\* A coroutine that does not wait has no quantum in a queue.
LEMMA NoQuantum ==
  ASSUME SInv, NEW t \in Tasks,
         \/ pc[t] \notin {"sendWait", "recvWait", "selWait", "selDone"}
         \/ pc[t] \in {"sendWait", "recvWait"} /\ status[t] # "WAIT",
         NEW c \in Chans
  PROVE /\ \A q \in Quanta(send_que, c) : q.task # t
        /\ \A q \in Quanta(recv_que, c) : q.task # t
BY DEF SInv, Queued, Belongs

\* The queues stay in order when quanta are taken out and the calls of those that
\* stay have not moved on.
LEMMA QueuedKept ==
  ASSUME SInv,
         \A c \in Chans : Kept(send_que'[c], send_que[c]) /\ Kept(recv_que'[c], recv_que[c]),
         \A c \in Chans : \A q \in Quanta(send_que', c) :
           Belongs(q, c, "send") => Belongs(q, c, "send")',
         \A c \in Chans : \A q \in Quanta(recv_que', c) :
           Belongs(q, c, "recv") => Belongs(q, c, "recv")'
  PROVE Queued'
<1> TypeOK /\ Calling /\ Chained /\ Waiting /\ Queued
  BY Zenon DEF SInv
<1>1. \A c \in Chans : \A q \in Quanta(send_que', c) : q \in Quanta(send_que, c)
  BY DEF Kept, Quanta
<1>2. \A c \in Chans : \A q \in Quanta(recv_que', c) : q \in Quanta(recv_que, c)
  BY DEF Kept, Quanta
<1>3. \A c \in Chans : Once(send_que'[c]) /\ Once(recv_que'[c])
  BY Zenon DEF Kept, Queued
<1>4. \A c \in Chans : \A q \in Quanta(send_que', c) : Belongs(q, c, "send")'
  BY Zenon, <1>1 DEF Queued
<1>5. \A c \in Chans : \A q \in Quanta(recv_que', c) : Belongs(q, c, "recv")'
  BY Zenon, <1>2 DEF Queued
<1> QED BY Zenon, <1>3, <1>4, <1>5 DEF Queued, Quanta, Once

\* A coroutine that has returned, or goes on with the same call, leaves Calling true.
LEMMA CallEnds ==
  ASSUME Calling, NEW t \in Tasks, pc'[t] = "idle", UNCHANGED <<op, nops, at>>,
         \A x \in Tasks : x # t => pc'[x] = pc[x]
  PROVE  Calling'
BY Zenon DEF Calling

Kind(l) == IF l \in {"send", "sendWait"} THEN "send"
           ELSE IF l \in {"recv", "recvWait"} THEN "recv"
           ELSE IF l = "close" THEN "close" ELSE "select"

\* See CallEnds.
LEMMA CallGoesOn ==
  ASSUME Calling, NEW t \in Tasks, pc[t] # "idle", Kind(pc'[t]) = Kind(pc[t]),
         pc'[t] \notin {"selLock", "selTry", "selBlock"}, UNCHANGED <<op, nops, at>>,
         \A x \in Tasks : x # t => pc'[x] = pc[x]
  PROVE  Calling'
<1>1. \A x \in Tasks : pc'[x] # "idle" =>
        /\ pc[x] # "idle" /\ Kind(pc'[x]) = Kind(pc[x])
        /\ pc'[x] \in {"selLock", "selTry", "selBlock"} => pc'[x] = pc[x]
  BY Zenon
<1>2. \A x \in Tasks : pc[x] # "idle" => /\ nops[x] > 0 /\ op[x] \in Programs[x]
                                         /\ op[x].kind = Kind(pc[x])
  BY Zenon DEF Calling, Kind
<1>3. ASSUME NEW x \in Tasks, pc'[x] # "idle"
      PROVE  /\ nops'[x] > 0 /\ op'[x] \in Programs[x] /\ op'[x].kind = Kind(pc'[x])
             /\ pc'[x] = "selLock" => at'[x] = 0
             /\ pc'[x] = "selTry" => at'[x] < Len(op'[x].cases)
             /\ pc'[x] = "selBlock" => at'[x] = Len(op'[x].cases)
  <2>1. nops'[x] > 0 /\ op'[x] \in Programs[x] /\ op'[x].kind = Kind(pc'[x])
    BY Zenon, <1>1, <1>2, <1>3
  <2>2. /\ pc'[x] = "selLock" => at'[x] = 0
        /\ pc'[x] = "selTry" => at'[x] < Len(op'[x].cases)
        /\ pc'[x] = "selBlock" => at'[x] = Len(op'[x].cases)
    BY Zenon, <1>1, <1>3 DEF Calling
  <2> QED BY Zenon, <2>1, <2>2
<1> QED BY Zenon, <1>3 DEF Calling, Kind

\* Chained, for one coroutine.
ChainedAt(t) ==
  /\ \A c \in got[t] \cup rel[t] : lock[c] = t
  /\ pc[t] \in {"selLock", "selTry", "selBlock", "selWait", "selDone", "selLeave"} =>
       got[t] \cup rel[t] \subseteq Set(t)
  /\ pc[t] \in {"idle", "send", "recv", "close", "sendWait", "recvWait"} => got[t] = {}
  /\ pc[t] \in {"selTry", "selBlock", "selDone"} => got[t] = Set(t)
  /\ rel[t] # {} => /\ pc[t] = "selWait" /\ got[t] = {}
                    /\ \A c \in rel[t], d \in Set(t) : d <= c => d \in rel[t]

\* See ChainedAt.
LEMMA ChainedIs ==
  /\ Chained <=> \A t \in Tasks : ChainedAt(t)
  /\ Chained' <=> \A t \in Tasks : ChainedAt(t)'
<1>1. Chained <=> \A t \in Tasks : ChainedAt(t)
  BY Zenon DEF Chained, ChainedAt
<1>2. Chained' <=> \A t \in Tasks : ChainedAt(t)'
  BY Zenon DEF Chained, ChainedAt
<1> QED BY Zenon, <1>1, <1>2

\* Nothing changes for a coroutine whose call and whose locks stay as they are.
LEMMA ChainedFrame ==
  ASSUME NEW x \in Tasks, ChainedAt(x), pc'[x] = pc[x], op'[x] = op[x], got'[x] = got[x],
         rel'[x] = rel[x], \A c \in got[x] \cup rel[x] : lock'[c] = lock[c]
  PROVE  ChainedAt(x)'
<1>1. Set(x)' = Set(x)
  BY Zenon DEF Set
<1> QED BY Zenon, <1>1 DEF ChainedAt

\* An operation on one channel takes no lock of a select.
LEMMA PlainChained ==
  ASSUME Chained, NEW t \in Tasks, UNCHANGED <<op, lock, got, rel>>,
         pc[t] \in {"idle", "send", "recv", "close", "sendWait", "recvWait"},
         pc'[t] \in {"idle", "send", "recv", "close", "sendWait", "recvWait"},
         \A x \in Tasks : x # t => pc'[x] = pc[x]
  PROVE  Chained'
<1>1. \A x \in Tasks : ChainedAt(x)
  BY Zenon, ChainedIs
<1>2. ASSUME NEW x \in Tasks, x # t
      PROVE  ChainedAt(x)'
  BY Zenon, <1>1, <1>2, ChainedFrame
<1>3. got[t] = {} /\ rel[t] = {}
  BY Zenon, <1>1 DEF ChainedAt
<1>4. ChainedAt(t)'
  BY Zenon, <1>3 DEF ChainedAt
<1> QED BY Zenon, <1>2, <1>4, ChainedIs

\* A quantum that is queued after the others.
LEMMA AppendIs ==
  ASSUME NEW que \in Seq(QuantumType), NEW q \in QuantumType, Once(que),
         \A i \in DOMAIN que : que[i].task # q.task
  PROVE /\ Append(que, q) \in Seq(QuantumType) /\ Once(Append(que, q))
        /\ \A j \in DOMAIN Append(que, q) :
             Append(que, q)[j] = q \/ \E k \in DOMAIN que : Append(que, q)[j] = que[k]
<1> DEFINE new == Append(que, q)
<1>1. /\ new \in Seq(QuantumType) /\ DOMAIN new = 1..(Len(que) + 1)
      /\ \A i \in 1..Len(que) : new[i] = que[i]
      /\ new[Len(que) + 1] = q
  BY SeqAppendIs
<1>2. DOMAIN que = 1..Len(que) /\ Len(que) \in Nat
  OBVIOUS
<1> HIDE DEF new
<1>3. \A i \in DOMAIN new : i \in DOMAIN que \/ i = Len(que) + 1
  BY <1>1, <1>2
<1>4. Once(new)
  BY Zenon, <1>1, <1>2, <1>3 DEF Once
<1>5. \A j \in DOMAIN new : new[j] = q \/ \E k \in DOMAIN que : new[j] = que[k]
  BY Zenon, <1>1, <1>2, <1>3
<1> QED BY Zenon, <1>1, <1>4, <1>5 DEF new

\* Both queues of a channel.
Que(type) == IF type = "send" THEN send_que ELSE recv_que

\* Coroutine u is taken from a queue of c and made ready.
Served(u, c, type) ==
  /\ u \in Tasks /\ status[u] = "WAIT" /\ status' = [status EXCEPT ![u] = "RUNNING"]
  /\ \/ /\ pc[u] = IF type = "send" THEN "sendWait" ELSE "recvWait"
        /\ op[u].chan = c /\ qtag' = qtag
     \/ /\ pc[u] = "selWait" /\ c \in Cases(u, type)
        /\ qtag' = [qtag EXCEPT ![u] = c]

\* fetch_quantum returns the quantum of a coroutine that waits.
LEMMA FetchServes ==
  ASSUME SInv, NEW c \in Chans, NEW type \in {"send", "recv"},
         Fetchable(Que(type)[c]) # {},
         NEW q, q = Que(type)[c][Least(Fetchable(Que(type)[c]))],
         qtag' = Tagged({q}), status' = Readied({q})
  PROVE Served(q.task, c, type)
<1> TypeOK /\ Calling /\ Chained /\ Waiting /\ Queued
  BY Zenon DEF SInv
<1> DEFINE que == Que(type)[c]
<1>1. que \in Seq(QuantumType)
  BY Zenon DEF Que, TypeOK
<1>2. /\ Least(Fetchable(que)) \in Fetchable(que) /\ Least(Fetchable(que)) \in DOMAIN que
  BY Zenon, <1>1, RestKept
<1>3. q \in QuantumType
  BY <1>1, <1>2
<1>4. Belongs(q, c, type) /\ (q.select => qtag[q.task] = NULL)
  BY Zenon, <1>2 DEF Que, Queued, Quanta, Fetchable
<1>5. q.task \in Tasks /\ q.select \in BOOLEAN /\ q.chan = c
  BY Zenon, <1>3, <1>4 DEF QuantumType, Belongs
<1>6. status[q.task] = "WAIT"
  BY Zenon, <1>4, <1>5 DEF Belongs, Waiting
<1>7. status' = [status EXCEPT ![q.task] = "RUNNING"]
  BY Zenon DEF Readied, TypeOK
<1>8. CASE q.select
  <2>1. qtag' = [qtag EXCEPT ![q.task] = c]
    BY Zenon, <1>5, <1>8 DEF Tagged, TypeOK
  <2> QED BY Zenon, <1>4, <1>5, <1>6, <1>7, <1>8, <2>1 DEF Belongs, Served, Waiting
<1>9. CASE ~q.select
  <2>1. qtag' = qtag
    BY Zenon, <1>9 DEF Tagged, TypeOK
  <2> QED BY Zenon, <1>4, <1>5, <1>6, <1>7, <1>9, <2>1 DEF Belongs, Served
<1> QED BY Zenon, <1>5, <1>8, <1>9


\* At most one coroutine is made ready, and then it has left the queues of c.
Wakes ==
  \/ status' = status /\ qtag' = qtag
  \/ \E u \in Tasks, c \in Chans, type \in {"send", "recv"} :
       Served(u, c, type) /\ \A q \in Quanta(Que(type)', c) : q.task # u

\* A call that does not wait goes on or returns, with an attempt on one channel.
LEMMA AttemptKeeps ==
  ASSUME SInv, NEW t \in Tasks, pc[t] \in {"send", "recv", "selTry"},
         NEW l \in {"idle", "selTry", "selBlock", "selLeave"}, pc' = [pc EXCEPT ![t] = l],
         l = "idle" <=> pc[t] # "selTry",
         \A c \in Chans : Kept(send_que'[c], send_que[c]) /\ Kept(recv_que'[c], recv_que[c]),
         Wakes, UNCHANGED <<lock, op, got, rel>>
  PROVE Chained' /\ Waiting' /\ Queued'
<1> TypeOK /\ Calling /\ Chained /\ Waiting /\ Queued
  BY Zenon DEF SInv
<1>1. Chained'
  BY DEF Chained, Set, TypeOK
<1>2. status[t] # "WAIT"
  BY Zenon DEF Waiting
<1>3. Waiting'
  <2>1. CASE status' = status /\ qtag' = qtag
    BY Zenon, <1>2, <2>1 DEF Waiting, TypeOK
  <2>2. ASSUME NEW u \in Tasks, NEW c \in Chans, NEW type \in {"send", "recv"},
               Served(u, c, type)
        PROVE  Waiting'
    BY <1>2, <2>2, ChannelAssumption DEF Waiting, Served, TypeOK
  <2> QED BY Zenon, <2>1, <2>2 DEF Wakes
<1>4. \A c \in Chans : /\ \A q \in Quanta(send_que', c) : q.task # t
                       /\ \A q \in Quanta(recv_que', c) : q.task # t
  BY NoQuantum DEF Kept, Quanta
<1>5. \A c \in Chans : /\ \A q \in Quanta(send_que', c) : q.task \in Tasks
                       /\ \A q \in Quanta(recv_que', c) : q.task \in Tasks
  BY QuantaTyped DEF Kept, Quanta
<1>6. ASSUME status' = status, qtag' = qtag
      PROVE  Queued'
  <2>1. ASSUME NEW d \in Chans, NEW type \in {"send", "recv"},
               NEW q \in Quanta(Que(type)', d), Belongs(q, d, type)
        PROVE  Belongs(q, d, type)'
    <3>1. q.task # t /\ q.task \in Tasks
      BY Zenon, <1>4, <1>5 DEF Que
    <3> QED BY Zenon, <1>6, <2>1, <3>1, BelongsKept DEF TypeOK
  <2>2. \A d \in Chans : \A q \in Quanta(send_que', d) :
          Belongs(q, d, "send") => Belongs(q, d, "send")'
    BY Zenon, <2>1 DEF Que
  <2>3. \A d \in Chans : \A q \in Quanta(recv_que', d) :
          Belongs(q, d, "recv") => Belongs(q, d, "recv")'
    BY Zenon, <2>1 DEF Que
  <2> QED BY Zenon, <2>2, <2>3, QueuedKept
<1>7. ASSUME NEW u \in Tasks, NEW c \in Chans, NEW type \in {"send", "recv"},
             Served(u, c, type), \A q \in Quanta(Que(type)', c) : q.task # u
      PROVE  Queued'
  <2>1. \A x \in Tasks : x # u => status'[x] = status[x]
    BY Zenon, <1>7 DEF Served, TypeOK
  <2>2. ASSUME NEW d \in Chans, NEW other \in {"send", "recv"},
               NEW q \in Quanta(Que(other)', d), Belongs(q, d, other)
        PROVE  Belongs(q, d, other)'
    <3>1. q.task # t /\ q.task \in Tasks
      BY Zenon, <1>4, <1>5 DEF Que
    <3>2. q.select \/ q.task # u
      BY Zenon, <1>7, <2>2 DEF Belongs, Served
    <3> QED BY Zenon, <2>1, <2>2, <3>1, <3>2, BelongsKept DEF TypeOK
  <2> QED BY Zenon, <2>2, QueuedKept DEF Que
<1> QED BY Zenon, <1>1, <1>3, <1>6, <1>7 DEF Wakes


\* Coroutine t passes v to or from u, who has waited in a queue of c.
Handover(t, u, c, type, v) ==
  /\ Served(u, c, type) /\ \A q \in Quanta(Que(type)', c) : q.task # u
  /\ with' = [with EXCEPT ![t] = @ \cup {c}, ![u] = @ \cup {c}]
  /\ delivered' = [delivered EXCEPT ![v] = @ + 1]
  /\ buf' = buf

\* A queue after fetch_quantum.
LEMMA FetchIs ==
  ASSUME SInv, NEW c \in Chans, NEW type \in {"send", "recv"},
         NEW que, que = Que(type), NEW new, new = [que EXCEPT ![c] = Rest(@)]
  PROVE /\ new \in [Chans -> Seq(QuantumType)]
        /\ \A d \in Chans : Kept(new[d], que[d])
<1> TypeOK /\ Calling /\ Chained /\ Waiting /\ Queued
  BY Zenon DEF SInv
<1>1. que \in [Chans -> Seq(QuantumType)]
  BY Zenon DEF TypeOK, Que
<1>2. Rest(que[c]) \in Seq(QuantumType) /\ Kept(Rest(que[c]), que[c])
  BY Zenon, <1>1, RestKept
<1> QED BY <1>1, <1>2 DEF Kept

\* The one whom it returns.
LEMMA FetchWakes ==
  ASSUME SInv, NEW c \in Chans, NEW type \in {"send", "recv"},
         NEW que, que = Que(type), NEW new, new = [que EXCEPT ![c] = Rest(@)],
         Fetchable(que[c]) # {}, NEW q, q = que[c][Least(Fetchable(que[c]))],
         qtag' = Tagged({q}), status' = Readied({q})
  PROVE Served(q.task, c, type) /\ \A x \in Quanta(new, c) : x.task # q.task
<1> TypeOK /\ Calling /\ Chained /\ Waiting /\ Queued
  BY Zenon DEF SInv
<1>1. que \in [Chans -> Seq(QuantumType)] /\ \A d \in Chans : Once(que[d])
  BY Zenon DEF TypeOK, Queued, Que
<1>2. \A j \in DOMAIN Rest(que[c]) : Rest(que[c])[j].task # q.task
  BY Zenon, <1>1, RestKept
<1>3. \A x \in Quanta(new, c) : x.task # q.task
  BY Zenon, <1>1, <1>2 DEF Quanta
<1>4. Served(q.task, c, type)
  BY Zenon, FetchServes
<1> QED BY Zenon, <1>3, <1>4

\* __coroc_chan_send, when it succeeds: to a receiver that waits, or to the buffer.
LEMMA SendIs ==
  ASSUME SInv, NEW t \in Tasks, NEW c \in Chans, SendSuccess(t, c)
  PROVE /\ recv_que' \in [Chans -> Seq(QuantumType)] /\ send_que' = send_que
        /\ \A d \in Chans : Kept(recv_que'[d], recv_que[d])
        /\ \/ \E u \in Tasks : Handover(t, u, c, "recv", Message(t))
           \/ /\ Fetchable(recv_que[c]) = {} /\ Len(buf[c]) < Capacity[c]
              /\ buf' = [buf EXCEPT ![c] = Append(@, Message(t))]
              /\ with' = [with EXCEPT ![t] = @ \cup {c}]
              /\ UNCHANGED <<qtag, status, delivered>>
        /\ UNCHANGED <<close, refused, dropped>>
<1> TypeOK /\ Calling /\ Chained /\ Waiting /\ Queued
  BY Zenon DEF SInv
<1>1. /\ recv_que' \in [Chans -> Seq(QuantumType)] /\ send_que' = send_que
      /\ \A d \in Chans : Kept(recv_que'[d], recv_que[d])
  <2>1. recv_que' = [recv_que EXCEPT ![c] = Rest(@)] /\ send_que' = send_que
    BY Zenon DEF SendSuccess
  <2> QED BY Zenon, <2>1, FetchIs DEF Que
<1>2. CASE Fetchable(recv_que[c]) # {}
  <2> DEFINE q == recv_que[c][Least(Fetchable(recv_que[c]))]
  <2>1. /\ qtag' = Tagged({q}) /\ status' = Readied({q}) /\ buf' = buf
        /\ with' = [with EXCEPT ![t] = @ \cup {c}, ![q.task] = @ \cup {c}]
        /\ delivered' = [delivered EXCEPT ![Message(t)] = @ + 1]
        /\ recv_que' = [recv_que EXCEPT ![c] = Rest(@)]
    BY Zenon, <1>2 DEF SendSuccess, Matched
  <2> HIDE DEF q
  <2>2. Served(q.task, c, "recv") /\ \A x \in Quanta(recv_que', c) : x.task # q.task
    BY Zenon, <1>2, <2>1, FetchWakes DEF Que, q
  <2>3. q.task \in Tasks
    BY Zenon, <2>2 DEF Served
  <2>4. Handover(t, q.task, c, "recv", Message(t))
    BY Zenon, <2>1, <2>2 DEF Handover, Que
  <2> QED BY Zenon, <1>1, <2>3, <2>4 DEF SendSuccess
<1>3. CASE Fetchable(recv_que[c]) = {}
  <2>1. Len(buf[c]) < Capacity[c]
    BY Zenon, <1>3 DEF SendSuccess, SendCode
  <2> QED BY Zenon, <1>1, <1>3, <2>1 DEF SendSuccess
<1> QED BY Zenon, <1>2, <1>3

\* __coroc_chan_recv, when it succeeds: from the buffer, or from a sender that waits.
LEMMA RecvIs ==
  ASSUME SInv, NEW t \in Tasks, NEW c \in Chans, RecvSuccess(t, c)
  PROVE /\ send_que' \in [Chans -> Seq(QuantumType)] /\ recv_que' = recv_que
        /\ \A d \in Chans : Kept(send_que'[d], send_que[d])
        /\ \/ buf[c] = <<>> /\ \E u \in Tasks : Handover(t, u, c, "send", Message(u))
           \/ /\ buf[c] # <<>> /\ send_que' = send_que
              /\ buf' = [buf EXCEPT ![c] = Tail(@)]
              /\ delivered' = [delivered EXCEPT ![Head(buf[c])] = @ + 1]
              /\ with' = [with EXCEPT ![t] = @ \cup {c}]
              /\ UNCHANGED <<qtag, status>>
        /\ UNCHANGED <<close, accepted, refused, dropped>>
<1> TypeOK /\ Calling /\ Chained /\ Waiting /\ Queued
  BY Zenon DEF SInv
<1>1. CASE buf[c] # <<>>
  <2>1. send_que' = send_que /\ \A d \in Chans : Kept(send_que[d], send_que[d])
    BY Zenon, <1>1 DEF RecvSuccess, Kept
  <2> QED BY Zenon, <1>1, <2>1 DEF RecvSuccess, TypeOK
<1>2. CASE buf[c] = <<>>
  <2> DEFINE q == send_que[c][Least(Fetchable(send_que[c]))]
  <2>1. /\ qtag' = Tagged({q}) /\ status' = Readied({q}) /\ buf' = buf
        /\ with' = [with EXCEPT ![t] = @ \cup {c}, ![q.task] = @ \cup {c}]
        /\ delivered' = [delivered EXCEPT ![Message(q.task)] = @ + 1]
        /\ send_que' = [send_que EXCEPT ![c] = Rest(@)]
        /\ Fetchable(send_que[c]) # {}
    BY Zenon, <1>2 DEF RecvSuccess, Matched, RecvCode
  <2> HIDE DEF q
  <2>2. Served(q.task, c, "send") /\ \A x \in Quanta(send_que', c) : x.task # q.task
    BY Zenon, <2>1, FetchWakes DEF Que, q
  <2>3. q.task \in Tasks
    BY Zenon, <2>2 DEF Served
  <2>4. Handover(t, q.task, c, "send", Message(q.task))
    BY Zenon, <2>1, <2>2 DEF Handover, Que
  <2>5. /\ send_que' \in [Chans -> Seq(QuantumType)]
        /\ \A d \in Chans : Kept(send_que'[d], send_que[d])
    BY Zenon, <2>1, FetchIs DEF Que
  <2> QED BY Zenon, <1>2, <2>3, <2>4, <2>5 DEF RecvSuccess
<1> QED BY Zenon, <1>1, <1>2


\* The message of a call is a message.
LEMMA MessageTyped ==
  ASSUME SInv, NEW t \in Tasks, pc[t] # "idle"
  PROVE Message(t) \in Messages
<1> TypeOK /\ Calling /\ Chained /\ Waiting /\ Queued
  BY Zenon DEF SInv
<1>1. nops[t] \in 1..MaxOps
  BY ChannelAssumption DEF TypeOK, Calling
<1> QED BY Zenon, <1>1 DEF Message, Messages

\* The types of what a handover changes.
LEMMA HandoverTyped ==
  ASSUME SInv, NEW t \in Tasks, NEW u \in Tasks, NEW c \in Chans,
         NEW type \in {"send", "recv"}, NEW v \in Messages, Handover(t, u, c, type, v)
  PROVE /\ status' \in [Tasks -> {"RUNNING", "WAIT"}] /\ qtag' \in [Tasks -> Chans \cup {NULL}]
        /\ with' \in [Tasks -> SUBSET Chans] /\ delivered' \in [Messages -> Nat]
        /\ buf' = buf /\ Wakes
<1> TypeOK /\ Calling /\ Chained /\ Waiting /\ Queued
  BY Zenon DEF SInv
<1>1. status' \in [Tasks -> {"RUNNING", "WAIT"}] /\ qtag' \in [Tasks -> Chans \cup {NULL}]
  <2>1. status' \in [Tasks -> {"RUNNING", "WAIT"}]
    BY Zenon DEF TypeOK, Handover, Served
  <2>2. qtag' = qtag \/ qtag' = [qtag EXCEPT ![u] = c]
    BY Zenon DEF Handover, Served
  <2>3. qtag \in [Tasks -> Chans \cup {NULL}]
    BY Zenon DEF TypeOK
  <2> QED BY Zenon, <2>1, <2>2, <2>3
<1>2. with' \in [Tasks -> SUBSET Chans]
  <2>1. with \in [Tasks -> SUBSET Chans]
    BY Zenon DEF TypeOK
  <2>2. with' = [with EXCEPT ![t] = @ \cup {c}, ![u] = @ \cup {c}]
    BY Zenon DEF Handover
  <2> QED BY Zenon, <2>1, <2>2
<1>3. delivered' \in [Messages -> Nat]
  BY DEF TypeOK, Handover
<1> QED BY Zenon, <1>1, <1>2, <1>3 DEF Handover, Wakes

\* What a successful attempt to send leaves typed.
LEMMA SendTyped ==
  ASSUME SInv, NEW t \in Tasks, pc[t] # "idle", NEW c \in Chans, SendSuccess(t, c)
  PROVE /\ status' \in [Tasks -> {"RUNNING", "WAIT"}] /\ qtag' \in [Tasks -> Chans \cup {NULL}]
        /\ with' \in [Tasks -> SUBSET Chans] /\ delivered' \in [Messages -> Nat]
        /\ buf' \in [Chans -> Seq(Messages)] /\ \A d \in Chans : Len(buf'[d]) <= Capacity[d]
        /\ Wakes
<1> TypeOK /\ Calling /\ Chained /\ Waiting /\ Queued
  BY Zenon DEF SInv
<1>1. Message(t) \in Messages
  BY Zenon, MessageTyped
<1>2. CASE \E u \in Tasks : Handover(t, u, c, "recv", Message(t))
  BY Zenon, <1>1, <1>2, HandoverTyped DEF TypeOK
<1>3. CASE /\ Len(buf[c]) < Capacity[c]
           /\ buf' = [buf EXCEPT ![c] = Append(@, Message(t))]
           /\ with' = [with EXCEPT ![t] = @ \cup {c}]
           /\ UNCHANGED <<qtag, status, delivered>>
  <2>1. buf[c] \in Seq(Messages) /\ Capacity[c] \in Nat
    BY Zenon, ChannelAssumption DEF TypeOK
  <2>2. /\ Append(buf[c], Message(t)) \in Seq(Messages)
        /\ Len(Append(buf[c], Message(t))) <= Capacity[c]
    BY <1>1, <1>3, <2>1, SeqAppendIs
  <2>3. buf' \in [Chans -> Seq(Messages)] /\ \A d \in Chans : Len(buf'[d]) <= Capacity[d]
    BY Zenon, <1>3, <2>2 DEF TypeOK
  <2>4. with' \in [Tasks -> SUBSET Chans]
    BY Zenon, <1>3 DEF TypeOK
  <2> QED BY Zenon, <1>3, <2>3, <2>4 DEF TypeOK, Wakes
<1> QED BY Zenon, <1>2, <1>3, SendIs

\* What a successful attempt to receive leaves typed.
LEMMA RecvTyped ==
  ASSUME SInv, NEW t \in Tasks, NEW c \in Chans, RecvSuccess(t, c)
  PROVE /\ status' \in [Tasks -> {"RUNNING", "WAIT"}] /\ qtag' \in [Tasks -> Chans \cup {NULL}]
        /\ with' \in [Tasks -> SUBSET Chans] /\ delivered' \in [Messages -> Nat]
        /\ buf' \in [Chans -> Seq(Messages)] /\ \A d \in Chans : Len(buf'[d]) <= Capacity[d]
        /\ Wakes
<1> TypeOK /\ Calling /\ Chained /\ Waiting /\ Queued
  BY Zenon DEF SInv
<1>1. ASSUME NEW u \in Tasks, Handover(t, u, c, "send", Message(u))
      PROVE  Message(u) \in Messages
  <2>1. pc[u] # "idle"
    BY Zenon, <1>1 DEF Handover, Served
  <2> QED BY Zenon, <2>1, MessageTyped
<1>2. CASE \E u \in Tasks : Handover(t, u, c, "send", Message(u))
  BY Zenon, <1>1, <1>2, HandoverTyped DEF TypeOK
<1>3. CASE /\ buf[c] # <<>>
           /\ buf' = [buf EXCEPT ![c] = Tail(@)]
           /\ delivered' = [delivered EXCEPT ![Head(buf[c])] = @ + 1]
           /\ with' = [with EXCEPT ![t] = @ \cup {c}]
           /\ UNCHANGED <<qtag, status>>
  <2>1. buf[c] \in Seq(Messages) /\ Capacity[c] \in Nat /\ Len(buf[c]) <= Capacity[c]
    BY Zenon, ChannelAssumption DEF TypeOK
  <2>2. /\ Tail(buf[c]) \in Seq(Messages) /\ Head(buf[c]) \in Messages
        /\ Len(Tail(buf[c])) <= Capacity[c]
    BY <1>3, <2>1, TailIs
  <2>3. buf' \in [Chans -> Seq(Messages)] /\ \A d \in Chans : Len(buf'[d]) <= Capacity[d]
    BY Zenon, <1>3, <2>2 DEF TypeOK
  <2>4. with' \in [Tasks -> SUBSET Chans] /\ delivered' \in [Messages -> Nat]
    BY <1>3, <2>2 DEF TypeOK
  <2> QED BY Zenon, <1>3, <2>3, <2>4 DEF TypeOK, Wakes
<1> QED BY Zenon, <1>2, <1>3, RecvIs

\* _coroc_chan_send that does not wait keeps the invariant.
LEMMA SendSInv ==
  ASSUME SInv, NEW t \in Tasks, Send(t)
  PROVE SInv'
<1> TypeOK /\ Calling /\ Chained /\ Waiting /\ Queued
  BY Zenon DEF SInv
<1> DEFINE c == op[t].chan
<1>1. pc[t] = "send" /\ pc[t] # "idle" /\ c \in Chans
  BY Zenon, CallIs DEF Send
<1>2. /\ pc' = [pc EXCEPT ![t] = "idle"] /\ UNCHANGED <<lock, op, nops, at, closed, got, rel>>
      /\ SendSuccess(t, c) \/ SendFail(c)
      /\ SendSuccess(t, c) => accepted' = accepted \cup {Message(t)}
      /\ ~SendSuccess(t, c) => /\ refused' = refused \cup {Message(t)}
                               /\ UNCHANGED <<close, buf, qtag, status, with, delivered,
                                              accepted, dropped>>
  BY Zenon DEF Send, Returns, Goto, SendFail, SendSuccess
<1>7. PICK code \in {"success", "closed", "busy"} :
        res' = [res EXCEPT ![t] = [code |-> code, chan |-> c]]
  BY Zenon DEF Send, Returns, SendCode
<1> HIDE DEF c
<1>8. res' \in [Tasks -> [code : {"none", "success", "closed", "busy"},
                         chan : Chans \cup {NULL}]]
  BY Zenon, <1>1, <1>7 DEF TypeOK
<1>3. Message(t) \in Messages
  BY Zenon, <1>1, MessageTyped
<1>4. Calling'
  BY Zenon, <1>1, <1>2 DEF TypeOK, Calling
<1>5. CASE SendSuccess(t, c)
  <2>1. TypeOK'
    <3>1. /\ recv_que' \in [Chans -> Seq(QuantumType)] /\ send_que' = send_que
          /\ UNCHANGED <<close, refused, dropped>>
      BY Zenon, <1>1, <1>5, SendIs
    <3>2. /\ status' \in [Tasks -> {"RUNNING", "WAIT"}]
          /\ qtag' \in [Tasks -> Chans \cup {NULL}]
          /\ with' \in [Tasks -> SUBSET Chans] /\ delivered' \in [Messages -> Nat]
          /\ buf' \in [Chans -> Seq(Messages)] /\ \A d \in Chans : Len(buf'[d]) <= Capacity[d]
      BY Zenon, <1>1, <1>5, SendTyped
    <3> QED BY Zenon, <1>1, <1>2, <1>3, <1>5, <1>8, <3>1, <3>2 DEF TypeOK
  <2> QED BY Zenon, <1>1, <1>2, <1>4, <1>5, <2>1, SendIs, SendTyped, AttemptKeeps DEF SInv, Kept
<1>6. CASE ~SendSuccess(t, c)
  <2>1. recv_que' = [recv_que EXCEPT ![c] = <<>>] /\ send_que' = send_que
    BY Zenon, <1>2, <1>6 DEF SendFail
  <2>2. TypeOK'
    <3>1. recv_que' \in [Chans -> Seq(QuantumType)]
      BY <1>1, <2>1 DEF TypeOK
    <3>2. /\ refused' = refused \cup {Message(t)}
          /\ UNCHANGED <<close, buf, qtag, status, with, delivered, accepted, dropped>>
      BY Zenon, <1>2, <1>6
    <3> QED BY Zenon, <1>1, <1>2, <1>3, <1>8, <2>1, <3>1, <3>2 DEF TypeOK
  <2>3. \A d \in Chans : Kept(send_que'[d], send_que[d]) /\ Kept(recv_que'[d], recv_que[d])
    BY <1>1, <2>1 DEF TypeOK, Kept, Once
  <2> QED BY Zenon, <1>1, <1>2, <1>4, <1>6, <2>2, <2>3, AttemptKeeps DEF SInv, Wakes
<1> QED BY Zenon, <1>5, <1>6


\* _coroc_chan_recv that does not wait keeps the invariant.
LEMMA RecvSInv ==
  ASSUME SInv, NEW t \in Tasks, Recv(t)
  PROVE SInv'
<1> TypeOK /\ Calling /\ Chained /\ Waiting /\ Queued
  BY Zenon DEF SInv
<1> DEFINE c == op[t].chan
<1>1. pc[t] = "recv" /\ pc[t] # "idle" /\ c \in Chans
  BY Zenon, CallIs DEF Recv
<1>2. /\ pc' = [pc EXCEPT ![t] = "idle"] /\ UNCHANGED <<lock, op, nops, at, closed, got, rel>>
      /\ ~RecvSuccess(t, c) => RecvFail(c) /\ UNCHANGED <<close, buf, qtag, status, with,
                                                          messages>>
  BY Zenon DEF Recv, Returns, Goto, RecvFail, RecvSuccess
<1>7. PICK code \in {"success", "closed", "busy"} :
        res' = [res EXCEPT ![t] = [code |-> code, chan |-> c]]
  BY Zenon DEF Recv, Returns, RecvCode
<1> HIDE DEF c
<1>8. res' \in [Tasks -> [code : {"none", "success", "closed", "busy"},
                         chan : Chans \cup {NULL}]]
  BY Zenon, <1>1, <1>7 DEF TypeOK
<1>3. Calling'
  BY Zenon, <1>1, <1>2 DEF TypeOK, Calling
<1>4. CASE RecvSuccess(t, c)
  <2>1. TypeOK'
    <3>1. /\ send_que' \in [Chans -> Seq(QuantumType)] /\ recv_que' = recv_que
          /\ UNCHANGED <<close, accepted, refused, dropped>>
      BY Zenon, <1>1, <1>4, RecvIs
    <3>2. /\ status' \in [Tasks -> {"RUNNING", "WAIT"}]
          /\ qtag' \in [Tasks -> Chans \cup {NULL}]
          /\ with' \in [Tasks -> SUBSET Chans] /\ delivered' \in [Messages -> Nat]
          /\ buf' \in [Chans -> Seq(Messages)] /\ \A d \in Chans : Len(buf'[d]) <= Capacity[d]
      BY Zenon, <1>1, <1>4, RecvTyped
    <3> QED BY Zenon, <1>1, <1>2, <1>8, <3>1, <3>2 DEF TypeOK
  <2> QED BY Zenon, <1>1, <1>2, <1>3, <1>4, <2>1, RecvIs, RecvTyped, AttemptKeeps DEF SInv, Kept
<1>5. CASE ~RecvSuccess(t, c)
  <2>1. send_que' = [send_que EXCEPT ![c] = <<>>] /\ recv_que' = recv_que
    BY Zenon, <1>2, <1>5 DEF RecvFail
  <2>2. TypeOK'
    <3>1. send_que' \in [Chans -> Seq(QuantumType)]
      BY <1>1, <2>1 DEF TypeOK
    <3>2. UNCHANGED <<close, buf, qtag, status, with, messages>>
      BY Zenon, <1>2, <1>5
    <3> QED BY Zenon, <1>1, <1>2, <1>8, <2>1, <3>1, <3>2 DEF TypeOK, messages
  <2>3. \A d \in Chans : Kept(send_que'[d], send_que[d]) /\ Kept(recv_que'[d], recv_que[d])
    BY <1>1, <2>1 DEF TypeOK, Kept, Once
  <2> QED BY Zenon, <1>1, <1>2, <1>3, <1>5, <2>2, <2>3, AttemptKeeps DEF SInv, Wakes
<1> QED BY Zenon, <1>4, <1>5

\* The case that a select tries.
LEMMA CaseIs ==
  ASSUME SInv, NEW t \in Tasks, pc[t] = "selTry"
  PROVE /\ at[t] + 1 \in DOMAIN op[t].cases
        /\ op[t].cases[at[t] + 1].chan \in Chans
        /\ op[t].cases[at[t] + 1].type \in {"send", "recv"}
<1> TypeOK /\ Calling /\ Chained /\ Waiting /\ Queued
  BY Zenon DEF SInv
<1> DEFINE S == [chan : Chans, type : {"send", "recv"}]
           cs == op[t].cases
<1>1. cs \in Seq(S)
  BY Zenon, CallIs
<1>2. at[t] \in Nat /\ at[t] < Len(cs)
  BY Zenon DEF TypeOK, Calling
<1> HIDE DEF S, cs
<1>3. at[t] + 1 \in DOMAIN cs /\ cs[at[t] + 1] \in S
  BY <1>1, <1>2
<1> QED BY Zenon, <1>3 DEF S, cs

\* A case of a select that succeeds keeps the invariant.
LEMMA SelSuccessSInv ==
  ASSUME SInv, NEW t \in Tasks, SelSuccess(t)
  PROVE SInv'
<1> TypeOK /\ Calling /\ Chained /\ Waiting /\ Queued
  BY Zenon DEF SInv
<1> DEFINE e == op[t].cases[at[t] + 1]
           c == e.chan
<1>1. pc[t] = "selTry" /\ pc[t] # "idle" /\ c \in Chans /\ e.type \in {"send", "recv"}
  BY Zenon, CaseIs DEF SelSuccess
<1>2. /\ pc' = [pc EXCEPT ![t] = "selLeave"]
      /\ UNCHANGED <<lock, op, nops, at, closed, got, rel>>
      /\ \/ SendSuccess(t, c) /\ accepted' = accepted \cup {Message(t)}
         \/ RecvSuccess(t, c)
      /\ res' = [res EXCEPT ![t] = [code |-> "success", chan |-> c]]
  BY Zenon DEF SelSuccess, Leave, Goto
<1> HIDE DEF c
<1>3. Message(t) \in Messages
  BY Zenon, <1>1, MessageTyped
<1>4. Calling'
  BY <1>1, <1>2 DEF TypeOK, Calling
<1>5. CASE SendSuccess(t, c) /\ accepted' = accepted \cup {Message(t)}
  <2>1. TypeOK'
    <3>1. /\ recv_que' \in [Chans -> Seq(QuantumType)] /\ send_que' = send_que
          /\ UNCHANGED <<close, refused, dropped>>
      BY Zenon, <1>1, <1>5, SendIs
    <3>2. /\ status' \in [Tasks -> {"RUNNING", "WAIT"}]
          /\ qtag' \in [Tasks -> Chans \cup {NULL}]
          /\ with' \in [Tasks -> SUBSET Chans] /\ delivered' \in [Messages -> Nat]
          /\ buf' \in [Chans -> Seq(Messages)] /\ \A d \in Chans : Len(buf'[d]) <= Capacity[d]
      BY Zenon, <1>1, <1>5, SendTyped
    <3> QED BY Zenon, <1>1, <1>2, <1>3, <1>5, <3>1, <3>2 DEF TypeOK
  <2> QED BY Zenon, <1>1, <1>2, <1>4, <1>5, <2>1, SendIs, SendTyped, AttemptKeeps DEF SInv, Kept
<1>6. CASE RecvSuccess(t, c)
  <2>1. TypeOK'
    <3>1. /\ send_que' \in [Chans -> Seq(QuantumType)] /\ recv_que' = recv_que
          /\ UNCHANGED <<close, accepted, refused, dropped>>
      BY Zenon, <1>1, <1>6, RecvIs
    <3>2. /\ status' \in [Tasks -> {"RUNNING", "WAIT"}]
          /\ qtag' \in [Tasks -> Chans \cup {NULL}]
          /\ with' \in [Tasks -> SUBSET Chans] /\ delivered' \in [Messages -> Nat]
          /\ buf' \in [Chans -> Seq(Messages)] /\ \A d \in Chans : Len(buf'[d]) <= Capacity[d]
      BY Zenon, <1>1, <1>6, RecvTyped
    <3> QED BY Zenon, <1>1, <1>2, <3>1, <3>2 DEF TypeOK
  <2> QED BY Zenon, <1>1, <1>2, <1>4, <1>6, <2>1, RecvIs, RecvTyped, AttemptKeeps DEF SInv, Kept
<1> QED BY Zenon, <1>2, <1>5, <1>6


\* An attempt that fails has emptied the queue that it searched.
LEMMA FailIs ==
  ASSUME SInv, NEW c \in Chans, NEW type \in {"send", "recv"}, Fail(type, c)
  PROVE /\ send_que' \in [Chans -> Seq(QuantumType)] /\ recv_que' \in [Chans -> Seq(QuantumType)]
        /\ \A d \in Chans : Kept(send_que'[d], send_que[d]) /\ Kept(recv_que'[d], recv_que[d])
<1> TypeOK /\ Calling /\ Chained /\ Waiting /\ Queued
  BY Zenon DEF SInv
<1>1. \A s : Kept(s, s) /\ Kept(<<>>, s)
  BY DEF Kept, Once
<1>2. CASE type = "send"
  <2>1. recv_que' = [recv_que EXCEPT ![c] = <<>>] /\ send_que' = send_que
    BY Zenon, <1>2 DEF Fail, SendFail
  <2> QED BY <1>1, <2>1 DEF TypeOK
<1>3. CASE type = "recv"
  <2>1. send_que' = [send_que EXCEPT ![c] = <<>>] /\ recv_que' = recv_que
    BY Zenon, <1>3 DEF Fail, RecvFail
  <2> QED BY <1>1, <2>1 DEF TypeOK
<1> QED BY Zenon, <1>2, <1>3

\* A case of a select that fails keeps the invariant.
LEMMA SelFailSInv ==
  ASSUME SInv, NEW t \in Tasks, SelFail(t)
  PROVE SInv'
<1> TypeOK /\ Calling /\ Chained /\ Waiting /\ Queued
  BY Zenon DEF SInv
<1> DEFINE e == op[t].cases[at[t] + 1]
           c == e.chan
<1>1. pc[t] = "selTry" /\ pc[t] # "idle" /\ c \in Chans /\ e.type \in {"send", "recv"}
  BY Zenon, CaseIs DEF SelFail
<1>2. /\ Fail(e.type, c)
      /\ UNCHANGED <<lock, close, buf, status, qtag, op, nops, closed, with, got, rel,
                     delivered, dropped>>
  BY Zenon DEF SelFail
<1>3. \/ /\ Leave(t, Code(e.type, c), NULL) /\ Fate(t, FALSE) /\ UNCHANGED at
      \/ /\ at' = [at EXCEPT ![t] = @ + 1]
         /\ Goto(t, IF at[t] + 1 = Len(op[t].cases) THEN "selBlock" ELSE "selTry")
         /\ UNCHANGED <<res, accepted, refused>>
  BY Zenon DEF SelFail
<1>4. Code(e.type, c) \in {"success", "closed", "busy"}
  BY Zenon DEF Code, SendCode, RecvCode
<1> HIDE DEF c, e
<1>5. \A d \in Chans : Kept(send_que'[d], send_que[d]) /\ Kept(recv_que'[d], recv_que[d])
  BY Zenon, <1>1, <1>2, FailIs
<1>6. /\ send_que' \in [Chans -> Seq(QuantumType)] /\ recv_que' \in [Chans -> Seq(QuantumType)]
  BY Zenon, <1>1, <1>2, FailIs
<1>7. Message(t) \in Messages
  BY Zenon, <1>1, MessageTyped
<1>8. Wakes
  BY Zenon, <1>2 DEF Wakes
<1>9. CASE Leave(t, Code(e.type, c), NULL) /\ Fate(t, FALSE) /\ UNCHANGED at
  <2>1. pc' = [pc EXCEPT ![t] = "selLeave"]
    BY Zenon, <1>9 DEF Leave, Goto
  <2>2. res' \in [Tasks -> [code : {"none", "success", "closed", "busy"},
                            chan : Chans \cup {NULL}]]
    BY Zenon, <1>4, <1>9 DEF Leave, TypeOK
  <2>3. accepted' \subseteq Messages /\ refused' \subseteq Messages
    BY Zenon, <1>7, <1>9 DEF Fate, TypeOK
  <2>4. TypeOK'
    BY Zenon, <1>2, <1>6, <1>9, <2>1, <2>2, <2>3 DEF TypeOK
  <2>5. Calling'
    BY Zenon, <1>1, <1>2, <1>9, <2>1 DEF TypeOK, Calling
  <2> QED BY Zenon, <1>1, <1>2, <1>5, <1>8, <2>1, <2>4, <2>5, AttemptKeeps DEF SInv
<1>10. CASE /\ at' = [at EXCEPT ![t] = @ + 1]
            /\ Goto(t, IF at[t] + 1 = Len(op[t].cases) THEN "selBlock" ELSE "selTry")
            /\ UNCHANGED <<res, accepted, refused>>
  <2> DEFINE l == IF at[t] + 1 = Len(op[t].cases) THEN "selBlock" ELSE "selTry"
  <2>1. pc' = [pc EXCEPT ![t] = l] /\ l \in {"selBlock", "selTry"}
    BY Zenon, <1>10 DEF Goto
  <2>2. /\ l = "selBlock" => at[t] + 1 = Len(op[t].cases)
        /\ l = "selTry" => at[t] + 1 # Len(op[t].cases)
    BY Zenon
  <2> HIDE DEF l
  <2>3. TypeOK'
    BY <1>2, <1>6, <1>10, <2>1 DEF TypeOK
  <2>4. at[t] \in Nat /\ at[t] < Len(op[t].cases) /\ Len(op[t].cases) \in Nat
    <3>1. op[t].cases \in Seq([chan : Chans, type : {"send", "recv"}])
      BY Zenon, <1>1, CallIs
    <3> QED BY <1>1, <3>1 DEF TypeOK, Calling
  <2>5. at'[t] = at[t] + 1 /\ \A x \in Tasks : x # t => at'[x] = at[x] /\ pc'[x] = pc[x]
    BY Zenon, <1>10, <2>1 DEF TypeOK
  <2>6. pc'[t] = l
    BY Zenon, <2>1 DEF TypeOK
  <2>7. Calling'
    <3>1. ASSUME NEW x \in Tasks, x # t, pc'[x] # "idle"
          PROVE  /\ nops[x] > 0 /\ op[x] \in Programs[x]
                 /\ op[x].kind = IF pc'[x] \in {"send", "sendWait"} THEN "send"
                    ELSE IF pc'[x] \in {"recv", "recvWait"} THEN "recv"
                    ELSE IF pc'[x] = "close" THEN "close" ELSE "select"
                 /\ pc'[x] = "selLock" => at'[x] = 0
                 /\ pc'[x] = "selTry" => at'[x] < Len(op[x].cases)
                 /\ pc'[x] = "selBlock" => at'[x] = Len(op[x].cases)
      BY Zenon, <2>5, <3>1 DEF Calling
    <3>2. /\ nops[t] > 0 /\ op[t] \in Programs[t]
          /\ op[t].kind = "select"
          /\ pc'[t] = "selTry" => at'[t] < Len(op[t].cases)
          /\ pc'[t] = "selBlock" => at'[t] = Len(op[t].cases)
      BY <1>1, <2>1, <2>2, <2>4, <2>5, <2>6 DEF Calling
    <3> QED BY Zenon, <1>2, <2>1, <2>6, <3>1, <3>2 DEF Calling
  <2> QED BY Zenon, <1>1, <1>2, <1>5, <1>8, <2>1, <2>3, <2>7, AttemptKeeps DEF SInv
<1> QED BY Zenon, <1>3, <1>9, <1>10


\* A coroutine that calls an operation keeps the invariant.
LEMMA CallSInv ==
  ASSUME SInv, NEW t \in Tasks, Call(t)
  PROVE SInv'
<1> TypeOK /\ Calling /\ Chained /\ Waiting /\ Queued
  BY Zenon DEF SInv
<1>1. /\ pc[t] = "idle" /\ nops[t] < MaxOps
      /\ nops' = [nops EXCEPT ![t] = @ + 1] /\ at' = [at EXCEPT ![t] = 0]
      /\ closed' = [closed EXCEPT ![t] = FALSE] /\ with' = [with EXCEPT ![t] = {}]
      /\ UNCHANGED <<lock, close, buf, send_que, recv_que, status, qtag, res, got, rel,
                     delivered, accepted, refused, dropped>>
  BY Zenon DEF Call, channels, messages
<1>2. PICK o \in Programs[t] :
        /\ op' = [op EXCEPT ![t] = o]
        /\ pc' = [pc EXCEPT ![t] = IF o.kind = "select" THEN "selLock" ELSE o.kind]
  BY Zenon DEF Call, Goto
<1>3. o.kind \in {"send", "recv", "close", "select"}
  BY Zenon, ChannelAssumption
<1>4. got[t] = {} /\ rel[t] = {} /\ status[t] # "WAIT"
  BY Zenon, <1>1 DEF Chained, Waiting
<1>5. nops'[t] > 0 /\ nops' \in [Tasks -> 0..MaxOps]
  BY <1>1, ChannelAssumption DEF TypeOK
<1>6. /\ op'[t] = o /\ at'[t] = 0 /\ pc'[t] = IF o.kind = "select" THEN "selLock" ELSE o.kind
      /\ \A x \in Tasks : x # t => /\ op'[x] = op[x] /\ pc'[x] = pc[x]
                                   /\ nops'[x] = nops[x] /\ at'[x] = at[x]
  BY Zenon, <1>1, <1>2 DEF TypeOK
<1>7. TypeOK'
  <2>1. pc' \in [Tasks -> {"idle", "send", "recv", "close", "sendWait", "recvWait", "selLock",
                           "selTry", "selBlock", "selWait", "selDone", "selLeave"}]
    BY Zenon, <1>2, <1>3 DEF TypeOK
  <2> QED BY Zenon, <1>1, <1>2, <1>5, <2>1 DEF TypeOK
<1>8. Calling'
  BY <1>3, <1>5, <1>6 DEF Calling
<1>9. Chained'
  BY <1>1, <1>3, <1>4, <1>6 DEF Chained, Set
<1>10. Waiting'
  BY Zenon, <1>1, <1>3, <1>4, <1>6 DEF Waiting
<1>11. Queued'
  <2>1. ASSUME NEW d \in Chans, NEW type \in {"send", "recv"},
               NEW q \in Quanta(Que(type), d), Belongs(q, d, type)
        PROVE  Belongs(q, d, type)'
    <3>1. q.task # t /\ q.task \in Tasks
      BY Zenon, <1>1, NoQuantum, QuantaTyped DEF Que
    <3> QED BY Zenon, <1>1, <1>6, <2>1, <3>1, BelongsKept
  <2>2. \A d \in Chans : Kept(send_que[d], send_que[d]) /\ Kept(recv_que[d], recv_que[d])
    BY Zenon DEF Kept
  <2> QED BY Zenon, <1>1, <2>1, <2>2, QueuedKept DEF Que
<1> QED BY Zenon, <1>7, <1>8, <1>9, <1>10, <1>11 DEF SInv

\* A coroutine that wakes up in a send or a receive keeps the invariant.
LEMMA AwakenSInv ==
  ASSUME SInv, NEW t \in Tasks, Awaken(t)
  PROVE SInv'
<1> TypeOK /\ Calling /\ Chained /\ Waiting /\ Queued
  BY Zenon DEF SInv
<1> DEFINE c == op[t].chan
<1>1. /\ pc[t] \in {"sendWait", "recvWait"} /\ pc[t] # "idle" /\ status[t] = "RUNNING"
      /\ pc' = [pc EXCEPT ![t] = "idle"]
      /\ UNCHANGED <<lock, close, buf, send_que, recv_que, status, qtag, op, nops, at, closed,
                     with, got, rel, delivered, dropped>>
      /\ accepted' = accepted \/ accepted' = accepted \cup {Message(t)}
      /\ refused' = refused \/ refused' = refused \cup {Message(t)}
  BY Zenon DEF Awaken, Returns, Goto, channels
<1>2. c \in Chans /\ Message(t) \in Messages
  BY Zenon, <1>1, CallIs, MessageTyped
<1>3. PICK code \in {"success", "closed"} :
        res' = [res EXCEPT ![t] = [code |-> code, chan |-> c]]
  BY Zenon DEF Awaken, Returns
<1> HIDE DEF c
<1>4. TypeOK'
  <2>1. res' \in [Tasks -> [code : {"none", "success", "closed", "busy"},
                            chan : Chans \cup {NULL}]]
    BY Zenon, <1>2, <1>3 DEF TypeOK
  <2>2. accepted' \subseteq Messages /\ refused' \subseteq Messages
    BY Zenon, <1>1, <1>2 DEF TypeOK
  <2> QED BY Zenon, <1>1, <2>1, <2>2 DEF TypeOK
<1>5. pc'[t] = "idle" /\ \A x \in Tasks : x # t => pc'[x] = pc[x]
  BY Zenon, <1>1 DEF TypeOK
<1>6. Calling'
  BY Zenon, <1>1, <1>5, CallEnds
<1>7. Chained'
  BY Zenon, <1>1, <1>5, PlainChained
<1>8. Waiting'
  BY Zenon, <1>1, <1>5 DEF Waiting
<1>9. Queued'
  <2>1. ASSUME NEW d \in Chans, NEW type \in {"send", "recv"},
               NEW q \in Quanta(Que(type), d), Belongs(q, d, type)
        PROVE  Belongs(q, d, type)'
    <3>1. q.task # t /\ q.task \in Tasks
      BY Zenon, <1>1, NoQuantum, QuantaTyped DEF Que
    <3> QED BY Zenon, <1>1, <1>5, <2>1, <3>1, BelongsKept
  <2>2. \A d \in Chans : Kept(send_que[d], send_que[d]) /\ Kept(recv_que[d], recv_que[d])
    BY Zenon DEF Kept
  <2> QED BY Zenon, <1>1, <2>1, <2>2, QueuedKept DEF Que
<1> QED BY Zenon, <1>4, <1>6, <1>7, <1>8, <1>9 DEF SInv


\* A send or a receive that begins to wait keeps the invariant.
LEMMA BlockSInv ==
  ASSUME SInv, NEW t \in Tasks, NEW type \in {"send", "recv"}, Block(t, type)
  PROVE SInv'
<1> TypeOK /\ Calling /\ Chained /\ Waiting /\ Queued
  BY Zenon DEF SInv
<1> DEFINE c == op[t].chan
           q == Quantum(t, c, FALSE)
           l == IF type = "send" THEN "sendWait" ELSE "recvWait"
<1>1. /\ pc[t] = type /\ pc[t] # "idle"
      /\ status' = [status EXCEPT ![t] = "WAIT"] /\ pc' = [pc EXCEPT ![t] = l]
      /\ UNCHANGED <<lock, close, buf, qtag, op, nops, at, closed, res, with, got, rel,
                     delivered, accepted, refused, dropped>>
      /\ \/ /\ type = "send"
            /\ send_que' = [send_que EXCEPT ![c] = Append(@, q)]
            /\ recv_que' = [recv_que EXCEPT ![c] = <<>>]
         \/ /\ type = "recv"
            /\ recv_que' = [recv_que EXCEPT ![c] = Append(@, q)]
            /\ send_que' = [send_que EXCEPT ![c] = <<>>]
  BY Zenon DEF Block, Goto, messages
<1>2. c \in Chans
  BY Zenon, <1>1, CallIs
<1>3. q \in QuantumType /\ q.task = t /\ q.chan = c /\ q.select = FALSE
  BY Zenon, <1>2 DEF Quantum, QuantumType
<1> HIDE DEF q
<1>4. /\ \A i \in DOMAIN send_que[c] : send_que[c][i].task # q.task
      /\ \A i \in DOMAIN recv_que[c] : recv_que[c][i].task # q.task
  <2>1. /\ \A x \in Quanta(send_que, c) : x.task # t
        /\ \A x \in Quanta(recv_que, c) : x.task # t
    BY Zenon, <1>1, <1>2, NoQuantum
  <2> QED BY Zenon, <1>3, <2>1 DEF Quanta
<1>5. /\ send_que \in [Chans -> Seq(QuantumType)] /\ recv_que \in [Chans -> Seq(QuantumType)]
      /\ \A d \in Chans : Once(send_que[d]) /\ Once(recv_que[d])
  BY Zenon DEF TypeOK, Queued
<1>6. /\ send_que' \in [Chans -> Seq(QuantumType)] /\ recv_que' \in [Chans -> Seq(QuantumType)]
      /\ \A d \in Chans : Once(send_que'[d]) /\ Once(recv_que'[d])
  <2>1. Once(<<>>)
    BY DEF Once
  <2>4. /\ Append(send_que[c], q) \in Seq(QuantumType) /\ Once(Append(send_que[c], q))
        /\ Append(recv_que[c], q) \in Seq(QuantumType) /\ Once(Append(recv_que[c], q))
    BY Zenon, <1>2, <1>3, <1>4, <1>5, AppendIs
  <2> DEFINE a == Append(send_que[c], q)
             b == Append(recv_que[c], q)
  <2>2. CASE type = "send"
    <3>1. send_que' = [send_que EXCEPT ![c] = a] /\ recv_que' = [recv_que EXCEPT ![c] = <<>>]
      BY Zenon, <1>1, <1>2, <1>5, <2>2
    <3> HIDE DEF a
    <3> QED BY <1>2, <1>5, <2>1, <2>4, <3>1 DEF a
  <2>3. CASE type = "recv"
    <3>1. recv_que' = [recv_que EXCEPT ![c] = b] /\ send_que' = [send_que EXCEPT ![c] = <<>>]
      BY Zenon, <1>1, <1>2, <1>5, <2>3
    <3> HIDE DEF b
    <3> QED BY <1>2, <1>5, <2>1, <2>4, <3>1 DEF b
  <2> QED BY Zenon, <2>2, <2>3
<1>7. /\ pc'[t] = l /\ status'[t] = "WAIT"
      /\ \A x \in Tasks : x # t => pc'[x] = pc[x] /\ status'[x] = status[x]
  BY Zenon, <1>1 DEF TypeOK
<1>8. TypeOK'
  BY Zenon, <1>1, <1>6 DEF TypeOK
<1>9. Calling' /\ Chained' /\ Waiting'
  <2>1. Calling'
    <3>1. Kind(pc'[t]) = Kind(pc[t]) /\ pc'[t] \notin {"selLock", "selTry", "selBlock"}
      <4>1. CASE type = "send"
        <5>1. pc[t] = "send" /\ pc'[t] = "sendWait"
          BY Zenon, <1>1, <1>7, <4>1
        <5> QED BY Zenon, <5>1 DEF Kind
      <4>2. CASE type = "recv"
        <5>1. pc[t] = "recv" /\ pc'[t] = "recvWait"
          BY Zenon, <1>1, <1>7, <4>2
        <5> QED BY Zenon, <5>1 DEF Kind
      <4> QED BY Zenon, <4>1, <4>2
    <3> HIDE DEF l
    <3> QED BY Zenon, <1>1, <1>7, <3>1, CallGoesOn
  <2>2. Chained'
    <3>1. pc[t] \in {"idle", "send", "recv", "close", "sendWait", "recvWait"}
      BY Zenon, <1>1
    <3>2. pc'[t] \in {"idle", "send", "recv", "close", "sendWait", "recvWait"}
      BY Zenon, <1>7
    <3> HIDE DEF l
    <3> QED BY Zenon, <1>1, <1>7, <3>1, <3>2, PlainChained
  <2>3. Waiting'
    <3>1. pc'[t] \in {"sendWait", "recvWait"}
      BY Zenon, <1>7
    <3>2. \A x \in Tasks : x # t => pc'[x] = pc[x] /\ status'[x] = status[x] /\ qtag'[x] = qtag[x]
      BY Zenon, <1>1, <1>7
    <3> HIDE DEF l
    <3> QED BY Zenon, <3>1, <3>2 DEF Waiting
  <2> QED BY Zenon, <2>1, <2>2, <2>3
<1>10. ASSUME NEW d \in Chans, NEW other \in {"send", "recv"}, NEW x \in Quanta(Que(other)', d)
       PROVE  Belongs(x, d, other)'
  <2>1. x \in Quanta(Que(other), d) \/ (x = q /\ other = type /\ d = c)
    <3>1. CASE d # c
      BY Zenon, <1>1, <1>2, <1>5, <3>1 DEF Que, Quanta
    <3>2. CASE d = c /\ other # type
      <4>0. DOMAIN <<>> = {}
        OBVIOUS
      <4>1. CASE type = "send"
        <5>1. recv_que'[c] = <<>> /\ other = "recv"
          BY Zenon, <1>1, <1>2, <1>5, <3>2, <4>1
        <5> QED BY Zenon, <3>2, <4>0, <5>1 DEF Que, Quanta
      <4>2. CASE type = "recv"
        <5>1. send_que'[c] = <<>> /\ other = "send"
          BY Zenon, <1>1, <1>2, <1>5, <3>2, <4>2
        <5> QED BY Zenon, <3>2, <4>0, <5>1 DEF Que, Quanta
      <4> QED BY Zenon, <1>1, <4>1, <4>2
    <3>3. CASE d = c /\ other = type
      <4>1. Que(other)'[c] = Append(Que(other)[c], q)
        BY Zenon, <1>1, <1>2, <1>5, <3>3 DEF Que
      <4>2. Que(other)[c] \in Seq(QuantumType) /\ Once(Que(other)[c])
        BY Zenon, <1>2, <1>5 DEF Que
      <4>3. \A i \in DOMAIN Que(other)[c] : Que(other)[c][i].task # q.task
        BY Zenon, <1>4 DEF Que
      <4> QED BY <1>3, <3>3, <4>1, <4>2, <4>3, AppendIs DEF Quanta
    <3> QED BY Zenon, <3>1, <3>2, <3>3
  <2>2. CASE x \in Quanta(Que(other), d)
    <3>1. x.task # t /\ x.task \in Tasks
      BY Zenon, <1>1, <2>2, NoQuantum, QuantaTyped DEF Que
    <3>2. Belongs(x, d, other)
      BY Zenon, <2>2 DEF Queued, Que
    <3> QED BY Zenon, <1>1, <1>7, <3>1, <3>2, BelongsKept
  <2>3. CASE x = q /\ other = type /\ d = c
    BY Zenon, <1>1, <1>3, <1>7, <2>3 DEF Belongs
  <2> QED BY Zenon, <2>1, <2>2, <2>3
<1>11. Queued'
  BY Zenon, <1>6, <1>10 DEF Queued, Que, Quanta, Once
<1> QED BY Zenon, <1>8, <1>9, <1>11 DEF SInv

\* The locks that a select acquires keep the invariant.
LEMMA SelLockSInv ==
  ASSUME SInv, NEW t \in Tasks, SelLock(t)
  PROVE SInv'
<1> TypeOK /\ Calling /\ Chained /\ Waiting /\ Queued
  BY Zenon DEF SInv
<1>1. /\ pc[t] = "selLock" \/ (pc[t] = "selWait" /\ status[t] = "RUNNING")
      /\ UNCHANGED <<close, buf, send_que, recv_que, status, qtag, op, nops, at, closed, res,
                     with, rel, delivered, accepted, refused, dropped>>
  BY Zenon DEF SelLock, channels, messages
<1>2. PICK c \in NextLock(t) :
        /\ lock[c] = NULL /\ lock' = [lock EXCEPT ![c] = t]
        /\ got' = [got EXCEPT ![t] = @ \cup {c}]
        /\ IF got[t] \cup {c} = Set(t)
           THEN pc' = [pc EXCEPT ![t] = IF pc[t] = "selLock" THEN "selTry" ELSE "selDone"]
           ELSE pc' = pc
  BY Zenon DEF SelLock, Goto
<1>3. c \in Set(t) /\ Set(t) \subseteq Chans /\ \A d \in Set(t) \ got[t] : c <= d
  BY Zenon, <1>1, <1>2, CallIs DEF NextLock
<1>4. rel[t] = {}
  <2> SUFFICES ASSUME NEW r \in rel[t]
               PROVE  FALSE
    BY Zenon
  <2>1. got[t] = {} /\ \A d \in Set(t) : d <= r => d \in rel[t]
    BY Zenon DEF Chained
  <2>2. r \in Set(t)
    BY Zenon, <1>1 DEF Chained
  <2>3. c \in rel[t]
    BY Zenon, <1>3, <2>1, <2>2
  <2> QED BY <1>2, <2>3, ChannelAssumption DEF Chained
<1>5. TypeOK'
  <2>1. /\ lock \in [Chans -> Tasks \cup {NULL}] /\ got \in [Tasks -> SUBSET Chans]
        /\ pc \in [Tasks -> {"idle", "send", "recv", "close", "sendWait", "recvWait", "selLock",
                             "selTry", "selBlock", "selWait", "selDone", "selLeave"}]
    BY Zenon DEF TypeOK
  <2>2. lock' \in [Chans -> Tasks \cup {NULL}]
    BY Zenon, <1>2, <1>3, <2>1
  <2>3. got' \in [Tasks -> SUBSET Chans]
    BY Zenon, <1>2, <1>3, <2>1
  <2>4. pc' \in [Tasks -> {"idle", "send", "recv", "close", "sendWait", "recvWait", "selLock",
                           "selTry", "selBlock", "selWait", "selDone", "selLeave"}]
    BY Zenon, <1>2, <2>1
  <2> QED BY Zenon, <1>1, <2>2, <2>3, <2>4 DEF TypeOK
<1>6. /\ lock'[c] = t /\ got'[t] = got[t] \cup {c}
      /\ \A d \in Chans : d # c => lock'[d] = lock[d]
      /\ \A x \in Tasks : x # t => got'[x] = got[x] /\ pc'[x] = pc[x]
      /\ \/ pc'[t] = pc[t]
         \/ /\ got'[t] = Set(t)
            /\ pc'[t] = IF pc[t] = "selLock" THEN "selTry" ELSE "selDone"
  BY Zenon, <1>2, <1>3 DEF TypeOK
<1>7. Calling'
  <2>1. op[t].cases \in Seq([chan : Chans, type : {"send", "recv"}])
    BY Zenon, <1>1, CallIs
  <2>2. Len(op[t].cases) > 0
    BY <1>3, <2>1 DEF Set
  <2>3. pc[t] = "selLock" => at[t] < Len(op[t].cases)
    BY Zenon, <2>2 DEF Calling
  <2> QED BY <1>1, <1>6, <2>3 DEF Calling
<1>8. Chained'
  <2>1. \A x \in Tasks : ChainedAt(x) /\ got[x] \in SUBSET Chans /\ rel[x] \in SUBSET Chans
    BY Zenon, ChainedIs DEF TypeOK
  <2>2. \A x \in Tasks : \A d \in got[x] \cup rel[x] : lock[d] = x /\ d \in Chans
    BY Zenon, <2>1 DEF ChainedAt
  <2>3. \A x \in Tasks : x # NULL
    BY Zenon, ChannelAssumption
  <2>4. \A x \in Tasks : \A d \in got[x] \cup rel[x] : lock'[d] = lock[d]
    <3>1. ASSUME NEW x \in Tasks, NEW d \in got[x] \cup rel[x]
          PROVE  lock'[d] = lock[d]
      <4>1. d \in Chans /\ lock[d] = x /\ x # NULL
        BY Zenon, <2>2, <2>3
      <4>2. d # c
        BY Zenon, <1>2, <4>1
      <4> QED BY Zenon, <1>6, <4>1, <4>2
    <3> QED BY Zenon, <3>1
  <2>5. ASSUME NEW x \in Tasks, x # t
        PROVE  ChainedAt(x)'
    <3>1. /\ pc'[x] = pc[x] /\ op'[x] = op[x] /\ got'[x] = got[x] /\ rel'[x] = rel[x]
          /\ ChainedAt(x) /\ \A d \in got[x] \cup rel[x] : lock'[d] = lock[d]
      BY Zenon, <1>1, <1>6, <2>1, <2>4, <2>5
    <3> QED BY Zenon, <3>1, ChainedFrame
  <2>6. ChainedAt(t)'
    <3>1. rel'[t] = {} /\ Set(t)' = Set(t) /\ \A d \in got'[t] : lock'[d] = t
      <4>1. rel'[t] = {} /\ Set(t)' = Set(t)
        BY Zenon, <1>1, <1>4 DEF Set
      <4>2. \A d \in got[t] : lock'[d] = t
        BY Zenon, <2>2, <2>4
      <4> QED BY Zenon, <1>6, <4>1, <4>2
    <3>2. got'[t] \subseteq Set(t)
      <4>1. got[t] \subseteq Set(t)
        BY Zenon, <1>1, <2>1 DEF ChainedAt
      <4> QED BY Zenon, <1>3, <1>6, <4>1
    <3>3. \/ pc'[t] \in {"selLock", "selWait"}
          \/ pc'[t] \in {"selTry", "selDone"} /\ got'[t] = Set(t)
      BY Zenon, <1>1, <1>6
    <3> QED BY Zenon, <3>1, <3>2, <3>3 DEF ChainedAt
  <2> QED BY Zenon, <2>5, <2>6, ChainedIs
<1>9. Waiting'
  BY Zenon, <1>1, <1>6 DEF Waiting
<1>10. Queued'
  <2>1. ASSUME NEW d \in Chans, NEW type \in {"send", "recv"},
               NEW q \in Quanta(Que(type), d), Belongs(q, d, type)
        PROVE  Belongs(q, d, type)'
    <3>1. q.task \in Tasks
      BY Zenon, QuantaTyped DEF Que
    <3>2. CASE q.task # t
      BY Zenon, <1>1, <1>6, <2>1, <3>1, <3>2, BelongsKept
    <3>3. CASE q.task = t
      BY Zenon, <1>1, <1>6, <2>1, <3>3 DEF Belongs, Cases
    <3> QED BY Zenon, <3>2, <3>3
  <2>2. \A d \in Chans : Kept(send_que[d], send_que[d]) /\ Kept(recv_que[d], recv_que[d])
    BY Zenon DEF Kept
  <2> QED BY Zenon, <1>1, <2>1, <2>2, QueuedKept DEF Que
<1> QED BY Zenon, <1>5, <1>7, <1>8, <1>9, <1>10 DEF SInv


\* core_wait, which releases a lock of a select that waits, keeps the invariant.
LEMMA CoreWaitReleaseSInv ==
  ASSUME SInv, NEW t \in Tasks, CoreWaitRelease(t)
  PROVE SInv'
<1> TypeOK /\ Calling /\ Chained /\ Waiting /\ Queued
  BY Zenon DEF SInv
<1>1. UNCHANGED <<close, buf, send_que, recv_que, status, qtag, pc, op, nops, at, closed, res,
                  with, got, delivered, accepted, refused, dropped>>
  BY Zenon DEF CoreWaitRelease, channels, calls, messages
<1>2. PICK c \in rel[t] : /\ \A d \in rel[t] : d <= c
                          /\ lock' = [lock EXCEPT ![c] = NULL]
                          /\ rel' = [rel EXCEPT ![t] = @ \ {c}]
  BY Zenon DEF CoreWaitRelease, LastLock
<1>3. /\ c \in Chans /\ lock[c] = t /\ pc[t] = "selWait" /\ got[t] = {}
      /\ rel[t] \subseteq Chans
  BY Zenon DEF TypeOK, Chained
<1>4. TypeOK'
  BY Zenon, <1>1, <1>2, <1>3 DEF TypeOK
<1>5. /\ rel'[t] = rel[t] \ {c} /\ \A x \in Tasks : x # t => rel'[x] = rel[x]
      /\ \A d \in Chans : d # c => lock'[d] = lock[d]
  BY Zenon, <1>2, <1>3 DEF TypeOK
<1>6. Chained'
  <2>1. ASSUME NEW x \in Tasks, NEW d \in got'[x] \cup rel'[x]
        PROVE  lock'[d] = x
    <3>1. d \in got[x] \cup rel[x] /\ d \in Chans /\ lock[d] = x
      BY Zenon, <1>1, <1>5 DEF Chained, TypeOK
    <3>2. d # c
      BY Zenon, <1>1, <1>3, <1>5, <3>1
    <3> QED BY Zenon, <1>5, <3>1, <3>2
  <2>2. \A e \in rel'[t], d \in Set(t) : d <= e => d \in rel'[t]
    <3> SUFFICES ASSUME NEW e \in rel[t], e # c, NEW d \in Set(t), d <= e
                 PROVE  d \in rel[t] /\ d # c
      BY Zenon, <1>5
    <3>1. d \in rel[t] /\ e <= c
      BY Zenon, <1>2 DEF Chained
    <3>2. e \in Nat /\ d \in Nat /\ c \in Nat
      BY Zenon, <1>3, <3>1, ChannelAssumption
    <3> QED BY <3>1, <3>2
  <2> QED BY <1>1, <1>3, <1>5, <2>1, <2>2 DEF Chained, Set
<1>7. Calling' /\ Waiting' /\ Queued'
  <2>1. Calling'
    BY Zenon, <1>1 DEF Calling
  <2>2. Waiting'
    BY Zenon, <1>1 DEF Waiting
  <2>3. \A q, d, type : Belongs(q, d, type)' <=> Belongs(q, d, type)
    BY <1>1 DEF Belongs, Cases
  <2>4. Queued'
    BY Zenon, <1>1, <2>3 DEF Queued, Quanta, Once
  <2> QED BY Zenon, <2>1, <2>2, <2>4
<1> QED BY Zenon, <1>4, <1>6, <1>7 DEF SInv

\* A select that releases a lock on its way out keeps the invariant.
LEMMA SelLeaveSInv ==
  ASSUME SInv, NEW t \in Tasks, SelLeave(t)
  PROVE SInv'
<1> TypeOK /\ Calling /\ Chained /\ Waiting /\ Queued
  BY Zenon DEF SInv
<1>1. /\ pc[t] = "selLeave"
      /\ UNCHANGED <<close, buf, send_que, recv_que, status, qtag, op, nops, at, closed, res,
                     with, rel, delivered, accepted, refused, dropped>>
  BY Zenon DEF SelLeave, channels, messages
<1>2. PICK c \in got[t] : /\ lock' = [lock EXCEPT ![c] = NULL]
                          /\ got' = [got EXCEPT ![t] = @ \ {c}]
                          /\ IF got[t] = {c} THEN pc' = [pc EXCEPT ![t] = "idle"] ELSE pc' = pc
  BY Zenon DEF SelLeave, LastLock, Goto
<1>3. c \in Chans /\ lock[c] = t /\ rel[t] = {}
  BY Zenon, <1>1 DEF TypeOK, Chained
<1>4. TypeOK'
  BY Zenon, <1>1, <1>2, <1>3 DEF TypeOK
<1>5. /\ got'[t] = got[t] \ {c} /\ \A x \in Tasks : x # t => got'[x] = got[x] /\ pc'[x] = pc[x]
      /\ \A d \in Chans : d # c => lock'[d] = lock[d]
      /\ pc'[t] = pc[t] \/ (pc'[t] = "idle" /\ got'[t] = {})
  BY Zenon, <1>2, <1>3 DEF TypeOK
<1>6. Chained'
  <2>1. ASSUME NEW x \in Tasks, NEW d \in got'[x] \cup rel'[x]
        PROVE  lock'[d] = x
    <3>1. d \in got[x] \cup rel[x] /\ d \in Chans /\ lock[d] = x
      <4>1. d \in got[x] \cup rel[x]
        BY Zenon, <1>1, <1>5
      <4> QED BY Zenon, <4>1 DEF Chained, TypeOK
    <3>2. d # c
      BY Zenon, <1>1, <1>3, <1>5, <3>1
    <3> QED BY Zenon, <1>5, <3>1, <3>2
  <2> QED BY <1>1, <1>3, <1>5, <2>1 DEF Chained, Set
<1>7. Calling' /\ Waiting'
  BY <1>1, <1>5 DEF Calling, Waiting
<1>8. Queued'
  <2>1. ASSUME NEW d \in Chans, NEW type \in {"send", "recv"},
               NEW q \in Quanta(Que(type), d), Belongs(q, d, type)
        PROVE  Belongs(q, d, type)'
    <3>1. q.task # t /\ q.task \in Tasks
      BY Zenon, <1>1, NoQuantum, QuantaTyped DEF Que
    <3> QED BY Zenon, <1>1, <1>5, <2>1, <3>1, BelongsKept
  <2>2. \A d \in Chans : Kept(send_que[d], send_que[d]) /\ Kept(recv_que[d], recv_que[d])
    BY Zenon DEF Kept
  <2> QED BY Zenon, <1>1, <2>1, <2>2, QueuedKept DEF Que
<1> QED BY Zenon, <1>4, <1>6, <1>7, <1>8 DEF SInv


\* A select that begins to wait keeps the invariant.
LEMMA SelBlockSInv ==
  ASSUME SInv, NEW t \in Tasks, SelBlock(t)
  PROVE SInv'
<1> TypeOK /\ Calling /\ Chained /\ Waiting /\ Queued
  BY Zenon DEF SInv
<1>1. /\ pc[t] = "selBlock" /\ pc[t] # "idle"
      /\ qtag' = [qtag EXCEPT ![t] = NULL] /\ status' = [status EXCEPT ![t] = "WAIT"]
      /\ rel' = [rel EXCEPT ![t] = got[t]] /\ got' = [got EXCEPT ![t] = {}]
      /\ pc' = [pc EXCEPT ![t] = "selWait"]
      /\ UNCHANGED <<lock, close, buf, op, nops, at, closed, res, with,
                     delivered, accepted, refused, dropped>>
  BY Zenon DEF SelBlock, Goto, messages
<1>2. ASSUME NEW type \in {"send", "recv"}
      PROVE  Que(type)' = [d \in Chans |-> IF d \in Cases(t, type)
                             THEN Append(Que(type)[d], Quantum(t, d, TRUE)) ELSE Que(type)[d]]
  BY Zenon DEF SelBlock, Que
<1>3. got[t] = Set(t) /\ Set(t) \subseteq Chans /\ rel[t] = {}
  BY Zenon, <1>1, CallIs DEF Chained
<1>4. ASSUME NEW type \in {"send", "recv"}, NEW d \in Chans
      PROVE  /\ Que(type)'[d] \in Seq(QuantumType) /\ Once(Que(type)'[d])
             /\ \A x \in Quanta(Que(type)', d) :
                  \/ x \in Quanta(Que(type), d)
                  \/ x = Quantum(t, d, TRUE) /\ d \in Cases(t, type)
  <2>1. Que(type)[d] \in Seq(QuantumType) /\ Once(Que(type)[d])
    BY Zenon DEF TypeOK, Queued, Que
  <2>2. CASE d \notin Cases(t, type)
    <3>1. Que(type)'[d] = Que(type)[d]
      BY Zenon, <1>2, <2>2
    <3> QED BY Zenon, <2>1, <3>1 DEF Quanta
  <2>3. CASE d \in Cases(t, type)
    <3> DEFINE q == Quantum(t, d, TRUE)
    <3>1. Que(type)'[d] = Append(Que(type)[d], q)
      BY Zenon, <1>2, <2>3
    <3>2. q \in QuantumType /\ q.task = t
      BY Zenon DEF Quantum, QuantumType
    <3> HIDE DEF q
    <3>3. \A x \in Quanta(Que(type), d) : x.task # t
      BY Zenon, <1>1, NoQuantum DEF Que
    <3>4. \A i \in DOMAIN Que(type)[d] : Que(type)[d][i].task # q.task
      BY Zenon, <3>2, <3>3 DEF Quanta
    <3> DEFINE r == Que(type)[d]
               a == Append(r, q)
    <3>5. /\ a \in Seq(QuantumType) /\ Once(a)
          /\ \A j \in DOMAIN a : a[j] = q \/ \E k \in DOMAIN r : a[j] = r[k]
      BY Zenon, <2>1, <3>2, <3>4, AppendIs
    <3>6. Quanta(Que(type), d) = {r[k] : k \in DOMAIN r}
      BY Zenon DEF Quanta
    <3>7. Quanta(Que(type)', d) = {a[k] : k \in DOMAIN a}
      BY Zenon, <3>1 DEF Quanta
    <3>8. Que(type)'[d] = a
      BY Zenon, <3>1
    <3> HIDE DEF r, a
    <3> QED BY Zenon, <2>3, <3>5, <3>6, <3>7, <3>8 DEF q
  <2> QED BY Zenon, <2>2, <2>3
<1>5. /\ send_que' \in [Chans -> Seq(QuantumType)] /\ recv_que' \in [Chans -> Seq(QuantumType)]
  <2>1. /\ send_que' = [d \in Chans |-> send_que'[d]] /\ recv_que' = [d \in Chans |-> recv_que'[d]]
    BY Zenon, <1>2 DEF Que
  <2>2. \A d \in Chans : send_que'[d] \in Seq(QuantumType) /\ recv_que'[d] \in Seq(QuantumType)
    BY Zenon, <1>4 DEF Que
  <2> QED BY Zenon, <2>1, <2>2
<1>6. TypeOK'
  BY Zenon, <1>1, <1>3, <1>5 DEF TypeOK
<1>7. /\ pc'[t] = "selWait" /\ status'[t] = "WAIT" /\ qtag'[t] = NULL
      /\ rel'[t] = Set(t) /\ got'[t] = {}
      /\ \A x \in Tasks : x # t => /\ pc'[x] = pc[x] /\ status'[x] = status[x]
                                   /\ qtag'[x] = qtag[x] /\ rel'[x] = rel[x] /\ got'[x] = got[x]
  BY Zenon, <1>1, <1>3 DEF TypeOK
<1>8. Calling' /\ Waiting'
  <2>1. Calling'
    <3>1. Kind(pc'[t]) = Kind(pc[t]) /\ pc'[t] \notin {"selLock", "selTry", "selBlock"}
      BY Zenon, <1>1, <1>7 DEF Kind
    <3> QED BY Zenon, <1>1, <1>7, <3>1, CallGoesOn
  <2>2. Waiting'
    BY Zenon, <1>7 DEF Waiting
  <2> QED BY Zenon, <2>1, <2>2
<1>9. Chained'
  <2>1. \A x \in Tasks : got'[x] \cup rel'[x] = got[x] \cup rel[x]
    BY Zenon, <1>3, <1>7
  <2>2. \A x \in Tasks : ChainedAt(x)
    BY Zenon, ChainedIs
  <2>3. ASSUME NEW x \in Tasks, x # t
        PROVE  ChainedAt(x)'
    <3>1. /\ pc'[x] = pc[x] /\ op'[x] = op[x] /\ got'[x] = got[x] /\ rel'[x] = rel[x]
          /\ \A d \in got[x] \cup rel[x] : lock'[d] = lock[d]
      BY Zenon, <1>1, <1>7, <2>3
    <3> QED BY Zenon, <2>2, <3>1, ChainedFrame
  <2>4. ChainedAt(t)'
    <3>1. Set(t)' = Set(t) /\ lock' = lock
      BY Zenon, <1>1 DEF Set
    <3>2. \A d \in Set(t) : lock[d] = t
      <4>1. ChainedAt(t)
        BY Zenon, <2>2
      <4>2. \A d \in got[t] \cup rel[t] : lock[d] = t
        BY Zenon, <4>1 DEF ChainedAt
      <4>3. \A d \in Set(t) : d \in got[t] \cup rel[t]
        BY Zenon, <1>3
      <4> QED BY Zenon, <4>2, <4>3
    <3> QED BY Zenon, <1>7, <3>1, <3>2 DEF ChainedAt
  <2> QED BY Zenon, <2>3, <2>4, ChainedIs
<1>10. ASSUME NEW d \in Chans, NEW type \in {"send", "recv"}, NEW x \in Quanta(Que(type)', d)
       PROVE  Belongs(x, d, type)'
  <2>1. CASE x \in Quanta(Que(type), d)
    <3>1. x.task # t /\ x.task \in Tasks
      BY Zenon, <1>1, <2>1, NoQuantum, QuantaTyped DEF Que
    <3>2. Belongs(x, d, type)
      BY Zenon, <2>1 DEF Queued, Que
    <3> QED BY Zenon, <1>1, <1>7, <3>1, <3>2, BelongsKept
  <2>2. CASE x = Quantum(t, d, TRUE) /\ d \in Cases(t, type)
    BY <1>1, <1>7, <2>2 DEF Belongs, Quantum, Cases
  <2> QED BY Zenon, <1>4, <2>1, <2>2
<1>11. Queued'
  <2>1. \A d \in Chans : Once(send_que'[d]) /\ Once(recv_que'[d])
    BY Zenon, <1>4 DEF Que
  <2> QED BY Zenon, <1>10, <2>1 DEF Queued, Que, Quanta, Once
<1> QED BY Zenon, <1>6, <1>8, <1>9, <1>11 DEF SInv

\* What the select leaves in the queues: nothing that belongs to it.
LEMMA SelDoneTakes ==
  ASSUME SInv, NEW t \in Tasks, SelDone(t), NEW type \in {"send", "recv"}, NEW d \in Chans
  PROVE /\ Que(type)'[d] \in Seq(QuantumType) /\ Kept(Que(type)'[d], Que(type)[d])
        /\ \A x \in Quanta(Que(type)', d) : x.task # t
<1> TypeOK /\ Calling /\ Chained /\ Waiting /\ Queued
  BY Zenon DEF SInv
<1>0. /\ pc[t] = "selDone"
      /\ Que(type)' = [e \in Chans |-> IF e \in Cases(t, type)
                         THEN Others(Que(type)[e], t) ELSE Que(type)[e]]
  BY Zenon DEF SelDone, Que
<1>1. Que(type)[d] \in Seq(QuantumType) /\ Once(Que(type)[d])
  BY Zenon DEF TypeOK, Queued, Que
<1>2. CASE d \notin Cases(t, type)
  <2>1. Que(type)'[d] = Que(type)[d]
    BY Zenon, <1>0, <1>2
  <2>2. \A x \in Quanta(Que(type), d) : x.task # t
    BY <1>0, <1>2 DEF Queued, Belongs, Que
  <2> QED BY Zenon, <1>1, <2>1, <2>2 DEF Quanta, Kept
<1>3. CASE d \in Cases(t, type)
  <2>1. Que(type)'[d] = Others(Que(type)[d], t)
    BY Zenon, <1>0, <1>3
  <2> QED BY Zenon, <1>1, <2>1, OthersKept DEF Quanta
<1> QED BY Zenon, <1>2, <1>3

\* A select that takes its quanta out of the queues keeps the invariant.
LEMMA SelDoneSInv ==
  ASSUME SInv, NEW t \in Tasks, SelDone(t)
  PROVE SInv'
<1> TypeOK /\ Calling /\ Chained /\ Waiting /\ Queued
  BY Zenon DEF SInv
<1>1. /\ pc[t] = "selDone" /\ pc[t] # "idle"
      /\ qtag' = [qtag EXCEPT ![t] = NULL] /\ pc' = [pc EXCEPT ![t] = "selLeave"]
      /\ UNCHANGED <<lock, close, buf, status, op, nops, at, closed, with, got, rel,
                     delivered, dropped>>
      /\ accepted' = accepted \/ accepted' = accepted \cup {Message(t)}
      /\ refused' = refused \/ refused' = refused \cup {Message(t)}
  BY Zenon DEF SelDone, Leave, Goto, Fate
<1>2. PICK code \in {"success", "closed"} :
        res' = [res EXCEPT ![t] = [code |-> code, chan |-> qtag[t]]]
  BY Zenon DEF SelDone, Leave
<1>3. ASSUME NEW type \in {"send", "recv"}
      PROVE  Que(type)' = [d \in Chans |-> IF d \in Cases(t, type)
                             THEN Others(Que(type)[d], t) ELSE Que(type)[d]]
  BY Zenon DEF SelDone, Que
<1>4. Message(t) \in Messages
  BY Zenon, <1>1, MessageTyped
<1>5. ASSUME NEW type \in {"send", "recv"}, NEW d \in Chans
      PROVE  /\ Que(type)'[d] \in Seq(QuantumType) /\ Kept(Que(type)'[d], Que(type)[d])
             /\ \A x \in Quanta(Que(type)', d) : x.task # t
  BY Zenon, SelDoneTakes
<1>6. /\ send_que' \in [Chans -> Seq(QuantumType)] /\ recv_que' \in [Chans -> Seq(QuantumType)]
  <2>1. /\ send_que' = [d \in Chans |-> send_que'[d]] /\ recv_que' = [d \in Chans |-> recv_que'[d]]
    BY Zenon, <1>3 DEF Que
  <2>2. \A d \in Chans : send_que'[d] \in Seq(QuantumType) /\ recv_que'[d] \in Seq(QuantumType)
    BY Zenon, <1>5 DEF Que
  <2> QED BY Zenon, <2>1, <2>2
<1>7. TypeOK'
  <2>1. res' \in [Tasks -> [code : {"none", "success", "closed", "busy"},
                            chan : Chans \cup {NULL}]]
    BY Zenon, <1>2 DEF TypeOK
  <2>2. accepted' \subseteq Messages /\ refused' \subseteq Messages
    BY Zenon, <1>1, <1>4 DEF TypeOK
  <2> QED BY Zenon, <1>1, <1>6, <2>1, <2>2 DEF TypeOK
<1>8. /\ pc'[t] = "selLeave"
      /\ \A x \in Tasks : x # t => pc'[x] = pc[x] /\ qtag'[x] = qtag[x]
  BY Zenon, <1>1 DEF TypeOK
<1>9. Calling' /\ Waiting'
  <2>1. Kind(pc'[t]) = Kind(pc[t]) /\ pc'[t] \notin {"selLock", "selTry", "selBlock"}
    BY Zenon, <1>1, <1>8 DEF Kind
  <2>2. Calling'
    BY Zenon, <1>1, <1>8, <2>1, CallGoesOn
  <2>3. Waiting'
    BY Zenon, <1>1, <1>8 DEF Waiting
  <2> QED BY Zenon, <2>2, <2>3
<1>10. Chained'
  <2>1. \A x \in Tasks : ChainedAt(x)
    BY Zenon, ChainedIs
  <2>2. ASSUME NEW x \in Tasks, x # t
        PROVE  ChainedAt(x)'
    BY Zenon, <1>1, <1>8, <2>1, <2>2, ChainedFrame
  <2>3. ChainedAt(t)'
    <3>1. Set(t)' = Set(t)
      BY Zenon, <1>1 DEF Set
    <3>2. ChainedAt(t) /\ pc[t] = "selDone" /\ UNCHANGED <<got, rel, lock>>
      BY Zenon, <1>1, <2>1
    <3>3. got[t] = Set(t) /\ rel[t] = {} /\ \A d \in got[t] \cup rel[t] : lock[d] = t
      BY Zenon, <3>2 DEF ChainedAt
    <3>4. got[t] \cup rel[t] \subseteq Set(t)
      BY Zenon, <3>3
    <3> QED BY Zenon, <1>8, <3>1, <3>2, <3>3, <3>4 DEF ChainedAt
  <2> QED BY Zenon, <2>2, <2>3, ChainedIs
<1>11. Queued'
  <2>1. ASSUME NEW d \in Chans, NEW type \in {"send", "recv"},
               NEW q \in Quanta(Que(type)', d), Belongs(q, d, type)
        PROVE  Belongs(q, d, type)'
    <3>1. q.task # t
      BY Zenon, <1>5
    <3>2. q.task \in Tasks
      BY <1>5, QuantaTyped DEF Que, Quanta, Kept
    <3> QED BY Zenon, <1>1, <1>8, <2>1, <3>1, <3>2, BelongsKept
  <2>2. \A d \in Chans : Kept(send_que'[d], send_que[d]) /\ Kept(recv_que'[d], recv_que[d])
    BY Zenon, <1>5 DEF Que
  <2> QED BY Zenon, <2>1, <2>2, QueuedKept DEF Que
<1> QED BY Zenon, <1>7, <1>9, <1>10, <1>11 DEF SInv


\* Whom coroc_chan_close makes ready.
LEMMA WaitersAre ==
  ASSUME SInv, NEW c \in Chans, NEW w \in Waiters(c)
  PROVE /\ w.task \in Tasks /\ w.chan = c /\ status[w.task] = "WAIT"
        /\ w.select => qtag[w.task] = NULL
        /\ \E type \in {"send", "recv"} : w \in Quanta(Que(type), c) /\ Belongs(w, c, type)
<1> TypeOK /\ Calling /\ Chained /\ Waiting /\ Queued
  BY Zenon DEF SInv
<1>1. PICK type \in {"send", "recv"} : \E i \in Fetchable(Que(type)[c]) : w = Que(type)[c][i]
  BY Zenon DEF Waiters, Que
<1>2. w \in Quanta(Que(type), c) /\ (w.select => qtag[w.task] = NULL)
  BY Zenon, <1>1 DEF Quanta, Fetchable
<1>3. w.task \in Tasks /\ Belongs(w, c, type)
  BY Zenon, <1>2, QuantaTyped DEF Queued, Que
<1>4. status[w.task] = "WAIT" /\ w.chan = c
  BY Zenon, <1>2, <1>3 DEF Belongs, Waiting
<1> QED BY Zenon, <1>2, <1>3, <1>4

\* coroc_chan_close makes ready whoever it finds in the queues.
LEMMA CloseWakes ==
  ASSUME SInv, NEW c \in Chans, NEW x \in Tasks,
         qtag' = Tagged(Waiters(c)), status' = Readied(Waiters(c))
  PROVE \/ /\ \A w \in Waiters(c) : w.task # x
           /\ status'[x] = status[x] /\ qtag'[x] = qtag[x]
        \/ \E w \in Waiters(c) :
             /\ w.task = x /\ status'[x] = "RUNNING"
             /\ qtag'[x] = IF w.select THEN c ELSE qtag[x]
<1> TypeOK /\ Calling /\ Chained /\ Waiting /\ Queued
  BY Zenon DEF SInv
<1>1. CASE \A w \in Waiters(c) : w.task # x
  BY Zenon, <1>1 DEF Tagged, Readied
<1>2. CASE \E w \in Waiters(c) : w.task = x
  <2>1. status'[x] = "RUNNING"
    BY Zenon, <1>2 DEF Readied
  <2>2. CASE \E w \in Waiters(c) : w.task = x /\ w.select
    <3>1. (CHOOSE w \in Waiters(c) : w.task = x) \in Waiters(c)
      BY Zenon, <1>2
    <3>2. (CHOOSE w \in Waiters(c) : w.task = x).chan = c
      BY Zenon, <3>1, WaitersAre
    <3>3. qtag'[x] = c
      BY Zenon, <2>2, <3>2 DEF Tagged
    <3> QED BY Zenon, <2>1, <2>2, <3>3
  <2>3. CASE ~\E w \in Waiters(c) : w.task = x /\ w.select
    <3>1. qtag'[x] = qtag[x]
      BY Zenon, <2>3 DEF Tagged
    <3> QED BY Zenon, <1>2, <2>1, <2>3, <3>1
  <2> QED BY Zenon, <2>2, <2>3
<1> QED BY Zenon, <1>1, <1>2

\* coroc_chan_close keeps the invariant.
LEMMA CloseSInv ==
  ASSUME SInv, NEW t \in Tasks, Close(t)
  PROVE SInv'
<1> TypeOK /\ Calling /\ Chained /\ Waiting /\ Queued
  BY Zenon DEF SInv
<1> DEFINE c == op[t].chan
<1>1. /\ pc[t] = "close" /\ pc' = [pc EXCEPT ![t] = "idle"]
      /\ UNCHANGED <<lock, op, nops, at, with, got, rel, delivered, accepted, refused>>
  BY Zenon DEF Close, Returns, Goto
<1>2. PICK code \in {"none", "closed"} : res' = [res EXCEPT ![t] = [code |-> code, chan |-> c]]
  BY Zenon DEF Close, Returns
<1>3. c \in Chans
  BY Zenon, <1>1, CallIs
<1>4. CASE close[c]
  <2>1. UNCHANGED <<close, buf, send_que, recv_que, status, qtag, closed, dropped>>
    BY Zenon, <1>4 DEF Close, channels
  <2> HIDE DEF c
  <2>2. res' \in [Tasks -> [code : {"none", "success", "closed", "busy"},
                            chan : Chans \cup {NULL}]]
    BY Zenon, <1>2, <1>3 DEF TypeOK
  <2>3. TypeOK'
    BY Zenon, <1>1, <2>1, <2>2 DEF TypeOK
  <2>4. pc'[t] = "idle" /\ \A x \in Tasks : x # t => pc'[x] = pc[x]
    BY Zenon, <1>1 DEF TypeOK
  <2>5. Calling' /\ Waiting'
    <3>1. Calling'
      BY Zenon, <1>1, <2>4, CallEnds
    <3>2. Waiting'
      BY Zenon, <1>1, <2>1, <2>4 DEF Waiting
    <3> QED BY Zenon, <3>1, <3>2
  <2>6. Chained'
    BY Zenon, <1>1, <2>4, PlainChained
  <2>7. Queued'
    <3>1. ASSUME NEW d \in Chans, NEW type \in {"send", "recv"},
                 NEW q \in Quanta(Que(type), d), Belongs(q, d, type)
          PROVE  Belongs(q, d, type)'
      <4>1. q.task # t /\ q.task \in Tasks
        BY Zenon, <1>1, NoQuantum, QuantaTyped DEF Que
      <4> QED BY Zenon, <1>1, <2>1, <2>4, <3>1, <4>1, BelongsKept
    <3>2. \A d \in Chans : Kept(send_que[d], send_que[d]) /\ Kept(recv_que[d], recv_que[d])
      BY Zenon DEF Kept
    <3> QED BY Zenon, <2>1, <3>1, <3>2, QueuedKept DEF Que
  <2> QED BY Zenon, <2>3, <2>5, <2>6, <2>7 DEF SInv
<1>5. CASE ~close[c]
  <2>1. /\ close' = [close EXCEPT ![c] = TRUE]
        /\ send_que' = [send_que EXCEPT ![c] = <<>>] /\ recv_que' = [recv_que EXCEPT ![c] = <<>>]
        /\ closed' = [u \in Tasks |-> closed[u] \/ \E q \in Waiters(c) : q.task = u]
        /\ qtag' = Tagged(Waiters(c)) /\ status' = Readied(Waiters(c))
        /\ \/ /\ buf' = [buf EXCEPT ![c] = <<>>]
              /\ dropped' = dropped \cup {buf[c][i] : i \in DOMAIN buf[c]}
           \/ buf' = buf /\ dropped' = dropped
    BY Zenon, <1>5 DEF Close
  <2> HIDE DEF c
  <2>14. closed' \in [Tasks -> BOOLEAN]
    BY Zenon, <2>1 DEF TypeOK
  <2>2. res' \in [Tasks -> [code : {"none", "success", "closed", "busy"},
                            chan : Chans \cup {NULL}]]
    BY Zenon, <1>2, <1>3 DEF TypeOK
  <2>3. \A x \in Tasks :
          \/ /\ \A w \in Waiters(c) : w.task # x
             /\ status'[x] = status[x] /\ qtag'[x] = qtag[x]
          \/ \E w \in Waiters(c) :
               /\ w.task = x /\ status'[x] = "RUNNING"
               /\ qtag'[x] = IF w.select THEN c ELSE qtag[x]
    BY Zenon, <1>3, <2>1, CloseWakes
  <2>4. /\ send_que' \in [Chans -> Seq(QuantumType)] /\ recv_que' \in [Chans -> Seq(QuantumType)]
        /\ \A d \in Chans : Kept(send_que'[d], send_que[d]) /\ Kept(recv_que'[d], recv_que[d])
    <3>1. \A s : Kept(s, s) /\ Kept(<<>>, s)
      BY DEF Kept, Once
    <3> QED BY <1>3, <2>1, <3>1 DEF TypeOK
  <2>5. /\ buf' \in [Chans -> Seq(Messages)] /\ \A d \in Chans : Len(buf'[d]) <= Capacity[d]
        /\ dropped' \subseteq Messages
    <3>1. buf[c] \in Seq(Messages) /\ Len(<<>>) <= Capacity[c]
      BY <1>3, ChannelAssumption DEF TypeOK
    <3>2. {buf[c][i] : i \in DOMAIN buf[c]} \subseteq Messages
      BY <3>1
    <3>3. dropped' \subseteq Messages
      BY Zenon, <2>1, <3>2 DEF TypeOK
    <3>4. buf' \in [Chans -> Seq(Messages)] /\ \A d \in Chans : Len(buf'[d]) <= Capacity[d]
      <4>1. <<>> \in Seq(Messages)
        BY SMTT(30)
      <4>2. CASE buf' = [buf EXCEPT ![c] = <<>>]
        BY Zenon, <1>3, <3>1, <4>1, <4>2 DEF TypeOK
      <4> QED BY Zenon, <2>1, <4>2 DEF TypeOK
    <3> QED BY Zenon, <3>3, <3>4
  <2>6. status' \in [Tasks -> {"RUNNING", "WAIT"}] /\ qtag' \in [Tasks -> Chans \cup {NULL}]
    <3>1. status' = [x \in Tasks |-> status'[x]] /\ qtag' = [x \in Tasks |-> qtag'[x]]
      BY <2>1 DEF Readied, Tagged
    <3>2. \A x \in Tasks : status'[x] \in {"RUNNING", "WAIT"} /\ qtag'[x] \in Chans \cup {NULL}
      BY <1>3, <2>3 DEF TypeOK
    <3> QED BY Zenon, <3>1, <3>2
  <2>7. TypeOK'
    BY Zenon, <1>1, <2>1, <2>2, <2>4, <2>5, <2>6, <2>14 DEF TypeOK
  <2>8. pc'[t] = "idle" /\ \A x \in Tasks : x # t => pc'[x] = pc[x]
    BY Zenon, <1>1 DEF TypeOK
  <2>9. status[t] # "WAIT" /\ status'[t] # "WAIT"
    BY Zenon, <1>1, <2>3 DEF Waiting
  <2>10. Calling'
    BY Zenon, <1>1, <2>8, CallEnds
  <2>11. Chained'
    BY Zenon, <1>1, <2>8, PlainChained
  <2>12. Waiting'
    <3>1. ASSUME NEW x \in Tasks, x # t, NEW w \in Waiters(c), w.task = x,
                 status'[x] = "RUNNING", qtag'[x] = IF w.select THEN c ELSE qtag[x],
                 pc[x] \in {"selWait", "selDone"}
          PROVE  qtag'[x] # NULL
      <4>1. w.select
        BY Zenon, <1>3, <3>1, WaitersAre DEF Belongs
      <4> QED BY Zenon, <1>3, <3>1, <4>1, ChannelAssumption
    <3>2. ASSUME NEW x \in Tasks, x # t
          PROVE  /\ status'[x] = "WAIT" => pc'[x] \in {"sendWait", "recvWait", "selWait"}
                 /\ pc'[x] \in {"selWait", "selDone"} => (qtag'[x] = NULL <=> status'[x] = "WAIT")
      <4>1. /\ pc'[x] = pc[x]
            /\ status[x] = "WAIT" => pc[x] \in {"sendWait", "recvWait", "selWait"}
            /\ pc[x] \in {"selWait", "selDone"} => (qtag[x] = NULL <=> status[x] = "WAIT")
        BY Zenon, <2>8, <3>2 DEF Waiting
      <4>2. CASE status'[x] = status[x] /\ qtag'[x] = qtag[x]
        BY Zenon, <4>1, <4>2
      <4>3. CASE ~(status'[x] = status[x] /\ qtag'[x] = qtag[x])
        <5>1. status'[x] = "RUNNING" /\ (pc[x] \in {"selWait", "selDone"} => qtag'[x] # NULL)
          BY Zenon, <2>3, <3>1, <3>2, <4>3
        <5>2. status'[x] # "WAIT"
          BY Zenon, <5>1
        <5> QED BY Zenon, <4>1, <5>1, <5>2
      <4> QED BY Zenon, <4>2, <4>3
    <3>3. pc'[t] \notin {"selWait", "selDone"}
      BY Zenon, <2>8
    <3> QED BY Zenon, <2>9, <3>2, <3>3 DEF Waiting
  <2>13. Queued'
    <3>1. ASSUME NEW d \in Chans, NEW type \in {"send", "recv"},
                 NEW q \in Quanta(Que(type)', d), Belongs(q, d, type)
          PROVE  Belongs(q, d, type)'
      <4>1. q \in Quanta(Que(type), d) /\ d # c
        <5>1. PICK j \in DOMAIN Que(type)'[d] : q = Que(type)'[d][j]
          BY Zenon DEF Quanta
        <5>2. d # c
          BY <1>3, <2>1, <5>1 DEF Que, TypeOK
        <5>3. \E k \in DOMAIN Que(type)[d] : q = Que(type)[d][k]
          BY Zenon, <2>4, <5>1 DEF Que, Kept
        <5> QED BY Zenon, <5>2, <5>3 DEF Quanta
      <4>2. q.task # t /\ q.task \in Tasks
        BY Zenon, <1>1, <4>1, NoQuantum, QuantaTyped DEF Que
      <4>3. ASSUME ~q.select, NEW w \in Waiters(c), w.task = q.task
            PROVE  FALSE
        BY <1>3, <3>1, <4>1, <4>3, WaitersAre DEF Belongs
      <4>4. q.select \/ status'[q.task] = status[q.task]
        BY Zenon, <2>3, <4>2, <4>3
      <4> QED BY Zenon, <1>1, <2>8, <3>1, <4>2, <4>4, BelongsKept
    <3> QED BY Zenon, <2>4, <3>1, QueuedKept DEF Que
  <2> QED BY Zenon, <2>7, <2>10, <2>11, <2>12, <2>13 DEF SInv
<1> QED BY Zenon, <1>4, <1>5

\* The invariant holds at first.
LEMMA InitSInv == Init => SInv
<1> SUFFICES ASSUME Init
             PROVE  SInv
  BY SMTT(30)
<1>1. TypeOK
  BY ChannelAssumption DEF Init, TypeOK, Messages
<1>2. Calling /\ Chained /\ Waiting
  BY Zenon DEF Init, Calling, Chained, Waiting
<1>3. Queued
  BY DEF Init, Queued, Quanta, Once
<1> QED BY Zenon, <1>1, <1>2, <1>3 DEF SInv

\* Every step keeps it.
LEMMA NextSInv == SInv /\ [Next]_vars => SInv'
<1> SUFFICES ASSUME SInv, [Next]_vars
             PROVE  SInv'
  BY Zenon
<1> TypeOK /\ Calling /\ Chained /\ Waiting /\ Queued
  BY Zenon DEF SInv
<1>1. ASSUME NEW t \in Tasks, Call(t) \/ Step(t)
      PROVE  SInv'
  BY Zenon, <1>1, CallSInv, SendSInv, RecvSInv, BlockSInv, AwakenSInv, CloseSInv, SelLockSInv,
     SelSuccessSInv, SelFailSInv, SelBlockSInv, CoreWaitReleaseSInv, SelDoneSInv,
     SelLeaveSInv DEF Step
<1>2. CASE UNCHANGED vars
  <2> USE DEF vars, channels, calls, messages
  <2>1. TypeOK'
    BY Zenon, <1>2 DEF TypeOK
  <2>2. Calling' /\ Waiting'
    BY Zenon, <1>2 DEF Calling, Waiting
  <2>3. Chained'
    <3>1. \A x \in Tasks : ChainedAt(x)
      BY Zenon, ChainedIs
    <3>2. UNCHANGED <<pc, op, got, rel, lock>>
      BY Zenon, <1>2
    <3>3. ASSUME NEW x \in Tasks
          PROVE  ChainedAt(x)'
      BY Zenon, <3>1, <3>2, ChainedFrame
    <3> QED BY Zenon, <3>3, ChainedIs
  <2>4. Queued'
    BY <1>2 DEF Queued, Quanta, Belongs, Cases, Once
  <2> QED BY Zenon, <2>1, <2>2, <2>3, <2>4 DEF SInv
<1> QED BY Zenon, <1>1, <1>2 DEF Next

\* The invariant says what the properties say of the queues.
LEMMA SInvImplies == SInv => TypeOK /\ FetchesWaiting /\ NoDangling
<1> SUFFICES ASSUME SInv
             PROVE  FetchesWaiting /\ NoDangling
  BY Zenon DEF SInv
<1> TypeOK /\ Calling /\ Chained /\ Waiting /\ Queued
  BY Zenon DEF SInv
<1>1. FetchesWaiting
  <2> SUFFICES ASSUME NEW c \in Chans, NEW q \in Waiters(c)
               PROVE  /\ status[q.task] = "WAIT"
                      /\ pc[q.task] \in {"sendWait", "recvWait", "selWait"}
    BY Zenon DEF FetchesWaiting
  <2>1. q.task \in Tasks /\ status[q.task] = "WAIT"
    BY Zenon, WaitersAre
  <2> QED BY Zenon, <2>1 DEF Waiting
<1>2. ASSUME NEW c \in Chans, NEW type \in {"send", "recv"}, NEW q \in Quanta(Que(type), c)
      PROVE  IF q.select THEN pc[q.task] \in {"selWait", "selDone"} /\ c \in Set(q.task)
             ELSE pc[q.task] \in {"sendWait", "recvWait"} /\ c = op[q.task].chan
  <2>1. Belongs(q, c, type) /\ q.task \in Tasks
    BY Zenon, QuantaTyped DEF Queued, Que
  <2>2. q.select => c \in Set(q.task)
    BY Zenon, <2>1, CallIs DEF Belongs
  <2> QED BY Zenon, <2>1, <2>2 DEF Belongs
<1>3. \A t \in Tasks : rel[t] # {} => pc[t] = "selWait"
  BY Zenon DEF Chained
<1>4. NoDangling
  BY Zenon, <1>2, <1>3 DEF NoDangling, Que
<1> QED BY Zenon, <1>1, <1>4

\* The invariant always holds.
LEMMA SInvAlways == Spec => []SInv
BY InitSInv, NextSInv, PTL DEF Spec

\* Whatever the coroutines, the channels and what they call: the variables have their
\* types, and no buffer ever holds more than its size.
THEOREM ChannelTypes == Spec => []TypeOK
BY SInvAlways, SInvImplies, PTL

\* Whoever fetches a quantum finds its coroutine waiting, as vpu_ready asserts.
THEOREM ChannelFetches == Spec => []FetchesWaiting
BY SInvAlways, SInvImplies, PTL

\* No quantum in a queue, and no lock chain in core_wait, outlives its call.
THEOREM ChannelNoDangling == Spec => []NoDangling
BY SInvAlways, SInvImplies, PTL
=============================================================================
