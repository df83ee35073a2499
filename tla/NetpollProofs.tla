--------------------------- MODULE NetpollProofs ---------------------------
(***************************************************************************)
(* Proofs about Netpoll, for any waiters, pollers, file descriptors and     *)
(* addresses: the inductive invariant NInv, and what follows from it.       *)
(***************************************************************************)
EXTENDS Netpoll, FiniteSetTheorems, TLAPS

\* The invariant holds at first.
LEMMA InitNInv == Init => NInv
<1> SUFFICES ASSUME Init PROVE NInv
  BY Zenon
<1>1. Typed
  BY Zenon DEF Init, Typed
<1>2. Owners /\ Stages /\ Deadlines
  BY Zenon DEF Init, Owners, Stages, Deadlines
<1>3. Winners /\ Events /\ Counts
  BY Zenon DEF Init, Winners, Events, Counts
<1> QED BY Zenon, <1>1, <1>2, <1>3 DEF NInv

\* The invariant has Typed.
LEMMA IsTyped ==
  ASSUME NInv
  PROVE  Typed
BY Zenon DEF NInv

\* The invariant has Owners.
LEMMA IsOwners ==
  ASSUME NInv
  PROVE  Owners
BY Zenon DEF NInv

\* The invariant has Stages.
LEMMA IsStages ==
  ASSUME NInv
  PROVE  Stages
BY Zenon DEF NInv

\* The invariant has Deadlines.
LEMMA IsDeadlines ==
  ASSUME NInv
  PROVE  Deadlines
BY Zenon DEF NInv

\* The invariant has Winners.
LEMMA IsWinners ==
  ASSUME NInv
  PROVE  Winners
BY Zenon DEF NInv

\* The invariant has Events.
LEMMA IsEvents ==
  ASSUME NInv
  PROVE  Events
BY Zenon DEF NInv

\* The invariant has Counts.
LEMMA IsCounts ==
  ASSUME NInv
  PROVE  Counts
BY Zenon DEF NInv

\* A waiter's registration depends on its own step and on the pollers at "rem".
LEMMA RegisteredSame ==
  ASSUME UNCHANGED <<done, desc>>,
         \A v \in Waiters : wpc'[v] \in {"run", "add"} <=> wpc[v] \in {"run", "add"},
         \A q \in Pollers : ppc'[q] = "rem" <=> ppc[q] = "rem",
         \A q \in Pollers : ppc[q] = "rem" => cur'[q] = cur[q]
  PROVE  \A v \in Waiters : Registered(v)' <=> Registered(v)
<1> TAKE v \in Waiters
<1>1. (\E q \in Pollers : ppc'[q] = "rem" /\ cur'[q] = desc'[v])
        <=> (\E q \in Pollers : ppc[q] = "rem" /\ cur[q] = desc[v])
  BY Zenon
<1> QED BY Zenon, <1>1 DEF Registered

\* NULL is neither a descriptor nor a waiter.
LEMMA NullApart == NULL \notin Descs /\ NULL \notin Waiters
BY Zenon, NetpollAssumption

\* A descriptor leads to its waiter, and the waiter to the descriptor.
LEMMA OwnersIs ==
  ASSUME NInv
  PROVE  /\ \A v \in Waiters : desc[v] # NULL => desc[v] \in Descs /\ wait[desc[v]] = v
         /\ \A a \in live : a \in Descs /\ wait[a] \in Waiters /\ desc[wait[a]] = a /\ fd[a] \in Fds
<1>1. \A v \in Waiters : desc[v] # NULL => desc[v] \in Descs /\ wait[desc[v]] = v
  BY Zenon, IsTyped, IsOwners DEF Typed, Owners
<1>2. \A a \in live : a \in Descs /\ wait[a] \in Waiters /\ desc[wait[a]] = a
  BY Zenon, IsTyped, IsOwners DEF Typed, Owners
<1>3. \A a \in live : fd[a] \in Fds
  <2>1. \A v \in Waiters : desc[v] # NULL => fd[desc[v]] \in Fds
    BY Zenon, IsOwners DEF Owners
  <2> QED BY Zenon, <1>2, <2>1, NullApart
<1> QED BY Zenon, <1>1, <1>2, <1>3

\* What epoll has registered is a descriptor in use.
LEMMA RegIs ==
  ASSUME NInv, NEW g \in Fds, reg[g] # NULL
  PROVE  /\ reg[g] \in live /\ reg[g] \in Descs /\ fd[reg[g]] = g
         /\ wait[reg[g]] \in Waiters /\ desc[wait[reg[g]]] = reg[g]
<1>1. reg[g] \in live /\ fd[reg[g]] = g
  BY Zenon, IsEvents DEF Events
<1> QED BY Zenon, <1>1, OwnersIs

\* The steps that allocate and free nothing.
LEMMA OwnersFrame ==
  ASSUME Owners, UNCHANGED <<live, fd, wait, desc>>,
         \A v \in Waiters : wpc'[v] = "run" <=> wpc[v] = "run",
         \A a \in Descs : done[a] => done'[a]
  PROVE  Owners'
BY Zenon DEF Owners

\* The steps that neither register nor free, and take no events from epoll.
LEMMA EventsFrame ==
  ASSUME Events, Owners, UNCHANGED <<live, fd, wait, gen>>,
         \A g \in Fds : reg'[g] = reg[g] \/ reg'[g] = NULL,
         \A g \in Fds : pend'[g] # {} => reg'[g] # NULL,
         \A g \in Fds : reg'[g] # NULL /\ Registered(wait[reg[g]]) => Registered(wait[reg[g]])',
         \A q \in Pollers : batch'[q] \subseteq batch[q],
         \A q \in Pollers : \A e \in batch[q] : e.desc \in Descs,
         \A a \in Descs : done[a] => done'[a],
         \A v \in Waiters : wpc'[v] = "add" => wpc[v] = "add"
  PROVE  Events'
<1>1. \A g \in Fds : reg'[g] # NULL =>
        reg'[g] \in live' /\ fd'[reg'[g]] = g /\ Registered(wait[reg[g]])' /\ reg'[g] = reg[g]
  BY Zenon DEF Events
<1>2. ASSUME NEW q \in Pollers, NEW e \in batch'[q]
      PROVE  /\ e.gen <= gen'[e.desc]
             /\ e.gen = gen'[e.desc] /\ ~done'[e.desc] => wpc'[wait'[e.desc]] # "add"
  <2>1. e \in batch[q] /\ e.desc \in Descs
    BY Zenon, <1>2
  <2>2. ~done[e.desc] => wait[e.desc] \in Waiters
    BY Zenon, <2>1 DEF Owners
  <2> QED BY Zenon, <2>1, <2>2 DEF Events
<1> QED BY Zenon, <1>1, <1>2 DEF Events

\* Events are taken from epoll as records of descriptors.
LEMMA EventDescs ==
  ASSUME Typed
  PROVE  \A q \in Pollers : \A e \in batch[q] : e.desc \in Descs
<1> TAKE q \in Pollers
<1> TAKE e \in batch[q]
<1>1. e \in [desc : Descs, ev : SUBSET Bits, gen : Nat]
  BY Zenon DEF Typed
<1> QED BY Zenon, <1>1

\* The steps of a waiter that no winner of the race has woken.
LEMMA WinnersFrame ==
  ASSUME Winners, Owners, Deadlines, Typed, UNCHANGED <<done, wait, ppc, cur, tpc, tcur>>,
         \A q \in Pollers : cur[q] # NULL => cur[q] \in live',
         tpc = "wake" => desc'[tcur] = desc[tcur],
         \A v \in Waiters : wpc[v] \in {"deadline", "suspend", "wait"} =>
           wpc'[v] \in {"deadline", "suspend", "wait"},
         \A v \in Waiters : wpc[v] = "wait" => wpc'[v] = "wait"
  PROVE  Winners'
<1>1. \A q \in Pollers : cur[q] # NULL => wait[cur[q]] \in Waiters
  BY Zenon DEF Winners, Owners
<1>2. tpc = "wake" => tcur \in Waiters
  BY Zenon DEF Deadlines, Typed
<1>3. \A q \in Pollers : cur'[q] # NULL =>
        /\ cur'[q] \in live' /\ done'[cur'[q]]
        /\ wpc'[wait'[cur'[q]]] \in {"deadline", "suspend", "wait"}
        /\ ppc'[q] = "wake" => wpc'[wait'[cur'[q]]] = "wait"
  BY Zenon, <1>1 DEF Winners
<1>4. tpc' = "wake" => /\ done'[desc'[tcur']] /\ wpc'[tcur'] = "wait"
                       /\ \A q \in Pollers : cur'[q] # desc'[tcur']
  BY Zenon, <1>2 DEF Winners
<1> QED BY Zenon, <1>3, <1>4 DEF Winners

\* The steps that take and give back no reference.
LEMMA CountsFrame ==
  ASSUME Counts, UNCHANGED <<count, desc>>,
         \A v \in Waiters : desc[v] # NULL => (Registered(v)' <=> Registered(v)),
         \A v \in Waiters : desc[v] # NULL => (HasDeadline(v)' <=> HasDeadline(v))
  PROVE  Counts'
<1> SUFFICES ASSUME NEW v \in Waiters, desc[v] # NULL
             PROVE  (count[desc[v]] = 1 + One(Registered(v)) + One(HasDeadline(v)))'
  BY Zenon DEF Counts
<1>1. desc[v] # NULL => count[desc[v]] = 1 + One(Registered(v)) + One(HasDeadline(v))
  BY Zenon DEF Counts
<1>2. desc[v] # NULL => One(Registered(v))' = One(Registered(v))
  BY Zenon DEF One
<1>3. desc[v] # NULL => One(HasDeadline(v))' = One(HasDeadline(v))
  BY Zenon DEF One
<1> QED BY Zenon, <1>1, <1>2, <1>3

\* A wait that begins: coroc_net_wait or coroc_net_timedwait initialises its descriptor. It
\* keeps the invariant.
LEMMA BeginNInv ==
  ASSUME NInv, NEW w \in Waiters, NEW f \in Fds, NEW m \in {{"r"}, {"w"}}, NEW t \in BOOLEAN,
         Begin(w, f, m, t)
  PROVE  NInv'
<1>1. Typed'
  BY IsTyped, NetpollAssumption DEF Begin, Goto, Free, FirstCount, epoll, tvars, pvars, Typed
<1>2. Owners'
  BY IsTyped, IsOwners, NetpollAssumption DEF Begin, Goto, Free, Typed, Owners
<1>3. Stages'
  BY IsTyped, IsOwners, IsStages DEF Begin, Goto, Free, Typed, Owners, Stages
<1>4. Deadlines'
  BY IsDeadlines DEF Begin, Goto, tvars, Deadlines
<1>5. Winners'
  BY IsTyped, IsOwners, IsDeadlines, IsWinners DEF Begin, Goto, Free, tvars, pvars, Typed, Owners,
     Deadlines, Winners
<1>6. Events'
  BY IsTyped, IsOwners, IsEvents, NetpollAssumption DEF Begin, Goto, Free, epoll, pvars, Typed,
     Owners, Events, Registered
<1>7. Counts'
  BY IsTyped, IsOwners, IsCounts DEF Begin, Goto, Free, FirstCount, tvars, pvars, Typed, Owners,
     Counts, Registered, HasDeadline, One
<1> QED BY Zenon, <1>1, <1>2, <1>3, <1>4, <1>5, <1>6, <1>7 DEF NInv

\* The registration with epoll, __coroc_netpoll_add, keeps the invariant.
LEMMA AddNInv ==
  ASSUME NInv, NEW w \in Waiters, Add(w)
  PROVE  NInv'
<1>e. /\ UNCHANGED <<live, done, fd, wait, lock, desc, timed, armed, tpc, tcur, batch, gen, ppc,
                     cur>>
      /\ wpc[w] = "add" /\ wpc'[w] \in {"deadline", "suspend"}
      /\ wpc'[w] = "deadline" => timed[w]
      /\ \A v \in Waiters : v # w => wpc'[v] = wpc[v]
  <2>1. UNCHANGED <<live, done, fd, wait, lock, desc, timed, armed, tpc, tcur, batch, gen, ppc,
                    cur>>
    BY Zenon DEF Add, tvars, pvars
  <2>2. wpc[w] = "add" /\ wpc' = [wpc EXCEPT ![w] = IF timed[w] THEN "deadline" ELSE "suspend"]
    BY Zenon DEF Add, Goto
  <2> QED BY Zenon, <2>1, <2>2, IsTyped DEF Typed
<1>1. Typed'
  <2>1. desc[w] \in Descs /\ fd[desc[w]] \in Fds
    BY Zenon, IsTyped, IsOwners DEF Add, Typed, Owners
  <2>2. count' \in [Descs -> Nat]
    BY IsTyped, <2>1 DEF Add, Typed
  <2>3. /\ reg' \in [Fds -> Descs \cup {NULL}]
        /\ want' \in [Fds -> SUBSET Bits] /\ pend' \in [Fds -> SUBSET Bits]
    <3>1. mode[desc[w]] \cup {"e"} \in SUBSET Bits
      BY Zenon, IsTyped, <2>1, NetpollAssumption DEF Typed
    <3>2. level[fd[desc[w]]] \cap (mode[desc[w]] \cup {"e"}) \in SUBSET Bits
      BY Zenon, <3>1
    <3>3. CASE reg[fd[desc[w]]] = NULL
      <4>1. /\ reg' = [reg EXCEPT ![fd[desc[w]]] = desc[w]]
            /\ want' = [want EXCEPT ![fd[desc[w]]] = mode[desc[w]] \cup {"e"}]
            /\ pend' = [pend EXCEPT ![fd[desc[w]]] =
                           level[fd[desc[w]]] \cap (mode[desc[w]] \cup {"e"})]
        BY Zenon, <3>3 DEF Add, FirstEvents
      <4> QED BY Zenon, <2>1, <3>1, <3>2, <4>1, IsTyped DEF Typed
    <3>4. CASE reg[fd[desc[w]]] # NULL
      BY Zenon, <3>4, IsTyped DEF Add, Typed
    <3> QED BY Zenon, <3>3, <3>4
  <2>4. /\ wpc' \in [Waiters -> {"run", "add", "deadline", "suspend", "wait", "ready", "finish"}]
        /\ clash' \subseteq Fds
    BY Zenon, IsTyped, <2>1 DEF Add, Goto, Typed
  <2>5. UNCHANGED <<live, done, mode, fd, wait, lock, level, desc, timed, res, armed, tpc, tcur,
                    ppc, batch, cur, pmode, gen, expired, carried, stale>>
    BY Zenon DEF Add, tvars, pvars
  <2> QED BY Zenon, IsTyped, <2>2, <2>3, <2>4, <2>5 DEF Typed
<1>2. Owners'
  BY Zenon, <1>e, IsOwners, OwnersFrame
<1>3. Stages'
  BY Zenon, <1>e, IsStages DEF Stages
<1>4. Deadlines'
  BY Zenon, <1>e, IsTyped, IsDeadlines DEF Typed, Deadlines
<1>5. Winners'
  <2>1. \A q \in Pollers : cur[q] # NULL => cur[q] \in live
    BY Zenon, IsWinners DEF Winners
  <2> QED BY Zenon, <1>e, <2>1, IsTyped, IsOwners, IsDeadlines, IsWinners, WinnersFrame
<1>6. Events'
  <2>1. /\ \A v \in Waiters : Registered(v) => Registered(v)'
        /\ \A v \in Waiters : wpc'[v] = "add" => wpc[v] = "add"
    BY Zenon, <1>e DEF Registered
  <2>2. \A g \in Fds : reg[g] # NULL =>
          reg[g] \in live /\ fd[reg[g]] = g /\ wait[reg[g]] \in Waiters /\ Registered(wait[reg[g]])
    BY Zenon, IsOwners, IsEvents DEF Owners, Events
  <2>3. /\ desc[w] \in live /\ wait[desc[w]] = w /\ fd[desc[w]] \in Fds /\ ~done[desc[w]]
        /\ Registered(w)' /\ desc[w] # NULL
    <3>1. /\ desc[w] \in live /\ wait[desc[w]] = w /\ fd[desc[w]] \in Fds /\ ~done[desc[w]]
          /\ desc[w] # NULL
      BY Zenon, <1>e, IsOwners, IsStages DEF Owners, Stages
    <3> QED BY Zenon, <1>e, <3>1 DEF Registered
  <2>4. \/ reg' = reg /\ pend' = pend
        \/ /\ reg' = [reg EXCEPT ![fd[desc[w]]] = desc[w]]
           /\ \E s : pend' = [pend EXCEPT ![fd[desc[w]]] = s]
    BY Zenon DEF Add
  <2>5. \A g \in Fds : \/ reg'[g] = reg[g] /\ pend'[g] = pend[g]
                       \/ g = fd[desc[w]] /\ reg'[g] = desc[w]
    BY Zenon, <2>4, IsTyped DEF Typed
  <2>6. ASSUME NEW g \in Fds, reg'[g] # NULL
        PROVE  reg'[g] \in live' /\ fd'[reg'[g]] = g /\ Registered(wait[reg[g]])'
    <3>1. \E v \in Waiters : wait[reg'[g]] = v /\ Registered(v)' /\ reg'[g] \in live
                            /\ fd[reg'[g]] = g
      <4>1. CASE reg'[g] = reg[g]
        BY Zenon, <2>1, <2>2, <2>6, <4>1
      <4>2. CASE g = fd[desc[w]] /\ reg'[g] = desc[w]
        BY Zenon, <2>3, <4>2
      <4> QED BY Zenon, <2>5, <4>1, <4>2
    <3>2. PICK v \in Waiters : wait[reg'[g]] = v /\ Registered(v)' /\ reg'[g] \in live
                              /\ fd[reg'[g]] = g
      BY Zenon, <3>1
    <3>3. wait'[reg'[g]] = v
      BY Zenon, <1>e, <3>2
    <3> QED BY Zenon, <1>e, <3>2, <3>3 DEF Registered
  <2>7. \A g \in Fds : pend'[g] # {} => reg'[g] # NULL
    BY Zenon, <2>3, <2>5, IsEvents DEF Events
  <2>8. \A q \in Pollers : \A e \in batch[q] : ~done[e.desc] => wait[e.desc] \in Waiters
    BY Zenon, IsTyped, IsOwners, EventDescs DEF Owners
  <2>9. ASSUME NEW q \in Pollers, NEW e \in batch'[q]
        PROVE  /\ e.gen <= gen'[e.desc]
               /\ e.gen = gen'[e.desc] /\ ~done'[e.desc] => wpc'[wait'[e.desc]] # "add"
    BY Zenon, <1>e, <2>1, <2>8, <2>9, IsEvents DEF Events
  <2> QED BY Zenon, <2>6, <2>7, <2>9 DEF Events
<1>7. Counts'
  BY IsTyped, IsOwners, IsStages, IsCounts DEF Add, Goto, tvars, pvars, Typed, Owners, Stages,
     Counts, Registered, HasDeadline, One
<1> QED BY Zenon, <1>1, <1>2, <1>3, <1>4, <1>5, <1>6, <1>7 DEF NInv

\* The timer that coroc_net_timedwait starts keeps the invariant.
LEMMA DeadlineNInv ==
  ASSUME NInv, NEW w \in Waiters, Deadline(w)
  PROVE  NInv'
<1>e. /\ UNCHANGED <<live, count, done, fd, wait, lock, tpc, tcur, reg, pend, desc, timed,
                     batch, gen, ppc, cur>>
      /\ wpc[w] = "deadline" /\ wpc'[w] = "suspend" /\ \A v \in Waiters : v # w => wpc'[v] = wpc[v]
      /\ armed' = armed \cup {w}
  BY Zenon, IsTyped DEF Deadline, Goto, dvars, epoll, pvars, history, Typed
<1>r. \A v \in Waiters : Registered(v)' <=> Registered(v)
  BY Zenon, <1>e, RegisteredSame
<1>1. Typed'
  BY Zenon, IsTyped DEF Deadline, Goto, dvars, epoll, pvars, history, Typed
<1>2. Owners'
  BY Zenon, <1>e, IsOwners, OwnersFrame
<1>3. Stages'
  BY Zenon, <1>e, IsStages DEF Stages
<1>4. Deadlines'
  BY Zenon, <1>e, IsTyped, IsStages, IsDeadlines DEF Typed, Stages, Deadlines
<1>5. Winners'
  <2>1. \A q \in Pollers : cur[q] # NULL => cur[q] \in live
    BY Zenon, IsWinners DEF Winners
  <2> QED BY Zenon, <1>e, <2>1, IsTyped, IsOwners, IsDeadlines, IsWinners, WinnersFrame
<1>6. Events'
  <2>1. \A g \in Fds : pend'[g] # {} => reg'[g] # NULL
    BY Zenon, <1>e, IsEvents DEF Events
  <2>2. \A g \in Fds : reg[g] # NULL => wait[reg[g]] \in Waiters
    BY Zenon, IsOwners, IsEvents DEF Owners, Events
  <2> QED BY Zenon, <1>e, <1>r, <2>1, <2>2, IsOwners, IsEvents, IsTyped, EventDescs, EventsFrame
<1>7. Counts'
  <2>1. \A v \in Waiters : desc[v] # NULL => (HasDeadline(v)' <=> HasDeadline(v))
    BY Zenon, <1>e, IsStages, IsDeadlines DEF HasDeadline, Stages, Deadlines
  <2> QED BY Zenon, <1>e, <1>r, <2>1, IsCounts, CountsFrame
<1> QED BY Zenon, <1>1, <1>2, <1>3, <1>4, <1>5, <1>6, <1>7 DEF NInv

\* The suspension of the waiter keeps the invariant.
LEMMA SuspendNInv ==
  ASSUME NInv, NEW w \in Waiters, Suspend(w)
  PROVE  NInv'
<1>e. /\ UNCHANGED <<live, count, done, fd, wait, tpc, tcur, reg, pend, desc, timed, armed,
                     batch, gen, ppc, cur>>
      /\ wpc[w] = "suspend" /\ wpc'[w] = "wait" /\ \A v \in Waiters : v # w => wpc'[v] = wpc[v]
  BY Zenon, IsTyped DEF Suspend, Goto, epoll, tvars, pvars, history, Typed
<1>r. \A v \in Waiters : Registered(v)' <=> Registered(v)
  BY Zenon, <1>e, RegisteredSame
<1>1. Typed'
  BY Zenon, IsTyped DEF Suspend, Goto, epoll, tvars, pvars, history, Typed
<1>2. Owners'
  BY Zenon, <1>e, IsOwners, OwnersFrame
<1>3. Stages'
  BY IsTyped, IsStages DEF Suspend, Goto, Typed, Stages
<1>4. Deadlines'
  BY Zenon, <1>e, IsTyped, IsDeadlines DEF Typed, Deadlines
<1>5. Winners'
  <2>1. \A q \in Pollers : cur[q] # NULL => cur[q] \in live
    BY Zenon, IsWinners DEF Winners
  <2> QED BY Zenon, <1>e, <2>1, IsTyped, IsOwners, IsDeadlines, IsWinners, WinnersFrame
<1>6. Events'
  <2>1. \A g \in Fds : pend'[g] # {} => reg'[g] # NULL
    BY Zenon, <1>e, IsEvents DEF Events
  <2>2. \A g \in Fds : reg[g] # NULL => wait[reg[g]] \in Waiters
    BY Zenon, IsOwners, IsEvents DEF Owners, Events
  <2> QED BY Zenon, <1>e, <1>r, <2>1, <2>2, IsOwners, IsEvents, IsTyped, EventDescs, EventsFrame
<1>7. Counts'
  <2>1. \A v \in Waiters : desc[v] # NULL => (HasDeadline(v)' <=> HasDeadline(v))
    BY Zenon, <1>e, IsStages, IsDeadlines DEF HasDeadline, Stages, Deadlines
  <2> QED BY Zenon, <1>e, <1>r, <2>1, IsCounts, CountsFrame
<1> QED BY Zenon, <1>1, <1>2, <1>3, <1>4, <1>5, <1>6, <1>7 DEF NInv

\* The timer that coroc_net_timedwait deletes when it is woken keeps the invariant.
LEMMA DelDeadlineNInv ==
  ASSUME NInv, NEW w \in Waiters, DelDeadline(w)
  PROVE  NInv'
<1>b. live' = live
  <2>1. CASE w \in armed
    <3>1. desc[w] # NULL /\ HasDeadline(w)
      BY Zenon, <2>1, IsOwners, IsDeadlines DEF DelDeadline, Owners, Deadlines, HasDeadline
    <3>2. count[desc[w]] # 1
      BY IsCounts, <3>1 DEF Counts, One
    <3> QED BY Zenon, <2>1, <3>2 DEF DelDeadline, Release
  <2>2. CASE w \notin armed
    BY Zenon, <2>2 DEF DelDeadline
  <2> QED BY Zenon, <2>1, <2>2
<1>e. /\ UNCHANGED <<done, fd, wait, lock, tpc, tcur, reg, pend, desc, timed, batch, gen, ppc,
                     cur>>
      /\ wpc[w] = "ready" /\ wpc'[w] = "finish" /\ \A v \in Waiters : v # w => wpc'[v] = wpc[v]
      /\ armed' = armed \ {w}
  BY Zenon, IsTyped DEF DelDeadline, Goto, epoll, pvars, history, Typed
<1>r. \A v \in Waiters : Registered(v)' <=> Registered(v)
  BY Zenon, <1>e, RegisteredSame
<1>1. Typed'
  BY IsTyped, IsCounts, NetpollAssumption DEF DelDeadline, Goto, Release, epoll, pvars, history,
     Typed, Counts, One
<1>2. Owners'
  BY Zenon, <1>e, <1>b, IsOwners, OwnersFrame
<1>3. Stages'
  BY Zenon, <1>e, IsStages DEF Stages
<1>4. Deadlines'
  BY Zenon, IsTyped, IsDeadlines DEF DelDeadline, Goto, Typed, Deadlines
<1>5. Winners'
  <2>1. \A q \in Pollers : cur[q] # NULL => cur[q] \in live
    BY Zenon, IsWinners DEF Winners
  <2> QED BY Zenon, <1>e, <1>b, <2>1, IsTyped, IsOwners, IsDeadlines, IsWinners, WinnersFrame
<1>6. Events'
  <2>1. \A g \in Fds : pend'[g] # {} => reg'[g] # NULL
    BY Zenon, <1>e, IsEvents DEF Events
  <2>2. \A g \in Fds : reg[g] # NULL => wait[reg[g]] \in Waiters
    BY Zenon, IsOwners, IsEvents DEF Owners, Events
  <2> QED BY Zenon, <1>e, <1>b, <1>r, <2>1, <2>2, IsOwners, IsEvents, IsTyped, EventDescs,
             EventsFrame
<1>7. Counts'
  BY IsTyped, IsOwners, IsCounts DEF DelDeadline, Goto, Release, pvars, Typed, Owners, Counts,
     Registered, HasDeadline, One
<1> QED BY Zenon, <1>1, <1>2, <1>3, <1>4, <1>5, <1>6, <1>7 DEF NInv

\* The end of a wait, which gives up the waiter's own reference, keeps the invariant.
LEMMA FinishNInv ==
  ASSUME NInv, NEW w \in Waiters, Finish(w)
  PROVE  NInv'
<1>a. /\ wpc[w] \in {"ready", "finish"} /\ desc[w] # NULL /\ desc[w] \in Descs /\ desc[w] \in live
      /\ wait[desc[w]] = w /\ done[desc[w]]
  <2>1. wpc[w] \in {"ready", "finish"}
    BY Zenon DEF Finish
  <2> QED BY Zenon, <2>1, OwnersIs, IsOwners, IsStages DEF Owners, Stages
<1>e. /\ UNCHANGED <<done, mode, fd, wait, lock, reg, want, level, pend, timed, armed, tpc, tcur,
                     ppc, batch, cur, pmode, gen, clash, expired, carried, stale>>
      /\ res' = [res EXCEPT ![w] = mode[desc[w]]]
      /\ count' = [count EXCEPT ![desc[w]] = @ - 1]
      /\ live' = IF count[desc[w]] = 1 THEN live \ {desc[w]} ELSE live
      /\ desc' = [desc EXCEPT ![w] = NULL] /\ wpc' = [wpc EXCEPT ![w] = "run"]
  BY Zenon DEF Finish, Goto, Release, epoll, tvars, pvars, history
\* The registration and the deadline are gone: the waiter's reference is the last one.
<1>p. ASSUME NEW q \in Pollers
      PROVE  cur[q] # desc[w]
  <2> SUFFICES ASSUME cur[q] = desc[w]
               PROVE  FALSE
    BY Zenon
  <2>1. wpc[wait[cur[q]]] \in {"deadline", "suspend", "wait"}
    BY Zenon, <1>a, IsWinners DEF Winners
  <2> QED BY Zenon, <1>a, <2>1
<1>n. count[desc[w]] = 1
  <2>1. ~Registered(w)
    BY Zenon, <1>a, <1>p DEF Registered
  <2>2. ~HasDeadline(w)
    BY Zenon, <1>a, IsDeadlines DEF Finish, HasDeadline, Deadlines
  <2>3. count[desc[w]] = 1 + One(Registered(w)) + One(HasDeadline(w))
    BY Zenon, <1>a, IsCounts DEF Counts
  <2>4. One(Registered(w)) = 0 /\ One(HasDeadline(w)) = 0
    BY Zenon, <2>1, <2>2 DEF One
  <2> QED BY <2>3, <2>4
<1>l. live' = live \ {desc[w]}
  BY Zenon, <1>e, <1>n
<1>f. /\ desc'[w] = NULL /\ wpc'[w] = "run"
      /\ \A v \in Waiters : v # w => desc'[v] = desc[v] /\ wpc'[v] = wpc[v]
  BY Zenon, <1>e, IsTyped DEF Typed
<1>1. Typed'
  <2>1. count' \in [Descs -> Nat]
    <3>1. count[desc[w]] - 1 \in Nat
      BY <1>n
    <3> QED BY Zenon, <1>e, <3>1, IsTyped DEF Typed
  <2>2. live' \subseteq Descs /\ res' \in [Waiters -> SUBSET Bits]
    BY Zenon, <1>a, <1>e, <1>l, IsTyped DEF Typed
  <2>3. /\ desc' \in [Waiters -> Descs \cup {NULL}]
        /\ wpc' \in [Waiters -> {"run", "add", "deadline", "suspend", "wait", "ready", "finish"}]
    BY Zenon, <1>e, IsTyped DEF Typed
  <2> QED BY Zenon, <1>e, <2>1, <2>2, <2>3, IsTyped DEF Typed
<1>2. Owners'
  <2>1. \A v \in Waiters : v # w /\ desc[v] # NULL => desc[v] # desc[w]
    BY Zenon, <1>a, OwnersIs
  <2>2. \A v \in Waiters : wpc'[v] = "run" <=> desc'[v] = NULL
    BY Zenon, <1>f, IsOwners DEF Owners
  <2>3. \A v \in Waiters : desc'[v] # NULL =>
          desc'[v] \in live' /\ wait[desc'[v]] = v /\ fd[desc'[v]] \in Fds
    <3>1. \A v \in Waiters : desc[v] # NULL =>
            desc[v] \in live /\ wait[desc[v]] = v /\ fd[desc[v]] \in Fds
      BY Zenon, IsOwners DEF Owners
    <3> QED BY Zenon, <1>f, <1>l, <2>1, <3>1
  <2>4. \A a \in live' : wait[a] \in Waiters /\ desc'[wait[a]] = a
    BY Zenon, <1>a, <1>f, <1>l, OwnersIs
  <2>5. \A a \in Descs \ live' : done[a]
    BY Zenon, <1>a, <1>l, IsOwners DEF Owners
  <2> QED BY Zenon, <1>e, <2>2, <2>3, <2>4, <2>5 DEF Owners
<1>3. Stages'
  BY Zenon, <1>e, <1>f, IsStages DEF Stages
<1>4. Deadlines'
  <2>1. w \notin armed
    BY Zenon, IsDeadlines DEF Finish, Deadlines
  <2> QED BY Zenon, <1>e, <1>f, <2>1, IsTyped, IsDeadlines DEF Typed, Deadlines
<1>5. Winners'
  <2>1. \A q \in Pollers : cur[q] # NULL => cur[q] \in live'
    BY Zenon, <1>l, <1>p, IsWinners DEF Winners
  <2>2. tpc = "wake" => tcur \in Waiters /\ tcur # w
    BY Zenon, <1>a, IsTyped, IsDeadlines, IsWinners DEF Typed, Deadlines, Winners
  <2> QED BY Zenon, <1>a, <1>e, <1>f, <2>1, <2>2, IsTyped, IsOwners, IsDeadlines, IsWinners,
         WinnersFrame
<1>6. Events'
  <2>1. ASSUME NEW g \in Fds, reg[g] # NULL
        PROVE  /\ reg[g] \in live' /\ fd[reg[g]] = g /\ wait[reg[g]] \in Waiters
               /\ wait[reg[g]] # w /\ Registered(wait[reg[g]])
    <3>1. Registered(wait[reg[g]]) /\ reg[g] \in live /\ fd[reg[g]] = g
      BY Zenon, <2>1, IsEvents DEF Events
    <3>2. ~Registered(w)
      BY Zenon, <1>a, <1>p DEF Registered
    <3> QED BY Zenon, <1>a, <1>l, <3>1, <3>2, OwnersIs
  <2>2. \A v \in Waiters : v # w => (Registered(v)' <=> Registered(v))
    <3>1. UNCHANGED <<done, ppc, cur>>
      BY Zenon, <1>e
    <3> QED BY Zenon, <1>f, <3>1 DEF Registered
  <2>3. \A g \in Fds : reg'[g] # NULL =>
          reg'[g] \in live' /\ fd'[reg'[g]] = g /\ Registered(wait[reg[g]])'
    <3>1. reg' = reg /\ wait' = wait /\ fd' = fd
      BY Zenon, <1>e
    <3> QED BY Zenon, <2>1, <2>2, <3>1
  <2>4. ASSUME NEW q \in Pollers, NEW e \in batch[q]
        PROVE  /\ e.gen <= gen[e.desc]
               /\ e.gen = gen[e.desc] /\ ~done[e.desc] => wpc'[wait[e.desc]] # "add"
    <3>1. e.desc \in Descs
      BY Zenon, IsTyped, EventDescs
    <3>2. ~done[e.desc] => e.desc \in live
      BY Zenon, <3>1, IsOwners DEF Owners
    <3>3. ~done[e.desc] => wait[e.desc] \in Waiters
      BY Zenon, <3>2, OwnersIs
    <3> QED BY Zenon, <1>f, <3>3, IsEvents DEF Events
  <2>5. \A g \in Fds : pend[g] # {} => reg[g] # NULL
    BY Zenon, IsEvents DEF Events
  <2> QED BY Zenon, <1>e, <2>3, <2>4, <2>5 DEF Events
<1>7. Counts'
  <2> SUFFICES ASSUME NEW v \in Waiters, v # w, desc[v] # NULL
               PROVE  (count[desc[v]] = 1 + One(Registered(v)) + One(HasDeadline(v)))'
    BY Zenon, <1>f DEF Counts
  <2>1. count[desc[v]] = 1 + One(Registered(v)) + One(HasDeadline(v))
    BY Zenon, IsCounts DEF Counts
  <2>2. desc'[v] = desc[v] /\ desc[v] # desc[w] /\ desc[v] \in Descs
    BY Zenon, <1>a, <1>f, OwnersIs
  <2>3. count'[desc[v]] = count[desc[v]]
    BY Zenon, <1>e, <2>2, IsTyped DEF Typed
  <2>4. Registered(v)' <=> Registered(v)
    BY Zenon, <1>e, <1>f DEF Registered
  <2>5. HasDeadline(v)' <=> HasDeadline(v)
    BY Zenon, <1>e, <1>f DEF HasDeadline
  <2>6. One(Registered(v))' = One(Registered(v)) /\ One(HasDeadline(v))' = One(HasDeadline(v))
    BY Zenon, <2>4, <2>5 DEF One
  <2> QED BY Zenon, <2>1, <2>2, <2>3, <2>6
<1> QED BY Zenon, <1>1, <1>2, <1>3, <1>4, <1>5, <1>6, <1>7 DEF NInv

\* The timer daemon that takes an expired deadline from the heap keeps the invariant.
LEMMA FireNInv ==
  ASSUME NInv, NEW w \in Waiters, Fire(w)
  PROVE  NInv'
<1>e. UNCHANGED <<live, count, done, fd, wait, reg, pend, wpc, desc, timed, armed, batch, gen,
                  ppc, cur>>
  BY Zenon DEF Fire, dvars, epoll, wvars, pvars, history
<1>r. \A v \in Waiters : Registered(v)' <=> Registered(v)
  BY Zenon, <1>e, RegisteredSame
<1>1. Typed'
  BY Zenon, IsTyped DEF Fire, dvars, epoll, wvars, pvars, history, Typed
<1>2. Owners'
  BY Zenon, <1>e, IsOwners, OwnersFrame
<1>3. Stages'
  BY Zenon, IsStages DEF Fire, dvars, wvars, Stages
<1>4. Deadlines'
  BY Zenon, IsDeadlines DEF Fire, wvars, Deadlines
<1>5. Winners'
  BY Zenon, IsWinners DEF Fire, dvars, wvars, pvars, Winners
<1>6. Events'
  <2>1. \A g \in Fds : pend'[g] # {} => reg'[g] # NULL
    BY Zenon, <1>e, IsEvents DEF Events
  <2>2. \A g \in Fds : reg[g] # NULL => wait[reg[g]] \in Waiters
    BY Zenon, IsOwners, IsEvents DEF Owners, Events
  <2> QED BY Zenon, <1>e, <1>r, <2>1, <2>2, IsOwners, IsEvents, IsTyped, EventDescs, EventsFrame
<1>7. Counts'
  <2>1. \A v \in Waiters : desc[v] # NULL => (HasDeadline(v)' <=> HasDeadline(v))
    BY Zenon, <1>e, IsStages, IsDeadlines DEF HasDeadline, Stages, Deadlines
  <2> QED BY Zenon, <1>e, <1>r, <2>1, IsCounts, CountsFrame
<1> QED BY Zenon, <1>1, <1>2, <1>3, <1>4, <1>5, <1>6, <1>7 DEF NInv

\* The compare-and-swap of __coroc_netpoll_timeout, with the removal that follows it, keeps
\* the invariant.
LEMMA TimeoutCheckNInv ==
  ASSUME NInv, TimeoutCheck
  PROVE  NInv'
<1>a. /\ tcur \in Waiters /\ desc[tcur] \in live /\ wait[desc[tcur]] = tcur
      /\ desc[tcur] \in Descs /\ fd[desc[tcur]] \in Fds /\ HasDeadline(tcur)
  BY Zenon, IsTyped, IsOwners, IsDeadlines DEF TimeoutCheck, Typed, Owners, Deadlines, HasDeadline
<1>b. count[desc[tcur]] \in Nat /\ count[desc[tcur]] >= 2
  BY IsCounts, <1>a, NetpollAssumption DEF Counts, One
<1>e. /\ UNCHANGED <<live, fd, wait, lock, wpc, desc, timed, armed, tcur, ppc, batch, cur, gen>>
      /\ tpc = "check" /\ lock[desc[tcur]] = NULL /\ tpc' \in {"wake", "put"}
  <2>1. /\ UNCHANGED <<fd, wait, lock, wpc, desc, timed, armed, tcur, ppc, batch, cur, gen>>
        /\ tpc = "check" /\ lock[desc[tcur]] = NULL /\ tpc' \in {"wake", "put"}
    BY Zenon DEF TimeoutCheck, wvars, pvars
  <2>2. count[desc[tcur]] # 1
    BY <1>b
  <2> QED BY Zenon, <2>1, <2>2 DEF TimeoutCheck, Rem, Release
<1>c. \/ /\ done[desc[tcur]] /\ tpc' = "put" /\ UNCHANGED <<done, count, reg, pend>>
      \/ /\ ~done[desc[tcur]] /\ tpc' = "wake"
         /\ done' = [done EXCEPT ![desc[tcur]] = TRUE]
         /\ count' = [count EXCEPT ![desc[tcur]] = @ - 1]
         /\ reg' = [reg EXCEPT ![fd[desc[tcur]]] = NULL]
         /\ pend' = [pend EXCEPT ![fd[desc[tcur]]] = {}]
  BY Zenon DEF TimeoutCheck, TimeoutWins, Rem, Release, epoll
<1>d. \A a \in Descs : (done[a] => done'[a]) /\ (a # desc[tcur] => done'[a] = done[a])
  BY Zenon, <1>a, <1>c, IsTyped DEF Typed
\* Its waiter is suspended: the lock is free.
<1>s. ~done[desc[tcur]] => wpc[tcur] = "wait" /\ \A q \in Pollers : cur[q] # desc[tcur]
  <2>1. lock[desc[tcur]] # tcur
    BY Zenon, <1>a, <1>e, NetpollAssumption
  <2>2. wpc[tcur] \in {"suspend", "wait", "ready"}
    BY Zenon, <1>e, IsDeadlines DEF Deadlines
  <2>3. ~done[desc[tcur]] => wpc[tcur] = "wait"
    BY Zenon, <1>a, <2>1, <2>2, IsStages DEF Stages
  <2>4. desc[tcur] # NULL
    BY Zenon, <1>a, NetpollAssumption
  <2> QED BY Zenon, <2>3, <2>4, IsWinners DEF Winners
<1>1. Typed'
  <2>1. count' \in [Descs -> Nat] /\ live' = live
    BY IsTyped, <1>b DEF TimeoutCheck, Rem, Release, pvars, Typed
  <2>2. /\ done' \in [Descs -> BOOLEAN] /\ mode' \in [Descs -> SUBSET Bits]
        /\ reg' \in [Fds -> Descs \cup {NULL}] /\ want' = want /\ level' = level
    <3>1. /\ mode' = mode \/ mode' = [mode EXCEPT ![desc[tcur]] = {}]
          /\ want' = want /\ level' = level
      BY Zenon DEF TimeoutCheck, TimeoutMode, Rem, epoll
    <3> QED BY Zenon, <1>c, <3>1, IsTyped DEF Typed
  <2>3. pend' \in [Fds -> SUBSET Bits]
    BY Zenon, IsTyped DEF TimeoutCheck, Rem, epoll, Typed
  <2>4. expired' \subseteq Waiters /\ tpc' \in {"idle", "check", "wake", "put"}
    BY IsTyped, <1>a DEF TimeoutCheck, Typed
  <2>5. UNCHANGED <<fd, wait, lock, wpc, desc, timed, res, armed, tcur, ppc, batch, cur, pmode,
                    gen, clash, carried, stale>>
    BY Zenon DEF TimeoutCheck, wvars, pvars
  <2> QED BY Zenon, IsTyped, <2>1, <2>2, <2>3, <2>4, <2>5 DEF Typed
<1>2. Owners'
  BY Zenon, <1>d, <1>e, IsOwners, OwnersFrame
<1>3. Stages'
  <2>1. \A v \in Waiters : wpc[v] = "add" => desc[v] # desc[tcur] /\ desc[v] \in Descs
    <3>1. \A v \in Waiters : wpc[v] = "add" => desc[v] \in Descs /\ wait[desc[v]] = v
      BY Zenon, IsTyped, IsOwners DEF Typed, Owners
    <3>2. wpc[tcur] # "add"
      BY Zenon, <1>e, IsDeadlines DEF Deadlines
    <3> QED BY Zenon, <1>a, <3>1, <3>2
  <2>2. \A v \in Waiters : wpc[v] \in {"ready", "finish"} => desc[v] \in Descs
    BY Zenon, IsTyped, IsOwners DEF Typed, Owners
  <2> QED BY Zenon, <1>d, <1>e, <2>1, <2>2, IsStages DEF Stages
<1>4. Deadlines'
  BY Zenon, IsDeadlines DEF TimeoutCheck, wvars, Deadlines
<1>5. Winners'
  <2>1. \A q \in Pollers : cur[q] # NULL => done'[cur[q]]
    BY Zenon, <1>d, IsTyped, IsWinners DEF Typed, Winners
  <2>2. tpc' = "wake" =>
          /\ done'[desc[tcur]] /\ wpc[tcur] = "wait" /\ \A q \in Pollers : cur[q] # desc[tcur]
    BY Zenon, <1>a, <1>c, <1>s, IsTyped DEF Typed
  <2> QED BY Zenon, <1>e, <2>1, <2>2, IsWinners DEF Winners
<1>6. Events'
  <2>1. \A g \in Fds : reg'[g] = reg[g] \/ reg'[g] = NULL
    BY Zenon, <1>a, <1>c, IsTyped DEF Typed
  <2>2. \A g \in Fds : pend'[g] # {} => reg'[g] # NULL
    <3>1. \A g \in Fds : pend[g] # {} => reg[g] # NULL
      BY Zenon, IsEvents DEF Events
    <3>2. \A g \in Fds : pend'[g] = {} \/ (pend'[g] = pend[g] /\ reg'[g] = reg[g])
      BY Zenon, <1>a, <1>c, IsTyped DEF Typed
    <3> QED BY Zenon, <3>1, <3>2
  <2>3. \A g \in Fds : reg'[g] # NULL => reg[g] # desc[tcur] \/ done' = done
    <3>1. CASE ~done[desc[tcur]]
      <4>1. /\ reg'[fd[desc[tcur]]] = NULL
            /\ \A g \in Fds : g # fd[desc[tcur]] => reg'[g] = reg[g]
        BY Zenon, <1>a, <1>c, <3>1, IsTyped DEF Typed
      <4> QED BY Zenon, <4>1, IsEvents DEF Events
    <3> QED BY Zenon, <1>c, <3>1
  <2>4. ASSUME NEW g \in Fds, reg'[g] # NULL, Registered(wait[reg[g]])
        PROVE  Registered(wait[reg[g]])'
    <3>1. reg[g] \in live /\ reg[g] \in Descs /\ desc[wait[reg[g]]] = reg[g]
      BY Zenon, <2>1, <2>4, IsTyped, IsOwners, IsEvents DEF Typed, Owners, Events
    <3>2. done'[reg[g]] = done[reg[g]]
      BY Zenon, <1>d, <2>3, <2>4, <3>1
    <3>3. reg'[g] = reg[g] /\ wait' = wait
      BY Zenon, <1>e, <2>1, <2>4
    <3> QED BY Zenon, <1>e, <2>4, <3>1, <3>2, <3>3 DEF Registered
  <2> QED BY Zenon, <1>d, <1>e, <2>1, <2>2, <2>4, IsOwners, IsEvents, IsTyped, EventDescs,
         EventsFrame
<1>7. Counts'
  <2>1. \A v \in Waiters : HasDeadline(v)' <=> HasDeadline(v)
    BY Zenon, <1>e DEF HasDeadline
  <2>2. CASE done[desc[tcur]]
    BY Zenon, <1>c, <1>e, <2>1, <2>2, IsCounts, RegisteredSame, CountsFrame
  <2>3. CASE ~done[desc[tcur]]
    <3>1. /\ \A a \in Descs : a # desc[tcur] => count'[a] = count[a]
          /\ count'[desc[tcur]] = count[desc[tcur]] - 1 /\ done'[desc[tcur]]
      BY Zenon, <1>a, <1>c, <2>3, IsTyped DEF Typed
    <3>2. PICK c \in Waiters : c = tcur
      BY Zenon, <1>a
    <3>3. Registered(c) /\ ~Registered(c)'
      BY Zenon, <1>a, <1>e, <1>s, <2>3, <3>1, <3>2 DEF Registered
    <3> SUFFICES ASSUME NEW v \in Waiters, desc[v] # NULL
                 PROVE  (count[desc[v]] = 1 + One(Registered(v)) + One(HasDeadline(v)))'
      BY Zenon, <1>e DEF Counts
    <3>4. count[desc[v]] = 1 + One(Registered(v)) + One(HasDeadline(v))
      BY Zenon, IsCounts DEF Counts
    <3>5. One(HasDeadline(v))' = One(HasDeadline(v)) /\ desc'[v] = desc[v]
      BY Zenon, <1>e, <2>1 DEF One
    <3>6. CASE v = c
      <4>1. One(Registered(v)) = 1 /\ One(Registered(v))' = 0
        BY Zenon, <3>3, <3>6 DEF One
      <4>2. One(HasDeadline(v)) \in {0, 1}
        BY Zenon DEF One
      <4>3. count'[desc[v]] = count[desc[v]] - 1
        BY Zenon, <3>1, <3>2, <3>6
      <4> QED BY <3>4, <3>5, <4>1, <4>2, <4>3
    <3>7. CASE v # c
      <4>1. desc[v] \in Descs /\ desc[v] # desc[tcur]
        BY Zenon, <1>a, <3>2, <3>7, OwnersIs
      <4>2. done'[desc[v]] = done[desc[v]]
        BY Zenon, <1>d, <4>1
      <4>3. Registered(v)' <=> Registered(v)
        BY Zenon, <1>e, <4>2 DEF Registered
      <4>4. One(Registered(v))' = One(Registered(v))
        BY Zenon, <4>3 DEF One
      <4> QED BY Zenon, <3>1, <3>4, <3>5, <4>1, <4>4
    <3> QED BY Zenon, <3>6, <3>7
  <2> QED BY Zenon, <2>2, <2>3
<1> QED BY Zenon, <1>1, <1>2, <1>3, <1>4, <1>5, <1>6, <1>7 DEF NInv

\* The wake-up by __coroc_netpoll_timeout keeps the invariant.
LEMMA TimeoutWakeNInv ==
  ASSUME NInv, TimeoutWake
  PROVE  NInv'
<1>e. /\ UNCHANGED <<live, count, done, fd, wait, reg, pend, desc, timed, armed, batch, gen,
                     ppc, cur>>
      /\ wpc[tcur] = "wait" /\ wpc'[tcur] = "ready"
      /\ \A v \in Waiters : v # tcur => wpc'[v] = wpc[v]
  <2>1. tcur \in Waiters /\ wait[desc[tcur]] = tcur /\ wpc[tcur] = "wait"
    BY Zenon, IsTyped, IsOwners, IsDeadlines, IsWinners DEF TimeoutWake, Typed, Owners,
       Deadlines, Winners
  <2>2. wpc' = [wpc EXCEPT ![tcur] = "ready"]
    BY Zenon, <2>1 DEF TimeoutWake, Goto
  <2>3. UNCHANGED <<live, count, done, fd, wait, reg, pend, desc, timed, armed, batch, gen, ppc,
                    cur>>
    BY Zenon DEF TimeoutWake, dvars, epoll, pvars, history
  <2> QED BY Zenon, <2>1, <2>2, <2>3, IsTyped DEF Typed
<1>r. \A v \in Waiters : Registered(v)' <=> Registered(v)
  BY Zenon, <1>e, RegisteredSame
<1>1. Typed'
  BY Zenon, IsTyped DEF TimeoutWake, Goto, dvars, epoll, pvars, history, Typed
<1>2. Owners'
  BY Zenon, <1>e, IsOwners, OwnersFrame
<1>3. Stages'
  BY IsTyped, IsOwners, IsStages, IsDeadlines, IsWinners DEF TimeoutWake, Goto, dvars, Typed,
     Owners, Stages, Deadlines, Winners
<1>4. Deadlines'
  BY Zenon, IsTyped, IsDeadlines DEF TimeoutWake, Goto, Typed, Deadlines
<1>5. Winners'
  BY IsTyped, IsOwners, IsDeadlines, IsWinners DEF TimeoutWake, Goto, dvars, pvars, Typed, Owners,
     Deadlines, Winners
<1>6. Events'
  <2>1. \A g \in Fds : pend'[g] # {} => reg'[g] # NULL
    BY Zenon, <1>e, IsEvents DEF Events
  <2>2. \A g \in Fds : reg[g] # NULL => wait[reg[g]] \in Waiters
    BY Zenon, IsOwners, IsEvents DEF Owners, Events
  <2> QED BY Zenon, <1>e, <1>r, <2>1, <2>2, IsOwners, IsEvents, IsTyped, EventDescs, EventsFrame
<1>7. Counts'
  <2>1. \A v \in Waiters : desc[v] # NULL => (HasDeadline(v)' <=> HasDeadline(v))
    BY Zenon, <1>e, IsStages, IsDeadlines DEF HasDeadline, Stages, Deadlines
  <2> QED BY Zenon, <1>e, <1>r, <2>1, IsCounts, CountsFrame
<1> QED BY Zenon, <1>1, <1>2, <1>3, <1>4, <1>5, <1>6, <1>7 DEF NInv

\* The reference that __coroc_netpoll_timeout gives up keeps the invariant.
LEMMA TimeoutPutNInv ==
  ASSUME NInv, TimeoutPut
  PROVE  NInv'
<1>a. /\ tcur \in Waiters /\ desc[tcur] \in Descs /\ HasDeadline(tcur)
  BY Zenon, IsTyped, IsOwners, IsDeadlines DEF TimeoutPut, Typed, Owners, Deadlines, HasDeadline
<1>b. live' = live
  <2>1. count[desc[tcur]] # 1
    <3> QED BY IsCounts, <1>a, NetpollAssumption DEF Counts, One
  <2> QED BY Zenon, <2>1 DEF TimeoutPut, Release
<1>e. UNCHANGED <<done, fd, wait, reg, pend, wpc, desc, timed, batch, gen, ppc, cur>>
  BY Zenon DEF TimeoutPut, epoll, wvars, pvars, history
<1>r. \A v \in Waiters : Registered(v)' <=> Registered(v)
  BY Zenon, <1>e, RegisteredSame
<1>1. Typed'
  BY IsTyped, IsOwners, IsStages, IsDeadlines, IsCounts DEF TimeoutPut, Release, epoll, wvars,
     pvars, history, Typed, Owners, Stages, Deadlines, Counts, One
<1>2. Owners'
  BY Zenon, <1>e, <1>b, IsOwners, OwnersFrame
<1>3. Stages'
  BY Zenon, IsStages DEF TimeoutPut, wvars, Stages
<1>4. Deadlines'
  BY Zenon, IsDeadlines DEF TimeoutPut, wvars, Deadlines
<1>5. Winners'
  BY Zenon, IsWinners, <1>b DEF TimeoutPut, wvars, pvars, Winners
<1>6. Events'
  <2>1. \A g \in Fds : pend'[g] # {} => reg'[g] # NULL
    BY Zenon, <1>e, IsEvents DEF Events
  <2>2. \A g \in Fds : reg[g] # NULL => wait[reg[g]] \in Waiters
    BY Zenon, IsOwners, IsEvents DEF Owners, Events
  <2> QED BY Zenon, <1>e, <1>b, <1>r, <2>1, <2>2, IsOwners, IsEvents, IsTyped, EventDescs,
             EventsFrame
<1>7. Counts'
  BY IsTyped, IsOwners, IsDeadlines, IsCounts DEF TimeoutPut, Release, epoll, wvars, pvars, Typed,
     Owners, Deadlines, Counts, Registered, HasDeadline, One
<1> QED BY Zenon, <1>1, <1>2, <1>3, <1>4, <1>5, <1>6, <1>7 DEF NInv

\* A VPU that fetches events with epoll_wait keeps the invariant.
LEMMA PollNInv ==
  ASSUME NInv, NEW p \in Pollers, Poll(p)
  PROVE  NInv'
<1>1. Typed'
  BY IsTyped, IsEvents DEF Poll, PGoto, dvars, wvars, tvars, history, Typed, Events
<1>2. Owners'
  BY Zenon, IsOwners DEF Poll, dvars, wvars, Owners
<1>3. Stages'
  BY Zenon, IsStages DEF Poll, dvars, wvars, Stages
<1>4. Deadlines'
  BY Zenon, IsDeadlines DEF Poll, wvars, tvars, Deadlines
<1>5. Winners'
  BY IsWinners DEF Poll, PGoto, dvars, wvars, tvars, Winners
<1>6. Events'
  BY IsTyped, IsEvents DEF Poll, PGoto, dvars, wvars, history, Typed, Events, Registered
<1>7. Counts'
  BY IsCounts DEF Poll, PGoto, dvars, wvars, tvars, Counts, Registered, HasDeadline, One
<1> QED BY Zenon, <1>1, <1>2, <1>3, <1>4, <1>5, <1>6, <1>7 DEF NInv

\* The compare-and-swap of __coroc_netpoll_polling for the next event keeps the invariant.
LEMMA CheckNInv ==
  ASSUME NInv, NEW p \in Pollers, Check(p)
  PROVE  NInv'
<1>a. PICK e \in batch[p] :
        /\ batch' = [batch EXCEPT ![p] = @ \ {e}]
        /\ \/ /\ done[e.desc]
              /\ UNCHANGED <<done, mode, ppc, cur, pmode, carried, stale>>
           \/ /\ ~done[e.desc] /\ gen[e.desc] = e.gen
              /\ done' = [done EXCEPT ![e.desc] = TRUE]
              /\ mode' = [mode EXCEPT ![e.desc] = ModeOf(pmode[p], e.desc, e.ev)]
              /\ pmode' = [pmode EXCEPT ![p] = ModeOf(pmode[p], e.desc, e.ev)]
              /\ cur' = [cur EXCEPT ![p] = e.desc]
              /\ ppc' = [ppc EXCEPT ![p] = "rem"]
              /\ carried' = IF pmode[p] = {} THEN carried ELSE carried \cup {wait[e.desc]}
              /\ UNCHANGED stale
           \/ /\ ~done[e.desc] /\ stale' = TRUE
              /\ UNCHANGED <<done, mode, ppc, cur, pmode, carried>>
  BY Zenon DEF Check, PGoto, EventWins
<1>u. /\ ppc[p] = "check" /\ cur[p] = NULL
      /\ UNCHANGED <<live, count, fd, wait, lock, reg, want, level, pend, wpc, desc, timed,
                     res, armed, tpc, tcur, gen, clash, expired>>
  BY Zenon, IsWinners DEF Check, epoll, wvars, tvars, Winners
<1>d. e \in [desc : Descs, ev : SUBSET Bits, gen : Nat]
  BY Zenon, IsTyped DEF Typed
<1>w. ~done[e.desc] => e.desc \in live /\ wait[e.desc] \in Waiters
  BY Zenon, IsOwners, <1>d DEF Owners
\* The event that wins finds the waiter registered and not yet woken.
<1>v. ~done[e.desc] /\ gen[e.desc] = e.gen =>
        /\ wpc[wait[e.desc]] \in {"deadline", "suspend", "wait"}
        /\ \A q \in Pollers : cur[q] # e.desc
  BY IsTyped, IsOwners, IsStages, IsWinners, IsEvents, NetpollAssumption DEF Typed, Owners,
     Stages, Winners, Events
<1>x. e.desc \in Descs
  BY Zenon, <1>d
<1>m. \A a \in Descs : (done[a] => done'[a]) /\ (a # e.desc => done'[a] = done[a])
  BY Zenon, IsTyped, <1>a, <1>x DEF Typed
<1>r. \A v \in Waiters : desc[v] # NULL => (Registered(v)' <=> Registered(v))
  <2>1. CASE done' = done /\ ppc' = ppc /\ cur' = cur
    BY Zenon, <1>u, <2>1, RegisteredSame
  <2>2. CASE /\ ~done[e.desc] /\ gen[e.desc] = e.gen
             /\ cur' = [cur EXCEPT ![p] = e.desc] /\ ppc' = [ppc EXCEPT ![p] = "rem"]
    <3>1. /\ \A q \in Pollers : q # p => cur'[q] = cur[q] /\ ppc'[q] = ppc[q]
          /\ cur'[p] = e.desc /\ ppc'[p] = "rem"
      BY Zenon, <2>2, IsTyped DEF Typed
    <3> TAKE v \in Waiters
    <3>2. CASE desc[v] = e.desc
      <4>1. wait[e.desc] = v
        BY Zenon, <1>x, <3>2, NullApart, OwnersIs
      <4>2. wpc[v] \notin {"run", "add"}
        BY Zenon, <1>v, <2>2, <4>1
      <4> QED BY Zenon, <1>u, <2>2, <3>1, <3>2, <4>2 DEF Registered
    <3>3. CASE desc[v] # e.desc
      <4>1. (\E q \in Pollers : ppc'[q] = "rem" /\ cur'[q] = desc[v])
              <=> (\E q \in Pollers : ppc[q] = "rem" /\ cur[q] = desc[v])
        BY Zenon, <1>u, <3>1, <3>3
      <4>2. desc[v] # NULL => desc[v] \in Descs
        BY Zenon, IsTyped DEF Typed
      <4> QED BY Zenon, <1>m, <1>u, <3>3, <4>1, <4>2 DEF Registered
    <3> QED BY Zenon, <3>2, <3>3
  <2> QED BY Zenon, <1>a, <2>1, <2>2
<1>1. Typed'
  <2>1. ModeOf(pmode[p], e.desc, e.ev) \in SUBSET Bits
    BY IsTyped DEF Typed, ModeOf
  <2>2. batch' \in [Pollers -> SUBSET [desc : Descs, ev : SUBSET Bits, gen : Nat]]
    BY Zenon, IsTyped, <1>a DEF Typed
  <2>3. carried' \subseteq Waiters
    BY IsTyped, <1>a, <1>w DEF Typed
  <2>4. done' \in [Descs -> BOOLEAN] /\ stale' \in BOOLEAN
    BY Zenon, IsTyped, <1>a DEF Typed
  <2>m. mode' \in [Descs -> SUBSET Bits] /\ pmode' \in [Pollers -> SUBSET Bits]
    <3>1. PICK s \in SUBSET Bits : s = ModeOf(pmode[p], e.desc, e.ev)
      BY Zenon, <2>1
    <3>2. mode' = mode \/ mode' = [mode EXCEPT ![e.desc] = s]
      BY Zenon, <1>a, <3>1
    <3>3. pmode' = pmode \/ pmode' = [pmode EXCEPT ![p] = s]
      BY Zenon, <1>a, <3>1
    <3>4. mode' \in [Descs -> SUBSET Bits]
      BY Zenon, IsTyped, <3>2 DEF Typed
    <3>5. pmode' \in [Pollers -> SUBSET Bits]
      BY Zenon, IsTyped, <3>3 DEF Typed
    <3> QED BY Zenon, <3>4, <3>5
  <2>5. /\ ppc' \in [Pollers -> {"idle", "check", "rem", "wake"}]
        /\ cur' \in [Pollers -> Descs \cup {NULL}]
    <3>1. e.desc \in Descs
      BY Zenon, <1>d
    <3>2. ppc' = ppc \/ ppc' = [ppc EXCEPT ![p] = "rem"]
      BY Zenon, <1>a
    <3>3. cur' = cur \/ cur' = [cur EXCEPT ![p] = e.desc]
      BY Zenon, <1>a
    <3> QED BY Zenon, IsTyped, <3>1, <3>2, <3>3 DEF Typed
  <2> QED BY Zenon, IsTyped, <1>u, <2>2, <2>3, <2>4, <2>m, <2>5 DEF Typed
<1>2. Owners'
  BY Zenon, <1>m, <1>u, IsOwners, OwnersFrame
<1>3. Stages'
  <2>1. \A v \in Waiters : wpc[v] \in {"add", "ready", "finish"} => desc[v] \in Descs
    BY Zenon, IsTyped, IsOwners DEF Typed, Owners
  <2>2. ASSUME NEW v \in Waiters, wpc[v] = "add"
        PROVE  done'[desc[v]] = done[desc[v]]
    <3>1. desc[v] = e.desc /\ ~done[e.desc] /\ gen[e.desc] = e.gen => FALSE
      BY Zenon, <1>v, <1>w, <2>2, IsOwners DEF Owners
    <3> QED BY Zenon, <1>a, <1>m, <2>1, <2>2, <3>1
  <2> QED BY Zenon, <1>m, <1>u, <2>1, <2>2, IsStages DEF Stages
<1>4. Deadlines'
  BY Zenon, IsDeadlines, <1>u DEF Deadlines
<1>5. Winners'
  <2>1. CASE done' = done /\ ppc' = ppc /\ cur' = cur
    BY Zenon, IsWinners, <1>u, <2>1 DEF Winners
  <2>2. CASE /\ ~done[e.desc] /\ gen[e.desc] = e.gen
             /\ done' = [done EXCEPT ![e.desc] = TRUE]
             /\ cur' = [cur EXCEPT ![p] = e.desc] /\ ppc' = [ppc EXCEPT ![p] = "rem"]
    <3>1. /\ \A q \in Pollers : q # p => cur'[q] = cur[q] /\ ppc'[q] = ppc[q]
          /\ cur'[p] = e.desc /\ ppc'[p] = "rem" /\ e.desc # NULL
          /\ done'[e.desc] /\ \A x \in Descs : done[x] => done'[x]
      <4>1. e.desc \in Descs /\ e.desc # NULL
        BY Zenon, <1>d, NetpollAssumption
      <4> QED BY Zenon, <2>2, <4>1, IsTyped DEF Typed
    <3>2. \A q \in Pollers : cur[q] # NULL => cur[q] \in Descs
      BY Zenon, IsTyped DEF Typed
    <3>3. tpc = "wake" => desc[tcur] \in Descs /\ desc[tcur] # e.desc
      BY Zenon, IsTyped, IsOwners, IsDeadlines, IsWinners, <2>2 DEF Typed, Owners, Deadlines,
         Winners
    <3>4. \A q \in Pollers : cur'[q] # NULL <=> ppc'[q] \in {"rem", "wake"}
      BY Zenon, <3>1, IsWinners DEF Winners
    <3>5. \A q \in Pollers : cur'[q] # NULL =>
            /\ cur'[q] \in live' /\ done'[cur'[q]]
            /\ wpc'[wait'[cur'[q]]] \in {"deadline", "suspend", "wait"}
            /\ ppc'[q] = "wake" => wpc'[wait'[cur'[q]]] = "wait"
      <4>1. /\ cur'[p] \in live' /\ done'[cur'[p]]
            /\ wpc'[wait'[cur'[p]]] \in {"deadline", "suspend", "wait"} /\ ppc'[p] # "wake"
        <5>1. e.desc \in live /\ wpc[wait[e.desc]] \in {"deadline", "suspend", "wait"}
          BY Zenon, <1>w, <1>v, <2>2
        <5>2. live' = live /\ wpc' = wpc /\ wait' = wait
          BY Zenon, <1>u
        <5>3. cur'[p] = e.desc /\ ppc'[p] = "rem" /\ done'[e.desc]
          BY Zenon, <3>1
        <5> QED BY Zenon, <5>1, <5>2, <5>3
      <4>2. \A q \in Pollers : q # p => cur'[q] = cur[q] /\ ppc'[q] = ppc[q]
        BY Zenon, <3>1
      <4>3. \A q \in Pollers : cur[q] # NULL =>
              /\ cur[q] \in live' /\ done'[cur[q]]
              /\ wpc'[wait'[cur[q]]] \in {"deadline", "suspend", "wait"}
              /\ ppc[q] = "wake" => wpc'[wait'[cur[q]]] = "wait"
        BY Zenon, <1>u, <3>1, <3>2, IsWinners DEF Winners
      <4> QED BY Zenon, <4>1, <4>2, <4>3
    <3>6. \A q, r \in Pollers : q # r /\ cur'[q] # NULL => cur'[q] # cur'[r]
      <4>1. \A q \in Pollers : cur[q] # e.desc
        BY Zenon, <1>v, <2>2
      <4>2. \A q \in Pollers : q # p => cur'[q] # cur'[p]
        BY Zenon, <3>1, <4>1
      <4>3. \A q, r \in Pollers : q # r /\ cur[q] # NULL => cur[q] # cur[r]
        BY Zenon, IsWinners DEF Winners
      <4>4. \A q \in Pollers : q # p => cur'[q] = cur[q]
        BY Zenon, <3>1
      <4> QED BY Zenon, <4>2, <4>3, <4>4
    <3>7. tpc' = "wake" => /\ done'[desc'[tcur']] /\ wpc'[tcur'] = "wait"
                           /\ \A q \in Pollers : cur'[q] # desc'[tcur']
      <4>1. tpc = "wake" => /\ done[desc[tcur]] /\ wpc[tcur] = "wait"
                            /\ \A q \in Pollers : cur[q] # desc[tcur]
        BY Zenon, IsWinners DEF Winners
      <4> QED BY Zenon, <1>u, <3>1, <3>3, <4>1
    <3> QED BY Zenon, <3>4, <3>5, <3>6, <3>7 DEF Winners
  <2> QED BY Zenon, <1>a, <2>1, <2>2
<1>6. Events'
  <2>1. \A q \in Pollers : batch'[q] \subseteq batch[q]
    BY Zenon, IsTyped, <1>a DEF Typed
  <2>2. \A g \in Fds : pend'[g] # {} => reg'[g] # NULL
    BY Zenon, <1>u, IsEvents DEF Events
  <2>3. \A g \in Fds : reg[g] # NULL => wait[reg[g]] \in Waiters /\ desc[wait[reg[g]]] # NULL
    BY Zenon, IsOwners, IsEvents DEF Owners, Events
  <2> QED BY Zenon, <1>m, <1>r, <1>u, <2>1, <2>2, <2>3, IsOwners, IsEvents, IsTyped, EventDescs,
         EventsFrame
<1>7. Counts'
  <2>1. \A v \in Waiters : HasDeadline(v)' <=> HasDeadline(v)
    BY Zenon, <1>u DEF HasDeadline
  <2> QED BY Zenon, <1>r, <1>u, <2>1, IsCounts, CountsFrame
<1> QED BY Zenon, <1>1, <1>2, <1>3, <1>4, <1>5, <1>6, <1>7 DEF NInv

\* The removal from epoll in coroc_netpoll_wakeup keeps the invariant.
LEMMA UnregisterNInv ==
  ASSUME NInv, NEW p \in Pollers, Unregister(p)
  PROVE  NInv'


<1>3. Stages'
  BY Zenon, IsStages DEF Unregister, wvars, Stages
<1>4. Deadlines'
  BY Zenon, IsDeadlines DEF Unregister, wvars, tvars, Deadlines
<1>a. /\ cur[p] \in live /\ cur[p] \in Descs /\ cur[p] # NULL /\ ppc[p] = "rem" /\ done[cur[p]]
      /\ wait[cur[p]] \in Waiters /\ desc[wait[cur[p]]] = cur[p] /\ fd[cur[p]] \in Fds
  <2>1. ppc[p] = "rem" /\ cur[p] # NULL /\ cur[p] \in live /\ done[cur[p]]
    BY Zenon, IsWinners DEF Unregister, Winners
  <2> QED BY Zenon, <2>1, OwnersIs
<1>c. wpc[wait[cur[p]]] = "wait"
  <2>1. lock[desc[wait[cur[p]]]] # wait[cur[p]]
    BY Zenon, <1>a, NetpollAssumption DEF Unregister
  <2>2. wpc[wait[cur[p]]] \in {"deadline", "suspend", "wait"}
    BY Zenon, <1>a, IsWinners DEF Winners
  <2> QED BY Zenon, <1>a, <2>1, <2>2, IsStages DEF Stages
<1>g. Registered(wait[cur[p]])
  BY Zenon, <1>a, <1>c DEF Registered
<1>n. count[cur[p]] \in Nat /\ count[cur[p]] >= 2
  <2>1. count[cur[p]] = 1 + One(Registered(wait[cur[p]])) + One(HasDeadline(wait[cur[p]]))
    BY Zenon, <1>a, IsCounts DEF Counts
  <2>2. One(Registered(wait[cur[p]])) = 1
    BY Zenon, <1>g DEF One
  <2>3. One(HasDeadline(wait[cur[p]])) \in {0, 1}
    BY Zenon DEF One
  <2> QED BY <2>1, <2>2, <2>3
<1>b. live' = live
  <2>1. count[cur[p]] # 1
    BY <1>n
  <2> QED BY Zenon, <2>1 DEF Unregister, Rem, Release
<1>e. /\ UNCHANGED <<done, mode, fd, wait, lock, want, level, wpc, desc, timed, res, armed, tpc,
                     tcur,
                     batch, cur, pmode, gen, clash, expired, carried, stale>>
      /\ ppc' = [ppc EXCEPT ![p] = "wake"]
      /\ count' = [count EXCEPT ![cur[p]] = @ - 1]
      /\ reg' = [reg EXCEPT ![fd[cur[p]]] = NULL]
      /\ pend' = [pend EXCEPT ![fd[cur[p]]] = {}]
  BY Zenon DEF Unregister, PGoto, Rem, Release, wvars, tvars, history
<1>f. /\ ppc'[p] = "wake" /\ \A q \in Pollers : q # p => ppc'[q] = ppc[q]
      /\ reg'[fd[cur[p]]] = NULL /\ \A g \in Fds : g # fd[cur[p]] => reg'[g] = reg[g]
      /\ pend'[fd[cur[p]]] = {} /\ \A g \in Fds : g # fd[cur[p]] => pend'[g] = pend[g]
      /\ \A a \in Descs : a # cur[p] => count'[a] = count[a]
      /\ count'[cur[p]] = count[cur[p]] - 1
  BY Zenon, <1>a, <1>e, IsTyped DEF Typed
<1>r. \A v \in Waiters : v # wait[cur[p]] /\ desc[v] # NULL => (Registered(v)' <=> Registered(v))
  <2> TAKE v \in Waiters
  <2>1. v # wait[cur[p]] /\ desc[v] # NULL => desc[v] # cur[p]
    BY Zenon, IsOwners DEF Owners
  <2>2. desc[v] # cur[p] => ((\E q \in Pollers : ppc'[q] = "rem" /\ cur[q] = desc[v])
              <=> (\E q \in Pollers : ppc[q] = "rem" /\ cur[q] = desc[v]))
    BY Zenon, <1>f
  <2> QED BY Zenon, <1>e, <2>1, <2>2 DEF Registered
<1>z. ~Registered(wait[cur[p]])'
  <2>1. \A q \in Pollers : ppc'[q] = "rem" => cur[q] # cur[p]
    BY Zenon, <1>a, <1>f, IsWinners DEF Winners
  <2>2. wait'[cur'[p]] = wait[cur[p]]
    BY Zenon, <1>e
  <2> QED BY Zenon, <1>a, <1>e, <2>1, <2>2 DEF Registered
<1>1. Typed'
  <2>1. count' \in [Descs -> Nat]
    <3>1. count[cur[p]] - 1 \in Nat
      BY <1>n
    <3> QED BY Zenon, <1>e, <3>1, IsTyped DEF Typed
  <2>2. /\ reg' \in [Fds -> Descs \cup {NULL}] /\ pend' \in [Fds -> SUBSET Bits]
        /\ ppc' \in [Pollers -> {"idle", "check", "rem", "wake"}]
    BY Zenon, <1>e, IsTyped DEF Typed
  <2> QED BY Zenon, <1>b, <1>e, <2>1, <2>2, IsTyped DEF Typed
<1>2. Owners'
  BY Zenon, <1>b, <1>e, IsOwners, OwnersFrame
<1>5. Winners'
  <2>1. \A q \in Pollers : cur[q] # NULL <=> ppc'[q] \in {"rem", "wake"}
    BY Zenon, <1>a, <1>f, IsWinners DEF Winners
  <2>2. \A q \in Pollers : cur[q] # NULL /\ ppc'[q] = "wake" => wpc[wait[cur[q]]] = "wait"
    BY Zenon, <1>c, <1>f, IsWinners DEF Winners
  <2> QED BY Zenon, <1>b, <1>e, <2>1, <2>2, IsWinners DEF Winners
<1>6. Events'
  <2>1. \A g \in Fds : pend'[g] # {} => reg'[g] # NULL
    <3>1. \A g \in Fds : pend[g] # {} => reg[g] # NULL
      BY Zenon, IsEvents DEF Events
    <3> QED BY Zenon, <1>f, <3>1
  <2>2. ASSUME NEW g \in Fds, reg'[g] # NULL
        PROVE  /\ wait'[reg'[g]] = wait[reg[g]] /\ wait[reg[g]] \in Waiters
               /\ desc[wait[reg[g]]] # NULL /\ wait[reg[g]] # wait[cur[p]]
    <3>1. g # fd[cur[p]] /\ reg'[g] = reg[g] /\ reg[g] # NULL
      BY Zenon, <1>f, <2>2
    <3>2. fd[reg[g]] = g /\ wait[reg[g]] \in Waiters /\ desc[wait[reg[g]]] = reg[g]
      BY Zenon, <3>1, RegIs
    <3> QED BY Zenon, <1>a, <1>e, <3>1, <3>2
  <2>4. ASSUME NEW g \in Fds, reg'[g] # NULL, Registered(wait[reg[g]])
        PROVE  Registered(wait[reg[g]])'
    BY Zenon, <1>r, <2>2, <2>4
  <2>5. \A g \in Fds : reg'[g] = reg[g] \/ reg'[g] = NULL
    BY Zenon, <1>f
  <2> QED BY Zenon, <1>b, <1>e, <2>1, <2>4, <2>5, IsOwners, IsEvents, IsTyped, EventDescs,
         EventsFrame
<1>7. Counts'
  <2>1. \A v \in Waiters : HasDeadline(v)' <=> HasDeadline(v)
    BY Zenon, <1>e DEF HasDeadline
  <2> SUFFICES ASSUME NEW v \in Waiters, desc[v] # NULL
               PROVE  (count[desc[v]] = 1 + One(Registered(v)) + One(HasDeadline(v)))'
    BY Zenon, <1>e DEF Counts
  <2>2. count[desc[v]] = 1 + One(Registered(v)) + One(HasDeadline(v))
    BY Zenon, IsCounts DEF Counts
  <2>3. One(HasDeadline(v))' = One(HasDeadline(v)) /\ desc'[v] = desc[v]
    BY Zenon, <1>e, <2>1 DEF One
  <2>4. CASE v = wait[cur[p]]
    <3>1. One(Registered(v)) = 1 /\ One(Registered(v))' = 0 /\ desc[v] = cur[p]
      <4>1. wait'[cur'[p]] = wait[cur[p]]
        BY Zenon, <1>e
      <4> QED BY Zenon, <1>a, <1>g, <1>z, <2>4, <4>1 DEF One
    <3>2. One(HasDeadline(v)) \in {0, 1}
      BY Zenon DEF One
    <3> HIDE DEF One
    <3> QED BY <1>f, <1>n, <2>2, <2>3, <3>1, <3>2
  <2>5. CASE v # wait[cur[p]]
    <3>1. One(Registered(v))' = One(Registered(v))
      BY Zenon, <1>r, <2>5 DEF One
    <3>2. desc[v] \in Descs /\ desc[v] # cur[p]
      BY Zenon, <2>5, IsTyped, IsOwners DEF Typed, Owners
    <3> QED BY Zenon, <1>f, <2>2, <2>3, <3>1, <3>2
  <2> QED BY Zenon, <2>4, <2>5
<1> QED BY Zenon, <1>1, <1>2, <1>3, <1>4, <1>5, <1>6, <1>7 DEF NInv

\* The wake-up by coroc_netpoll_wakeup keeps the invariant.
LEMMA WakeNInv ==
  ASSUME NInv, NEW p \in Pollers, Wake(p)
  PROVE  NInv'
<1>e. /\ UNCHANGED <<live, count, done, fd, wait, reg, pend, desc, timed, armed, batch, gen>>
      /\ wait[cur[p]] \in Waiters /\ wpc[wait[cur[p]]] = "wait" /\ wpc'[wait[cur[p]]] = "ready"
      /\ \A v \in Waiters : v # wait[cur[p]] => wpc'[v] = wpc[v]
      /\ ppc[p] = "wake" /\ ppc'[p] = "check" /\ cur'[p] = NULL
      /\ \A q \in Pollers : q # p => ppc'[q] = ppc[q] /\ cur'[q] = cur[q]
  <2>1. wait[cur[p]] \in Waiters /\ wpc[wait[cur[p]]] = "wait" /\ ppc[p] = "wake"
    BY Zenon, IsOwners, IsWinners DEF Wake, Owners, Winners
  <2>2. UNCHANGED <<live, count, done, fd, wait, reg, pend, desc, timed, armed, batch, gen>>
    BY Zenon DEF Wake, dvars, epoll, tvars, history
  <2>3. /\ wpc' = [wpc EXCEPT ![wait[cur[p]]] = "ready"]
        /\ ppc' = [ppc EXCEPT ![p] = "check"] /\ cur' = [cur EXCEPT ![p] = NULL]
    BY Zenon DEF Wake, Goto, PGoto
  <2> QED BY Zenon, <2>1, <2>2, <2>3, IsTyped DEF Typed
<1>r. \A v \in Waiters : Registered(v)' <=> Registered(v)
  BY Zenon, <1>e, RegisteredSame
<1>1. Typed'
  BY Zenon, IsTyped DEF Wake, Goto, PGoto, dvars, epoll, tvars, history, Typed
<1>2. Owners'
  BY Zenon, <1>e, IsOwners, OwnersFrame
<1>3. Stages'
  BY IsOwners, IsStages, IsWinners DEF Wake, Goto, dvars, Owners, Stages, Winners
<1>4. Deadlines'
  BY IsDeadlines DEF Wake, Goto, tvars, Deadlines
<1>5. Winners'
  BY IsTyped, IsOwners, IsDeadlines, IsWinners DEF Wake, Goto, PGoto, dvars, tvars, Typed, Owners,
     Deadlines, Winners
<1>6. Events'
  <2>1. \A g \in Fds : pend'[g] # {} => reg'[g] # NULL
    BY Zenon, <1>e, IsEvents DEF Events
  <2>2. \A g \in Fds : reg[g] # NULL => wait[reg[g]] \in Waiters
    BY Zenon, IsOwners, IsEvents DEF Owners, Events
  <2> QED BY Zenon, <1>e, <1>r, <2>1, <2>2, IsOwners, IsEvents, IsTyped, EventDescs, EventsFrame
<1>7. Counts'
  <2>1. \A v \in Waiters : desc[v] # NULL => (HasDeadline(v)' <=> HasDeadline(v))
    BY Zenon, <1>e, IsStages, IsDeadlines DEF HasDeadline, Stages, Deadlines
  <2> QED BY Zenon, <1>e, <1>r, <2>1, IsCounts, CountsFrame
<1> QED BY Zenon, <1>1, <1>2, <1>3, <1>4, <1>5, <1>6, <1>7 DEF NInv

\* A VPU that has handled its last event keeps the invariant.
LEMMA PollEndsNInv ==
  ASSUME NInv, NEW p \in Pollers, PollEnds(p)
  PROVE  NInv'
<1>e. /\ UNCHANGED <<live, count, done, fd, wait, reg, pend, wpc, desc, timed, armed, batch,
                     gen, cur>>
      /\ ppc[p] = "check" /\ ppc'[p] = "idle" /\ \A q \in Pollers : q # p => ppc'[q] = ppc[q]
  BY Zenon, IsTyped DEF PollEnds, PGoto, dvars, epoll, wvars, tvars, history, Typed
<1>r. \A v \in Waiters : Registered(v)' <=> Registered(v)
  BY Zenon, <1>e, RegisteredSame
<1>1. Typed'
  BY Zenon, IsTyped DEF PollEnds, PGoto, dvars, epoll, wvars, tvars, history, Typed
<1>2. Owners'
  BY Zenon, <1>e, IsOwners, OwnersFrame
<1>3. Stages'
  BY Zenon, IsStages DEF PollEnds, dvars, wvars, Stages
<1>4. Deadlines'
  BY Zenon, IsDeadlines DEF PollEnds, wvars, tvars, Deadlines
<1>5. Winners'
  BY IsWinners DEF PollEnds, PGoto, dvars, wvars, tvars, Winners
<1>6. Events'
  <2>1. \A g \in Fds : pend'[g] # {} => reg'[g] # NULL
    BY Zenon, <1>e, IsEvents DEF Events
  <2>2. \A g \in Fds : reg[g] # NULL => wait[reg[g]] \in Waiters
    BY Zenon, IsOwners, IsEvents DEF Owners, Events
  <2> QED BY Zenon, <1>e, <1>r, <2>1, <2>2, IsOwners, IsEvents, IsTyped, EventDescs, EventsFrame
<1>7. Counts'
  <2>1. \A v \in Waiters : desc[v] # NULL => (HasDeadline(v)' <=> HasDeadline(v))
    BY Zenon, <1>e, IsStages, IsDeadlines DEF HasDeadline, Stages, Deadlines
  <2> QED BY Zenon, <1>e, <1>r, <2>1, IsCounts, CountsFrame
<1> QED BY Zenon, <1>1, <1>2, <1>3, <1>4, <1>5, <1>6, <1>7 DEF NInv

\* An event of the kernel keeps the invariant.
LEMMA EdgeNInv ==
  ASSUME NInv, NEW f \in Fds, NEW b \in Bits, Edge(f, b)
  PROVE  NInv'
<1>1. Typed'
  BY IsTyped DEF Edge, dvars, wvars, tvars, pvars, history, Typed
<1>2. Owners'
  BY Zenon, IsOwners DEF Edge, dvars, wvars, Owners
<1>3. Stages'
  BY Zenon, IsStages DEF Edge, dvars, wvars, Stages
<1>4. Deadlines'
  BY Zenon, IsDeadlines DEF Edge, wvars, tvars, Deadlines
<1>5. Winners'
  BY Zenon, IsWinners DEF Edge, dvars, wvars, tvars, pvars, Winners
<1>6. Events'
  BY IsEvents DEF Edge, dvars, wvars, pvars, history, Events, Registered
<1>7. Counts'
  BY Zenon, IsCounts DEF Edge, dvars, wvars, tvars, pvars, Counts, Registered, HasDeadline, One
<1> QED BY Zenon, <1>1, <1>2, <1>3, <1>4, <1>5, <1>6, <1>7 DEF NInv

-----------------------------------------------------------------------------
(* The number of registrations.                                            *)

\* One waiter more or less is one registration more or less.
LEMMA SizeStep ==
  ASSUME SizeExact, NEW w \in Waiters,
         \/ /\ num_op' = num_op
            /\ \A v \in Waiters : Registered(v)' <=> Registered(v)
         \/ /\ num_op' = num_op + 1 /\ ~Registered(w)
            /\ \A v \in Waiters : Registered(v)' <=> (Registered(v) \/ v = w)
         \/ /\ num_op' = num_op - 1 /\ Registered(w)
            /\ \A v \in Waiters : Registered(v)' <=> (Registered(v) /\ v # w)
  PROVE  SizeExact'
<1> DEFINE R == {v \in Waiters : Registered(v)}
<1>1. IsFiniteSet(R) /\ Cardinality(R) \in Nat /\ num_op = Cardinality(R)
  BY Zenon, FS_Subset, FS_CardinalityType, NetpollAssumption DEF SizeExact
<1>2. CASE /\ num_op' = num_op
           /\ \A v \in Waiters : Registered(v)' <=> Registered(v)
  <2>1. {v \in Waiters : Registered(v)'} = R
    BY Zenon, <1>2
  <2> QED BY Zenon, <2>1 DEF SizeExact
<1>3. CASE /\ num_op' = num_op + 1 /\ ~Registered(w)
           /\ \A v \in Waiters : Registered(v)' <=> (Registered(v) \/ v = w)
  <2>1. {v \in Waiters : Registered(v)'} = R \cup {w} /\ w \notin R
    BY Zenon, <1>3
  <2>2. Cardinality(R \cup {w}) = Cardinality(R) + 1
    BY Zenon, <1>1, <2>1, FS_AddElement
  <2> QED BY Zenon, <2>1, <2>2 DEF SizeExact
<1>4. CASE /\ num_op' = num_op - 1 /\ Registered(w)
           /\ \A v \in Waiters : Registered(v)' <=> (Registered(v) /\ v # w)
  <2>1. {v \in Waiters : Registered(v)'} = R \ {w} /\ w \in R
    BY Zenon, <1>4
  <2>2. Cardinality(R \ {w}) = Cardinality(R) - 1
    BY Zenon, <1>1, <2>1, FS_RemoveElement
  <2> QED BY Zenon, <2>1, <2>2 DEF SizeExact
<1> QED BY Zenon, <1>2, <1>3, <1>4

\* The steps that leave the registrations alone.
LEMMA SizeSame ==
  ASSUME SizeExact, num_op' = num_op,
         \A v \in Waiters : Registered(v)' <=> Registered(v)
  PROVE  SizeExact'
<1>1. {v \in Waiters : Registered(v)'} = {v \in Waiters : Registered(v)}
  BY Zenon
<1> QED BY Zenon DEF SizeExact

\* A wait that begins is not registered yet.
LEMMA BeginSize ==
  ASSUME NInv, SizeExact, NEW w \in Waiters, NEW f \in Fds, NEW m \in {{"r"}, {"w"}},
         NEW t \in BOOLEAN, Begin(w, f, m, t)
  PROVE  SizeExact'
<1>1. num_op' = num_op /\ \A v \in Waiters : Registered(v)' <=> Registered(v)
  BY IsOwners DEF Owners, Registered, Begin, Goto, Free, pvars
<1> QED BY Zenon, <1>1, SizeSame

\* __coroc_netpoll_add registers one more waiter and counts it.
LEMMA AddSize ==
  ASSUME NInv, SizeExact, NEW w \in Waiters, Add(w)
  PROVE  SizeExact'
<1>1. /\ num_op' = num_op + 1 /\ ~Registered(w)
      /\ \A v \in Waiters : Registered(v)' <=> (Registered(v) \/ v = w)
  BY Zenon, IsTyped, IsStages DEF Typed, Stages, Registered, Add, Goto, pvars
<1> QED BY Zenon, <1>1, SizeStep

\* The other steps of a waiter, and the expiry of its deadline, register nobody.
LEMMA WaiterSize ==
  ASSUME NInv, SizeExact, NEW w \in Waiters,
         Deadline(w) \/ Suspend(w) \/ DelDeadline(w) \/ Finish(w) \/ Fire(w)
  PROVE  SizeExact'
<1>1. num_op' = num_op
  BY Zenon DEF Deadline, Suspend, DelDeadline, Finish, Fire
<1>2. \A v \in Waiters : Registered(v)' <=> Registered(v)
  <2>1. CASE Deadline(w) \/ Suspend(w) \/ Fire(w)
    BY Zenon, <2>1, IsTyped DEF Typed, Registered, Deadline, Suspend, Fire, Goto, dvars, wvars,
       pvars
  <2>2. CASE DelDeadline(w)
    BY Zenon, <2>2, IsTyped DEF Typed, Registered, DelDeadline, Goto, pvars
  <2>3. CASE Finish(w)
    <3>1. ~Registered(w) /\ ~Registered(w)'
      <4>1. wpc[w] \in {"ready", "finish"} /\ wpc' = [wpc EXCEPT ![w] = "run"]
        BY Zenon, <2>3 DEF Finish, Goto
      <4>2. wpc'[w] = "run"
        BY Zenon, <4>1, IsTyped DEF Typed
      <4>3. desc[w] # NULL /\ done[desc[w]]
        BY Zenon, <4>1, IsOwners, IsStages DEF Owners, Stages
      <4>4. \A q \in Pollers : cur[q] # desc[w]
        <5>1. wait[desc[w]] = w
          BY Zenon, <4>3, OwnersIs
        <5> SUFFICES ASSUME NEW q \in Pollers, cur[q] = desc[w]
                     PROVE  FALSE
          BY Zenon
        <5>2. wpc[wait[cur[q]]] \in {"deadline", "suspend", "wait"}
          BY Zenon, <4>3, IsWinners DEF Winners
        <5> QED BY Zenon, <4>1, <5>1, <5>2
      <4> QED BY Zenon, <4>2, <4>3, <4>4 DEF Registered
    <3>2. \A v \in Waiters : v # w => (Registered(v)' <=> Registered(v))
      BY Zenon, <2>3, IsTyped DEF Typed, Registered, Finish, Goto, pvars
    <3> QED BY Zenon, <3>1, <3>2
  <2> QED BY Zenon, <2>1, <2>2, <2>3
<1> QED BY Zenon, <1>1, <1>2, SizeSame

\* The deadline that wins removes the registration.
LEMMA TimerSize ==
  ASSUME NInv, SizeExact, TimerSteps
  PROVE  SizeExact'
<1>0. tpc # "idle" => tcur \in Waiters /\ desc[tcur] \in Descs /\ wait[desc[tcur]] = tcur
  BY Zenon, IsTyped, IsOwners, IsDeadlines DEF Typed, Owners, Deadlines
<1>1. CASE TimeoutCheck /\ ~done[desc[tcur]]
  <2>1. /\ num_op' = num_op - 1 /\ done' = [done EXCEPT ![desc[tcur]] = TRUE]
        /\ UNCHANGED <<wpc, desc, ppc, cur>> /\ lock[desc[tcur]] = NULL /\ tpc = "check"
    BY Zenon, <1>1 DEF TimeoutCheck, TimeoutWins, Rem, NumLess, wvars, pvars
  <2>7. PICK c \in Waiters : c = tcur
    BY Zenon, <1>0, <2>1
  <2>2. wpc[tcur] \notin {"run", "add"} /\ ~done[desc[tcur]]
    BY Zenon, <1>1, <2>1, IsDeadlines DEF Deadlines
  <2>4. \A p \in Pollers : ppc[p] = "rem" => cur[p] # desc[tcur]
    BY Zenon, <2>2, IsWinners DEF Winners
  <2>5. done'[desc[tcur]]
    BY Zenon, <1>0, <2>1, IsTyped DEF Typed
  <2>6. Registered(c) /\ ~Registered(c)'
    BY Zenon, <2>1, <2>2, <2>4, <2>5, <2>7 DEF Registered
  <2>3. \A v \in Waiters : v # c => (Registered(v)' <=> Registered(v))
    BY <2>1, <2>7, IsOwners DEF Owners, Registered
  <2>8. \A v \in Waiters : Registered(v)' <=> (Registered(v) /\ v # c)
    BY Zenon, <2>3, <2>6
  <2> QED BY Zenon, <2>1, <2>6, <2>8, SizeStep
<1>2. CASE TimeoutCheck /\ done[desc[tcur]]
  <2>1. num_op' = num_op /\ UNCHANGED <<done, wpc, desc, ppc, cur>>
    BY Zenon, <1>2 DEF TimeoutCheck, TimeoutWins, wvars, pvars
  <2> QED BY Zenon, <2>1, SizeSame DEF Registered
<1>3. CASE TimeoutWake
  <2>1. /\ num_op' = num_op /\ wpc' = [wpc EXCEPT ![tcur] = "ready"] /\ wpc[tcur] = "wait"
        /\ UNCHANGED <<done, desc, ppc, cur>>
    BY Zenon, <1>0, <1>3, IsWinners DEF Winners, TimeoutWake, Goto, dvars, pvars
  <2>2. \A v \in Waiters : Registered(v)' <=> Registered(v)
    BY <2>1 DEF Registered
  <2> QED BY Zenon, <2>1, <2>2, SizeSame
<1>4. CASE TimeoutPut
  <2>1. num_op' = num_op /\ UNCHANGED <<done, wpc, desc, ppc, cur>>
    BY Zenon, <1>4 DEF TimeoutPut, wvars, pvars
  <2> QED BY Zenon, <2>1, SizeSame DEF Registered
<1> QED BY Zenon, <1>1, <1>2, <1>3, <1>4 DEF TimerSteps

\* A poller removes the registration after it has won, in a step of its own.
LEMMA PollerSize ==
  ASSUME NInv, SizeExact, NEW p \in Pollers, PollerSteps(p)
  PROVE  SizeExact'
<1>1. CASE Poll(p) \/ PollEnds(p)
  <2>1. num_op' = num_op
    BY Zenon, <1>1 DEF Poll, PollEnds
  <2>2. \A v \in Waiters : Registered(v)' <=> Registered(v)
    <3>1. UNCHANGED <<done, desc, wpc, cur>>
      BY Zenon, <1>1 DEF Poll, PollEnds, dvars, wvars
    <3>2. \A q \in Pollers : ppc'[q] = "rem" <=> ppc[q] = "rem"
      BY Zenon, <1>1, IsTyped DEF Typed, Poll, PollEnds, PGoto
    <3> QED BY Zenon, <3>1, <3>2, RegisteredSame
  <2> QED BY Zenon, <2>1, <2>2, SizeSame
<1>2. CASE Check(p)
  <2>1. num_op' = num_op
    BY Zenon, <1>2 DEF Check
  <2>2. PICK e \in batch[p] :
          \/ UNCHANGED <<done, ppc, cur>>
          \/ /\ ~done[e.desc] /\ gen[e.desc] = e.gen
             /\ done' = [done EXCEPT ![e.desc] = TRUE]
             /\ cur' = [cur EXCEPT ![p] = e.desc] /\ ppc' = [ppc EXCEPT ![p] = "rem"]
    BY Zenon, <1>2 DEF Check, EventWins, PGoto
  <2>3. e.desc \in Descs /\ ppc[p] = "check" /\ UNCHANGED <<wpc, desc>>
    <3>1. ppc[p] = "check" /\ UNCHANGED <<wpc, desc>>
      BY Zenon, <1>2 DEF Check, wvars
    <3> QED BY Zenon, <3>1, IsTyped, EventDescs
  <2>4. \A v \in Waiters : desc[v] # NULL => (Registered(v)' <=> Registered(v))
    <3>1. CASE UNCHANGED <<done, ppc, cur>>
      BY Zenon, <2>3, <3>1, RegisteredSame
    <3>2. CASE /\ ~done[e.desc] /\ done' = [done EXCEPT ![e.desc] = TRUE]
               /\ cur' = [cur EXCEPT ![p] = e.desc] /\ ppc' = [ppc EXCEPT ![p] = "rem"]
      <4>1. /\ \A q \in Pollers : q # p => cur'[q] = cur[q] /\ ppc'[q] = ppc[q]
            /\ cur'[p] = e.desc /\ ppc'[p] = "rem" /\ done'[e.desc]
            /\ \A a \in Descs : a # e.desc => done'[a] = done[a]
        BY Zenon, <2>3, <3>2, IsTyped DEF Typed
      <4> TAKE v \in Waiters
      <4>2. CASE desc[v] = e.desc
        BY Zenon, <2>3, <3>2, <4>1, <4>2 DEF Registered
      <4>3. CASE desc[v] # e.desc
        <5>1. (\E q \in Pollers : ppc'[q] = "rem" /\ cur'[q] = desc[v])
                <=> (\E q \in Pollers : ppc[q] = "rem" /\ cur[q] = desc[v])
          BY Zenon, <2>3, <4>1, <4>3
        <5> QED BY Zenon, <2>3, <4>1, <4>3, <5>1, OwnersIs DEF Registered
      <4> QED BY Zenon, <4>2, <4>3
    <3> QED BY Zenon, <2>2, <3>1, <3>2
  <2>5. \A v \in Waiters : desc[v] = NULL => ~Registered(v) /\ ~Registered(v)'
    BY Zenon, <2>3, IsOwners DEF Owners, Registered
  <2> QED BY Zenon, <2>1, <2>4, <2>5, SizeSame
<1>3. CASE Unregister(p)
  <2>1. /\ num_op' = num_op - 1 /\ ppc[p] = "rem" /\ ppc' = [ppc EXCEPT ![p] = "wake"]
        /\ UNCHANGED <<done, wpc, desc, cur>>
    BY Zenon, <1>3 DEF Unregister, Rem, NumLess, PGoto, wvars
  <2>2. cur[p] \in live /\ wait[cur[p]] \in Waiters /\ desc[wait[cur[p]]] = cur[p]
    BY Zenon, <2>1, IsOwners, IsWinners DEF Owners, Winners
  <2>8. PICK u \in Waiters : u = wait[cur[p]]
    BY Zenon, <2>2
  <2>5. done[cur[p]] /\ wpc[u] \notin {"run", "add"}
    BY Zenon, <2>1, <2>8, IsWinners DEF Winners
  <2>6. Registered(u)
    BY Zenon, <2>1, <2>2, <2>5, <2>8 DEF Registered
  <2>7. \A q \in Pollers : ppc'[q] = "rem" => cur[q] # cur[p]
    BY Zenon, <2>1, IsTyped, IsWinners DEF Typed, Winners
  <2>3. ~Registered(u)'
    BY Zenon, <2>1, <2>2, <2>5, <2>7, <2>8 DEF Registered
  <2>4. \A v \in Waiters : v # u => (Registered(v)' <=> Registered(v))
    BY <2>1, <2>8, IsOwners DEF Owners, Registered
  <2>9. \A v \in Waiters : Registered(v)' <=> (Registered(v) /\ v # u)
    BY Zenon, <2>3, <2>4
  <2> QED BY Zenon, <2>1, <2>6, <2>9, SizeStep
<1>4. CASE Wake(p)
  <2>1. /\ num_op' = num_op /\ ppc[p] = "wake" /\ ppc' = [ppc EXCEPT ![p] = "check"]
        /\ cur' = [cur EXCEPT ![p] = NULL] /\ wpc' = [wpc EXCEPT ![wait[cur[p]]] = "ready"]
        /\ UNCHANGED <<done, desc>>
    BY Zenon, <1>4 DEF Wake, Goto, PGoto, dvars
  <2>2. \A v \in Waiters : Registered(v)' <=> Registered(v)
    BY <2>1, IsWinners DEF Winners, Registered
  <2> QED BY Zenon, <2>1, <2>2, SizeSame
<1> QED BY Zenon, <1>1, <1>2, <1>3, <1>4 DEF PollerSteps

-----------------------------------------------------------------------------
(* What composed specifications need: every kind of step.                  *)

Inv == NInv /\ SizeExact /\ num_op \in Nat

\* The number of registrations is a natural number.
LEMMA SizeNat == ASSUME SizeExact PROVE num_op \in Nat
BY Zenon, FS_Subset, FS_CardinalityType, NetpollAssumption DEF SizeExact

\* Both the invariant and the count hold at first.
LEMMA InitInv == Init => Inv
<1> SUFFICES ASSUME Init PROVE Inv
  BY Zenon
<1>1. {w \in Waiters : Registered(w)} = {}
  BY Zenon DEF Init, Registered
<1>2. SizeExact
  BY Zenon, <1>1, FS_EmptySet DEF SizeExact, Init
<1> QED BY Zenon, <1>2, InitNInv, SizeNat DEF Inv

\* A wait begins.
LEMMA BeginInv ==
  ASSUME Inv, NEW w \in Waiters, NEW f \in Fds, NEW m \in {{"r"}, {"w"}}, NEW t \in BOOLEAN,
         Begin(w, f, m, t)
  PROVE  Inv'
<1>1. NInv' /\ SizeExact'
  BY Zenon, BeginNInv, BeginSize DEF Inv
<1>2. num_op' \in Nat
  BY Zenon DEF Inv, Begin
<1> QED BY Zenon, <1>1, <1>2 DEF Inv

\* A waiter, the timer daemon or a poller goes on.
LEMMA StepInv ==
  ASSUME Inv,
         \/ \E w \in Waiters : WaiterSteps(w) \/ Fire(w)
         \/ TimerSteps
         \/ \E p \in Pollers : PollerSteps(p)
  PROVE  Inv'
<1>0. NInv /\ SizeExact
  BY Zenon DEF Inv
<1>1. ASSUME NEW w \in Waiters, WaiterSteps(w) \/ Fire(w)
      PROVE  NInv' /\ SizeExact'
  BY Zenon, <1>0, <1>1, AddNInv, DeadlineNInv, SuspendNInv, DelDeadlineNInv, FinishNInv, FireNInv,
     AddSize, WaiterSize DEF WaiterSteps
<1>2. ASSUME TimerSteps
      PROVE  NInv' /\ SizeExact'
  BY Zenon, <1>0, <1>2, TimeoutCheckNInv, TimeoutWakeNInv, TimeoutPutNInv, TimerSize DEF
     TimerSteps
<1>3. ASSUME NEW p \in Pollers, PollerSteps(p)
      PROVE  NInv' /\ SizeExact'
  BY Zenon, <1>0, <1>3, PollNInv, CheckNInv, UnregisterNInv, WakeNInv, PollEndsNInv, PollerSize
     DEF PollerSteps
<1>4. NInv' /\ SizeExact'
  BY Zenon, <1>1, <1>2, <1>3
<1>5. num_op' = Cardinality({v \in Waiters : Registered(v)'})
  BY Zenon, <1>4 DEF SizeExact
<1>6. num_op' \in Nat
  <2>1. IsFiniteSet({v \in Waiters : Registered(v)'})
    BY Zenon, FS_Subset, NetpollAssumption
  <2> QED BY Zenon, <1>5, <2>1, FS_CardinalityType
<1> QED BY Zenon, <1>4, <1>6 DEF Inv

\* A file descriptor becomes ready.
LEMMA EdgeInv ==
  ASSUME Inv, NEW f \in Fds, NEW b \in Bits, Edge(f, b)
  PROVE  Inv'
<1>1. NInv'
  BY Zenon, EdgeNInv DEF Inv
<1>2. UNCHANGED <<num_op, wpc, desc, done, ppc, cur>>
  BY Zenon DEF Edge, dvars, wvars, pvars
<1> QED BY Zenon, <1>1, <1>2, SizeSame DEF Inv, Registered

\* Nothing changes but what file descriptors are ready for.
LEMMA LevelInv ==
  ASSUME Inv, level' \in [Fds -> SUBSET Bits],
         UNCHANGED <<dvars, reg, want, pend, num_op, wvars, tvars, pvars, history>>
  PROVE  Inv'
<1>1. Typed' /\ Owners' /\ Stages' /\ Deadlines'
  BY Zenon DEF dvars, wvars, tvars, pvars, history, Inv, NInv, Typed, Owners, Stages, Deadlines
<1>2. \A v \in Waiters : Registered(v)' <=> Registered(v)
  BY Zenon DEF dvars, wvars, pvars, Registered
<1>3. Winners'
  BY Zenon DEF dvars, wvars, tvars, pvars, Inv, NInv, Winners
<1>4. Events'
  BY DEF dvars, wvars, pvars, history, Inv, NInv, Events, Registered
<1>5. Counts'
  BY Zenon, <1>2 DEF dvars, wvars, tvars, Inv, NInv, Counts, HasDeadline, One
<1>6. SizeExact' /\ num_op' \in Nat
  BY Zenon, <1>2, SizeSame DEF Inv
<1> QED BY Zenon, <1>1, <1>3, <1>4, <1>5, <1>6 DEF Inv, NInv

\* What the invariant says of references, sizes and wake-ups.
LEMMA InvImplies == Inv => TypeOK /\ RefExact /\ SizeExact /\ OneWake
<1> SUFFICES ASSUME Inv PROVE TypeOK /\ RefExact /\ SizeExact /\ OneWake
  BY Zenon
<1>1. TypeOK /\ SizeExact
  BY Zenon DEF Inv, NInv, TypeOK
<1>2. RefExact
  <2>1. live = {desc[w] : w \in {v \in Waiters : desc[v] # NULL}}
    BY NetpollAssumption DEF Inv, NInv, Typed, Owners
  <2> QED BY Zenon, <2>1 DEF Inv, NInv, Counts, RefExact
<1>3. OneWake
  BY Zenon DEF Inv, NInv, Typed, Owners, Deadlines, Winners, OneWake
<1> QED BY Zenon, <1>1, <1>2, <1>3

\* Whatever waits the coroutines begin and whenever file descriptors become
\* ready, references and the number of registrations are exact and every waiter
\* is woken once, by one of the pollers or its deadline.
THEOREM NetpollSafe == Spec => [](TypeOK /\ RefExact /\ SizeExact /\ OneWake)
<1>1. Inv /\ [Next]_vars => Inv'
  <2> SUFFICES ASSUME Inv, [Next]_vars PROVE Inv'
    BY Zenon
  <2>1. CASE UNCHANGED vars
    BY Zenon, <2>1, LevelInv DEF Inv, NInv, Typed, vars, epoll
  <2>2. CASE Next
    BY Zenon, <2>2, BeginInv, StepInv, EdgeInv DEF Next
  <2> QED BY Zenon, <2>1, <2>2
<1> QED BY <1>1, InitInv, InvImplies, PTL DEF Spec
=============================================================================
