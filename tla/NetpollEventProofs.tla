------------------------- MODULE NetpollEventProofs -------------------------
(***************************************************************************)
(* Proofs about what Netpoll reports: the inductive invariant EInv, on top   *)
(* of the invariant Inv of NetpollProofs.                                   *)
(***************************************************************************)
EXTENDS NetpollProofs

\* The conjuncts of Reports, one by one.
ReportsLeft == \A w \in Waiters : desc[w] # NULL /\ ~done[desc[w]] =>
                 mode[desc[w]] # {} /\ w \notin expired
ReportsGiven == \A w \in Waiters : desc[w] # NULL /\ done[desc[w]] =>
                  (mode[desc[w]] = {} <=> w \in expired)
ReportsPending == \A f \in Fds :
                    /\ pend[f] \subseteq want[f]
                    /\ reg[f] # NULL /\ ~done[reg[f]] => want[f] = mode[reg[f]] \cup {"e"}
ReportsTaken == \A p \in Pollers :
                  /\ ppc[p] = "idle" => batch[p] = {}
                  /\ \A e \in batch[p] :
                       /\ e.ev # {}
                       /\ e.gen = gen[e.desc] /\ ~done[e.desc] =>
                            e.ev \subseteq mode[e.desc] \cup {"e"}

\* The four parts of the invariant about the reports.
LEMMA ReportsParts ==
  /\ Reports <=> ReportsLeft /\ ReportsGiven /\ ReportsPending /\ ReportsTaken
  /\ Reports' <=> ReportsLeft' /\ ReportsGiven' /\ ReportsPending' /\ ReportsTaken'
BY Zenon DEF Reports, ReportsLeft, ReportsGiven, ReportsPending, ReportsTaken

\* A wait that begins: coroc_net_wait or coroc_net_timedwait initialises its descriptor,
\* keeps the invariant of the reports.
LEMMA BeginEInv ==
  ASSUME NInv, NInv', EInv, NEW w \in Waiters, NEW f \in Fds, NEW m \in {{"r"}, {"w"}},
         NEW t \in BOOLEAN, Begin(w, f, m, t)
  PROVE  EInv'
<1> USE NetpollAssumption DEF Begin, Goto, Free, epoll, pvars
<1>0. /\ Typed /\ Owners /\ Stages /\ Deadlines /\ Winners /\ Events /\ Typed' /\ Owners'
      /\ ReportsLeft /\ ReportsGiven /\ ReportsPending /\ ReportsTaken
      /\ Undisturbed /\ EventNotLost
  BY Zenon, ReportsParts DEF NInv, EInv
<1>1. ReportsLeft'
  <2>1. PICK a \in Free : /\ done' = [done EXCEPT ![a] = FALSE] /\ mode' = [mode EXCEPT ![a] = m]
                          /\ desc' = [desc EXCEPT ![w] = a]
    BY Zenon
  <2>2. expired' = expired \ {w}
    BY Zenon
  <2>3. \A v \in Waiters : desc[v] # NULL => desc[v] \in live
    BY Zenon, <1>0 DEF Owners
  <2> HIDE DEF Begin
  <2>4. ASSUME NEW v \in Waiters, v # w, desc'[v] # NULL, ~done'[desc'[v]]
        PROVE  mode'[desc'[v]] # {} /\ v \notin expired'
    <3>1. desc'[v] = desc[v] /\ desc[v] \in Descs /\ desc[v] # a
      BY <1>0, <2>1, <2>3, <2>4 DEF Typed
    <3>2. done'[desc[v]] = done[desc[v]] /\ mode'[desc[v]] = mode[desc[v]]
      BY <2>1, <3>1
    <3> QED BY Zenon, <1>0, <2>2, <2>4, <3>1, <3>2 DEF ReportsLeft
  <2>5. mode'[desc'[w]] # {} /\ w \notin expired'
    <3>1. desc'[w] = a /\ mode'[a] = m
      BY <1>0, <2>1 DEF Typed
    <3>2. m # {}
      BY Zenon
    <3> QED BY Zenon, <2>2, <3>1
  <2> QED BY Zenon, <2>4, <2>5 DEF ReportsLeft
<1>2. ReportsGiven'
  BY <1>0 DEF ReportsGiven, Typed
<1>3. ReportsPending'
  BY <1>0 DEF ReportsPending, Events
<1>4. ReportsTaken'
  BY <1>0 DEF ReportsTaken, Typed, Events
<1>5. Undisturbed'
  BY <1>0 DEF Undisturbed, Registered, Owners
<1>6. EventNotLost'
  BY <1>0 DEF EventNotLost, Awaited, Coming, Typed, Owners
<1> QED BY Zenon, <1>1, <1>2, <1>3, <1>4, <1>5, <1>6, ReportsParts DEF EInv

\* The registration with epoll, __coroc_netpoll_add, keeps the invariant of the reports.
LEMMA AddEInv ==
  ASSUME NInv, NInv', EInv, NEW w \in Waiters, Add(w)
  PROVE  EInv'
<1> USE NetpollAssumption DEF Add, Goto, FirstEvents, pvars
<1>0. /\ Typed /\ Owners /\ Stages /\ Deadlines /\ Winners /\ Events /\ Typed' /\ Owners'
      /\ ReportsLeft /\ ReportsGiven /\ ReportsPending /\ ReportsTaken
      /\ Undisturbed /\ EventNotLost
  BY Zenon, ReportsParts DEF NInv, EInv
<1>1. ReportsLeft'
  BY Zenon, <1>0 DEF ReportsLeft
<1>2. ReportsGiven'
  BY Zenon, <1>0 DEF ReportsGiven
<1>3. ReportsPending'
  BY <1>0 DEF ReportsPending, Typed
<1>4. ReportsTaken'
  BY Zenon, <1>0 DEF ReportsTaken
<1>5. Undisturbed'
  BY <1>0 DEF Undisturbed, Registered, Typed, Owners
<1>6. EventNotLost'
  <2> SUFFICES ASSUME NEW v \in Waiters, Awaited(v)'
               PROVE  Coming(v)'
    BY Zenon DEF EventNotLost
  <2>1. CASE v = w
    <3>1. reg[fd[desc[w]]] = NULL
      BY Zenon, <2>1 DEF Awaited
    <3>2. /\ reg'[fd[desc[w]]] = desc[w]
          /\ pend'[fd[desc[w]]] = level[fd[desc[w]]] \cap (mode[desc[w]] \cup {"e"})
      BY <1>0, <3>1 DEF Typed, Owners
    <3> QED BY Zenon, <2>1, <3>2 DEF Awaited, Coming
  <2>2. CASE v # w
    <3>1. Awaited(v) /\ Registered(v)
      BY <2>2 DEF Awaited, Registered
    <3>2. Coming(v) /\ reg[fd[desc[v]]] = desc[v] /\ fd[desc[v]] \in Fds
      BY Zenon, <1>0, <3>1 DEF EventNotLost, Undisturbed, Awaited, Owners
    <3>3. UNCHANGED <<desc, fd, batch, gen>>
      BY Zenon
    <3>4. desc[v] # NULL
      BY Zenon, <1>0 DEF Awaited, Owners
    <3>5. reg'[fd[desc[v]]] = desc[v] /\ pend'[fd[desc[v]]] = pend[fd[desc[v]]]
      BY <1>0, <3>2, <3>4 DEF Typed
    <3> QED BY Zenon, <3>2, <3>5 DEF Coming
  <2> QED BY Zenon, <2>1, <2>2
<1> QED BY Zenon, <1>1, <1>2, <1>3, <1>4, <1>5, <1>6, ReportsParts DEF EInv

\* A step of a waiter that neither registers nor begins a wait disturbs no registration
\* and loses no event.
LEMMA WaiterFrame ==
  ASSUME Undisturbed, EventNotLost,
         \A v \in Waiters : wpc'[v] \notin {"run", "add"} => wpc[v] \notin {"run", "add"},
         \A v \in Waiters : wpc'[v] \in {"deadline", "suspend", "wait"} =>
                             wpc[v] \in {"deadline", "suspend", "wait"},
         UNCHANGED <<desc, done, mode, fd, clash, reg, level, pend, ppc, batch, cur, gen>>
  PROVE  Undisturbed' /\ EventNotLost'
<1>3. Undisturbed'
  <2>1. ASSUME NEW v \in Waiters, Registered(v)'
        PROVE  Registered(v)
    BY Zenon, <2>1 DEF Registered
  <2> QED BY Zenon, <2>1 DEF Undisturbed
<1>4. EventNotLost'
  <2>1. ASSUME NEW v \in Waiters, Awaited(v)'
        PROVE  Coming(v)'
    <3>1. Awaited(v)
      BY Zenon, <2>1 DEF Awaited
    <3>2. Coming(v)
      BY Zenon, <3>1 DEF EventNotLost
    <3> QED BY Zenon, <3>2 DEF Coming
  <2> QED BY Zenon, <2>1 DEF EventNotLost
<1> QED BY Zenon, <1>3, <1>4

\* The timer that coroc_net_timedwait starts, keeps the invariant of the reports.
LEMMA DeadlineEInv ==
  ASSUME NInv, NInv', EInv, NEW w \in Waiters, Deadline(w)
  PROVE  EInv'
<1> USE NetpollAssumption DEF Deadline, Goto, dvars, epoll, pvars, history
<1>0. /\ Typed /\ Owners /\ Stages /\ Deadlines /\ Winners /\ Events /\ Typed' /\ Owners'
      /\ ReportsLeft /\ ReportsGiven /\ ReportsPending /\ ReportsTaken
      /\ Undisturbed /\ EventNotLost
  BY Zenon, ReportsParts DEF NInv, EInv
<1>1. ReportsLeft'
  BY Zenon, <1>0 DEF ReportsLeft
<1>2. ReportsGiven'
  BY Zenon, <1>0 DEF ReportsGiven
<1>3. ReportsPending'
  BY Zenon, <1>0 DEF ReportsPending
<1>4. ReportsTaken'
  BY Zenon, <1>0 DEF ReportsTaken
<1>t. /\ wpc \in [Waiters -> {"run", "add", "deadline", "suspend", "wait", "ready", "finish"}]
      /\ wpc[w] = "deadline" /\ wpc' = [wpc EXCEPT ![w] = "suspend"]
      /\ UNCHANGED <<desc, done, mode, fd, clash, reg, level, pend, ppc, batch, cur, gen>>
  BY Zenon, <1>0 DEF Typed
<1>5. Undisturbed' /\ EventNotLost'
  <2> HIDE DEF Deadline
  <2>1. \A v \in Waiters : wpc'[v] \notin {"run", "add"} => wpc[v] \notin {"run", "add"}
    BY Zenon, <1>t
  <2>2. \A v \in Waiters : wpc'[v] \in {"deadline", "suspend", "wait"} =>
                            wpc[v] \in {"deadline", "suspend", "wait"}
    BY Zenon, <1>t
  <2> QED BY Zenon, <1>0, <1>t, <2>1, <2>2, WaiterFrame
<1> QED BY Zenon, <1>1, <1>2, <1>3, <1>4, <1>5, ReportsParts DEF EInv

\* The suspension of the waiter, keeps the invariant of the reports.
LEMMA SuspendEInv ==
  ASSUME NInv, NInv', EInv, NEW w \in Waiters, Suspend(w)
  PROVE  EInv'
<1> USE NetpollAssumption DEF Suspend, Goto, epoll, pvars, history
<1>0. /\ Typed /\ Owners /\ Stages /\ Deadlines /\ Winners /\ Events /\ Typed' /\ Owners'
      /\ ReportsLeft /\ ReportsGiven /\ ReportsPending /\ ReportsTaken
      /\ Undisturbed /\ EventNotLost
  BY Zenon, ReportsParts DEF NInv, EInv
<1>1. ReportsLeft'
  BY Zenon, <1>0 DEF ReportsLeft
<1>2. ReportsGiven'
  BY Zenon, <1>0 DEF ReportsGiven
<1>3. ReportsPending'
  BY Zenon, <1>0 DEF ReportsPending
<1>4. ReportsTaken'
  BY Zenon, <1>0 DEF ReportsTaken
<1>t. /\ wpc \in [Waiters -> {"run", "add", "deadline", "suspend", "wait", "ready", "finish"}]
      /\ wpc[w] = "suspend" /\ wpc' = [wpc EXCEPT ![w] = "wait"]
      /\ UNCHANGED <<desc, done, mode, fd, clash, reg, level, pend, ppc, batch, cur, gen>>
  BY Zenon, <1>0 DEF Typed
<1>5. Undisturbed' /\ EventNotLost'
  <2> HIDE DEF Suspend
  <2>1. \A v \in Waiters : wpc'[v] \notin {"run", "add"} => wpc[v] \notin {"run", "add"}
    BY Zenon, <1>t
  <2>2. \A v \in Waiters : wpc'[v] \in {"deadline", "suspend", "wait"} =>
                            wpc[v] \in {"deadline", "suspend", "wait"}
    BY Zenon, <1>t
  <2> QED BY Zenon, <1>0, <1>t, <2>1, <2>2, WaiterFrame
<1> QED BY Zenon, <1>1, <1>2, <1>3, <1>4, <1>5, ReportsParts DEF EInv

\* The timer that coroc_net_timedwait deletes when it is woken, keeps the invariant of the
\* reports.
LEMMA DelDeadlineEInv ==
  ASSUME NInv, NInv', EInv, NEW w \in Waiters, DelDeadline(w)
  PROVE  EInv'
<1> USE NetpollAssumption DEF DelDeadline, Goto, epoll, pvars, history
<1>0. /\ Typed /\ Owners /\ Stages /\ Deadlines /\ Winners /\ Events /\ Typed' /\ Owners'
      /\ ReportsLeft /\ ReportsGiven /\ ReportsPending /\ ReportsTaken
      /\ Undisturbed /\ EventNotLost
  BY Zenon, ReportsParts DEF NInv, EInv
<1>1. ReportsLeft'
  BY Zenon, <1>0 DEF ReportsLeft
<1>2. ReportsGiven'
  BY Zenon, <1>0 DEF ReportsGiven
<1>3. ReportsPending'
  BY Zenon, <1>0 DEF ReportsPending
<1>4. ReportsTaken'
  BY Zenon, <1>0 DEF ReportsTaken
<1>t. /\ wpc \in [Waiters -> {"run", "add", "deadline", "suspend", "wait", "ready", "finish"}]
      /\ wpc[w] = "ready" /\ wpc' = [wpc EXCEPT ![w] = "finish"]
      /\ UNCHANGED <<desc, done, mode, fd, clash, reg, level, pend, ppc, batch, cur, gen>>
  BY Zenon, <1>0 DEF Typed
<1>5. Undisturbed' /\ EventNotLost'
  <2> HIDE DEF DelDeadline
  <2>1. \A v \in Waiters : wpc'[v] \notin {"run", "add"} => wpc[v] \notin {"run", "add"}
    BY Zenon, <1>t
  <2>2. \A v \in Waiters : wpc'[v] \in {"deadline", "suspend", "wait"} =>
                            wpc[v] \in {"deadline", "suspend", "wait"}
    BY Zenon, <1>t
  <2> QED BY Zenon, <1>0, <1>t, <2>1, <2>2, WaiterFrame
<1> QED BY Zenon, <1>1, <1>2, <1>3, <1>4, <1>5, ReportsParts DEF EInv

\* The end of a wait, which gives up the waiter's own reference, keeps the invariant of the
\* reports.
LEMMA FinishEInv ==
  ASSUME NInv, NInv', EInv, NEW w \in Waiters, Finish(w)
  PROVE  EInv'
<1> USE NetpollAssumption DEF Finish, Goto, epoll, pvars, history
<1>0. /\ Typed /\ Owners /\ Stages /\ Deadlines /\ Winners /\ Events /\ Typed' /\ Owners'
      /\ ReportsLeft /\ ReportsGiven /\ ReportsPending /\ ReportsTaken
      /\ Undisturbed /\ EventNotLost
  BY Zenon, ReportsParts DEF NInv, EInv
<1>1. ReportsLeft'
  BY <1>0 DEF ReportsLeft, Typed
<1>2. ReportsGiven'
  BY <1>0 DEF ReportsLeft, ReportsGiven, Typed
<1>3. ReportsPending'
  BY Zenon, <1>0 DEF ReportsPending
<1>4. ReportsTaken'
  BY Zenon, <1>0 DEF ReportsTaken
<1>5. Undisturbed'
  BY <1>0 DEF Undisturbed, Registered, Typed, Owners, Stages
<1>6. EventNotLost'
  BY <1>0 DEF EventNotLost, Awaited, Coming, Typed
<1> QED BY Zenon, <1>1, <1>2, <1>3, <1>4, <1>5, <1>6, ReportsParts DEF EInv

\* The timer daemon that takes an expired deadline from the heap, keeps the invariant of
\* the reports.
LEMMA FireEInv ==
  ASSUME NInv, NInv', EInv, NEW w \in Waiters, Fire(w)
  PROVE  EInv'
<1> USE NetpollAssumption DEF Fire, dvars, epoll, wvars, pvars, history
<1>0. /\ Typed /\ Owners /\ Stages /\ Deadlines /\ Winners /\ Events /\ Typed' /\ Owners'
      /\ ReportsLeft /\ ReportsGiven /\ ReportsPending /\ ReportsTaken
      /\ Undisturbed /\ EventNotLost
  BY Zenon, ReportsParts DEF NInv, EInv
<1>1. ReportsLeft'
  BY Zenon, <1>0 DEF ReportsLeft
<1>2. ReportsGiven'
  BY Zenon, <1>0 DEF ReportsGiven
<1>3. ReportsPending'
  BY Zenon, <1>0 DEF ReportsPending
<1>4. ReportsTaken'
  BY Zenon, <1>0 DEF ReportsTaken
<1>5. Undisturbed'
  BY Zenon, <1>0 DEF Undisturbed, Registered
<1>6. EventNotLost'
  <2>1. UNCHANGED <<wpc, desc, done, mode, fd, clash, reg, level, pend, batch, gen>>
    BY Zenon
  <2> HIDE DEF Fire
  <2>2. \A v \in Waiters : Awaited(v)' => Awaited(v)
    BY Zenon, <2>1 DEF Awaited
  <2>3. \A v \in Waiters : Coming(v) => Coming(v)'
    BY Zenon, <2>1 DEF Coming
  <2> QED BY Zenon, <1>0, <2>2, <2>3 DEF EventNotLost
<1> QED BY Zenon, <1>1, <1>2, <1>3, <1>4, <1>5, <1>6, ReportsParts DEF EInv

\* The compare-and-swap of __coroc_netpoll_timeout, with the removal that follows it, keeps
\* the invariant of the reports.
LEMMA TimeoutCheckEInv ==
  ASSUME NInv, NInv', EInv, TimeoutCheck
  PROVE  EInv'
<1> USE NetpollAssumption DEF TimeoutCheck, TimeoutWins, TimeoutMode, Rem, epoll, wvars, pvars
<1>0. /\ Typed /\ Owners /\ Stages /\ Deadlines /\ Winners /\ Events /\ Typed' /\ Owners'
      /\ ReportsLeft /\ ReportsGiven /\ ReportsPending /\ ReportsTaken
      /\ Undisturbed /\ EventNotLost
  BY Zenon, ReportsParts DEF NInv, EInv
<1>a. PICK c \in Waiters : c = tcur
  BY Zenon, <1>0 DEF Deadlines, Typed
<1>b. desc[c] \in Descs /\ wait[desc[c]] = c /\ fd[desc[c]] \in Fds /\ wpc[c] \notin {"run", "add"}
  BY Zenon, <1>0, <1>a DEF Deadlines, Typed, Owners
<1>c. \/ UNCHANGED <<done, mode, reg, want, level, pend, expired>> /\ done[desc[c]]
      \/ /\ done' = [done EXCEPT ![desc[c]] = TRUE] /\ mode' = [mode EXCEPT ![desc[c]] = {}]
         /\ reg' = [reg EXCEPT ![fd[desc[c]]] = NULL] /\ pend' = [pend EXCEPT ![fd[desc[c]]] = {}]
         /\ expired' = expired \cup {c} /\ UNCHANGED <<want, level>> /\ ~done[desc[c]]
  BY Zenon, <1>a, <1>b
<1>d. UNCHANGED <<fd, wait, lock, wpc, desc, ppc, batch, cur, gen, clash>>
  BY Zenon
<1>e. \A v \in Waiters : v # c => desc[v] # desc[c]
  <2> HIDE DEF TimeoutCheck
  <2> QED BY Zenon, <1>0, <1>b DEF Owners
<1>t. /\ reg \in [Fds -> Descs \cup {NULL}] /\ pend \in [Fds -> SUBSET Bits]
      /\ done \in [Descs -> BOOLEAN] /\ mode \in [Descs -> SUBSET Bits]
      /\ desc \in [Waiters -> Descs \cup {NULL}]
      /\ batch \in [Pollers -> SUBSET [desc : Descs, ev : SUBSET Bits, gen : Nat]]
  BY Zenon, <1>0 DEF Typed
<1> HIDE DEF TimeoutCheck, TimeoutWins, TimeoutMode, Rem
<1>g. /\ \A d \in Descs : \/ done'[d] = done[d] /\ mode'[d] = mode[d]
                          \/ d = desc[c] /\ done'[d] /\ mode'[d] = {} /\ c \in expired'
      /\ \A v \in Waiters : v # c => (v \in expired' <=> v \in expired)
      /\ done[desc[c]] => expired' = expired
      /\ want' = want /\ level' = level
  BY Zenon, <1>b, <1>c, <1>t
<1>j. \A f \in Fds : (reg'[f] = reg[f] \/ reg'[f] = NULL) /\ (pend'[f] = pend[f] \/ pend'[f] = {})
  BY Zenon, <1>b, <1>c, <1>t
<1>h. /\ \A v \in Waiters : desc[v] # NULL => desc[v] \in Descs
      /\ \A f \in Fds : reg[f] # NULL => reg[f] \in Descs
      /\ \A q \in Pollers : \A x \in batch[q] : x \in [desc : Descs, ev : SUBSET Bits, gen : Nat]
  BY Zenon, <1>t
<1>i. done'[desc[c]] /\ (~done[desc[c]] => c \in expired' /\ mode'[desc[c]] = {})
  BY Zenon, <1>b, <1>c, <1>t
<1>1. ReportsLeft'
  <2> SUFFICES ASSUME NEW v \in Waiters, desc[v] # NULL, ~done'[desc[v]]
               PROVE  mode'[desc[v]] # {} /\ v \notin expired'
    BY Zenon, <1>d DEF ReportsLeft
  <2>1. v # c /\ desc[v] \in Descs
    BY Zenon, <1>h, <1>i
  <2>2. ~done[desc[v]] /\ mode'[desc[v]] = mode[desc[v]] /\ (v \in expired' <=> v \in expired)
    BY Zenon, <1>g, <2>1
  <2> QED BY Zenon, <1>0, <2>2 DEF ReportsLeft
<1>2. ReportsGiven'
  <2> SUFFICES ASSUME NEW v \in Waiters, desc[v] # NULL, done'[desc[v]]
               PROVE  mode'[desc[v]] = {} <=> v \in expired'
    BY Zenon, <1>d DEF ReportsGiven
  <2>1. CASE v = c /\ ~done[desc[c]]
    BY Zenon, <1>i, <2>1
  <2>2. CASE v = c /\ done[desc[c]]
    BY Zenon, <1>0, <1>c, <2>2 DEF ReportsGiven
  <2>3. CASE v # c
    <3>1. desc[v] # desc[c] /\ desc[v] \in Descs
      BY Zenon, <1>e, <1>h, <2>3
    <3>2. done[desc[v]] /\ mode'[desc[v]] = mode[desc[v]] /\ (v \in expired' <=> v \in expired)
      BY Zenon, <1>g, <2>3, <3>1
    <3> QED BY Zenon, <1>0, <3>2 DEF ReportsGiven
  <2> QED BY Zenon, <2>1, <2>2, <2>3
<1>3. ReportsPending'
  <2>1. \A d \in Descs : ~done'[d] => ~done[d] /\ mode'[d] = mode[d]
    BY Zenon, <1>g
  <2> SUFFICES ASSUME NEW f \in Fds
               PROVE  /\ pend'[f] \subseteq want[f]
                      /\ reg'[f] # NULL /\ ~done'[reg'[f]] => want[f] = mode'[reg'[f]] \cup {"e"}
    BY Zenon, <1>g DEF ReportsPending
  <2>2. pend'[f] \subseteq want[f]
    BY Zenon, <1>0, <1>j DEF ReportsPending
  <2>3. ASSUME reg'[f] # NULL, ~done'[reg'[f]]
        PROVE  want[f] = mode'[reg'[f]] \cup {"e"}
    <3>1. reg'[f] = reg[f]
      <4>1. reg'[f] = reg[f] \/ reg'[f] = NULL
        BY Zenon, <1>j
      <4> QED BY Zenon, <2>3, <4>1
    <3>2. reg[f] \in Descs
      BY Zenon, <1>h, <2>3, <3>1
    <3>3. ~done[reg[f]] /\ mode'[reg[f]] = mode[reg[f]]
      BY Zenon, <2>1, <2>3, <3>1, <3>2
    <3> QED BY Zenon, <1>0, <2>3, <3>1, <3>3 DEF ReportsPending
  <2> QED BY Zenon, <2>2, <2>3
<1>4. ReportsTaken'
  <2>1. \A d \in Descs : ~done'[d] => ~done[d] /\ mode'[d] = mode[d]
    BY Zenon, <1>g
  <2>2. \A q \in Pollers : \A x \in batch[q] : x.desc \in Descs
    BY Zenon, <1>h
  <2> QED BY Zenon, <1>0, <1>d, <2>1, <2>2 DEF ReportsTaken
<1>f. ASSUME NEW v \in Waiters, Registered(v)', fd[desc[v]] \notin clash
      PROVE  /\ reg[fd[desc[v]]] = desc[v] /\ reg'[fd[desc[v]]] = desc[v]
             /\ pend'[fd[desc[v]]] = pend[fd[desc[v]]]
  <2>1. Registered(v)
    <3>1. wpc[v] \notin {"run", "add"} /\ desc[v] \in Descs
      BY Zenon, <1>0, <1>d, <1>f, <1>h DEF Registered, Owners
    <3>2. ~done'[desc[v]] => ~done[desc[v]]
      BY Zenon, <1>g, <3>1
    <3> QED BY Zenon, <1>d, <1>f, <3>2 DEF Registered
  <2>2. reg[fd[desc[v]]] = desc[v] /\ fd[desc[v]] \in Fds
    BY Zenon, <1>0, <1>f, <2>1 DEF Undisturbed, Registered, Owners
  <2>3. CASE done[desc[c]]
    BY Zenon, <1>c, <2>2, <2>3
  <2>4. CASE ~done[desc[c]]
    <3>1. v # c
      <4> SUFFICES ASSUME v = c
                   PROVE  FALSE
        BY Zenon
      <4>1. PICK q \in Pollers : ppc'[q] = "rem" /\ cur'[q] = desc'[v]
        BY Zenon, <1>d, <1>f, <1>i DEF Registered
      <4>2. ppc[q] = "rem" /\ cur[q] = desc[c]
        BY Zenon, <1>d, <4>1
      <4> QED BY Zenon, <1>0, <2>4, <4>2 DEF Winners
    <3>2. Registered(c)
      BY Zenon, <1>b, <2>4 DEF Registered
    <3>3. fd[desc[v]] # fd[desc[c]]
      BY Zenon, <1>0, <1>e, <1>f, <2>2, <3>1, <3>2 DEF Undisturbed
    <3>4. /\ reg' = [reg EXCEPT ![fd[desc[c]]] = NULL]
          /\ pend' = [pend EXCEPT ![fd[desc[c]]] = {}]
      BY Zenon, <1>c, <2>4
    <3> QED BY Zenon, <1>t, <2>2, <3>3, <3>4
  <2> QED BY Zenon, <2>3, <2>4
<1>5. Undisturbed'
  BY Zenon, <1>d, <1>f DEF Undisturbed
<1>6. EventNotLost'
  <2> SUFFICES ASSUME NEW v \in Waiters, Awaited(v)'
               PROVE  Coming(v)'
    BY Zenon DEF EventNotLost
  <2>1. Registered(v)' /\ fd[desc[v]] \notin clash
    BY Zenon, <1>d DEF Awaited, Registered
  <2>2. Awaited(v)
    <3>1. wpc[v] \in {"deadline", "suspend", "wait"} /\ ~done'[desc[v]]
      BY Zenon, <1>d DEF Awaited
    <3>2. desc[v] \in Descs
      BY Zenon, <1>0, <1>h, <3>1 DEF Owners
    <3>3. ~done[desc[v]] /\ mode'[desc[v]] = mode[desc[v]] /\ level' = level
      BY Zenon, <1>g, <3>1, <3>2
    <3> QED BY Zenon, <1>d, <3>3 DEF Awaited
  <2>3. Coming(v)
    BY Zenon, <1>0, <2>2 DEF EventNotLost
  <2>4. /\ reg[fd[desc[v]]] = desc[v] /\ reg'[fd[desc[v]]] = desc[v]
        /\ pend'[fd[desc[v]]] = pend[fd[desc[v]]]
    BY <1>f, <2>1
  <2> QED BY Zenon, <1>d, <2>3, <2>4 DEF Coming
<1> QED BY Zenon, <1>1, <1>2, <1>3, <1>4, <1>5, <1>6, ReportsParts DEF EInv

\* The wake-up by __coroc_netpoll_timeout, keeps the invariant of the reports.
LEMMA TimeoutWakeEInv ==
  ASSUME NInv, NInv', EInv, TimeoutWake
  PROVE  EInv'
<1> USE NetpollAssumption DEF TimeoutWake, Goto, dvars, epoll, pvars, history
<1>0. /\ Typed /\ Owners /\ Stages /\ Deadlines /\ Winners /\ Events /\ Typed' /\ Owners'
      /\ ReportsLeft /\ ReportsGiven /\ ReportsPending /\ ReportsTaken
      /\ Undisturbed /\ EventNotLost
  BY Zenon, ReportsParts DEF NInv, EInv
<1>1. ReportsLeft'
  BY Zenon, <1>0 DEF ReportsLeft
<1>2. ReportsGiven'
  BY Zenon, <1>0 DEF ReportsGiven
<1>3. ReportsPending'
  BY Zenon, <1>0 DEF ReportsPending
<1>4. ReportsTaken'
  BY Zenon, <1>0 DEF ReportsTaken
<1>a. tpc = "wake" /\ wpc' = [wpc EXCEPT ![wait[desc[tcur]]] = "ready"]
  BY Zenon
<1>b. /\ UNCHANGED <<desc, done, mode, fd, clash, reg, level, pend, ppc, batch, cur, gen>>
  BY Zenon
<1>t. wpc \in [Waiters -> {"run", "add", "deadline", "suspend", "wait", "ready", "finish"}]
  BY Zenon, <1>0 DEF Typed
<1> HIDE DEF TimeoutWake
<1>c. tcur \in Waiters /\ wait[desc[tcur]] = tcur /\ wpc[tcur] = "wait"
  <2>1. tcur \in armed /\ armed \subseteq Waiters /\ wpc[tcur] = "wait"
    BY Zenon, <1>0, <1>a DEF Deadlines, Typed, Winners
  <2> QED BY Zenon, <1>0, <2>1 DEF Owners
<1>d. \A v \in Waiters : v # tcur => wpc'[v] = wpc[v]
  BY Zenon, <1>a, <1>c, <1>t
<1>e. wpc'[tcur] = "ready"
  BY Zenon, <1>a, <1>c, <1>t
<1>5. Undisturbed'
  <2>3. \A v \in Waiters : wpc'[v] \notin {"run", "add"} => wpc[v] \notin {"run", "add"}
    BY Zenon, <1>c, <1>d
  <2>4. ASSUME NEW v \in Waiters, Registered(v)'
        PROVE  Registered(v)
    BY Zenon, <1>b, <2>3, <2>4 DEF Registered
  <2> QED BY Zenon, <1>0, <1>b, <2>4 DEF Undisturbed
<1>6. EventNotLost'
  <2>1. ASSUME NEW v \in Waiters, Awaited(v)'
        PROVE  Coming(v)'
    <3>1. v # tcur
      BY Zenon, <1>e, <2>1 DEF Awaited
    <3>2. Awaited(v)
      BY Zenon, <1>b, <1>d, <2>1, <3>1 DEF Awaited
    <3>3. Coming(v)
      BY Zenon, <1>0, <3>2 DEF EventNotLost
    <3> QED BY Zenon, <1>b, <3>3 DEF Coming
  <2> QED BY Zenon, <2>1 DEF EventNotLost
<1> QED BY Zenon, <1>1, <1>2, <1>3, <1>4, <1>5, <1>6, ReportsParts DEF EInv

\* The reference that __coroc_netpoll_timeout gives up, keeps the invariant of the reports.
LEMMA TimeoutPutEInv ==
  ASSUME NInv, NInv', EInv, TimeoutPut
  PROVE  EInv'
<1> USE NetpollAssumption DEF TimeoutPut, epoll, wvars, pvars, history
<1>0. /\ Typed /\ Owners /\ Stages /\ Deadlines /\ Winners /\ Events /\ Typed' /\ Owners'
      /\ ReportsLeft /\ ReportsGiven /\ ReportsPending /\ ReportsTaken
      /\ Undisturbed /\ EventNotLost
  BY Zenon, ReportsParts DEF NInv, EInv
<1>1. ReportsLeft'
  BY Zenon, <1>0 DEF ReportsLeft
<1>2. ReportsGiven'
  BY Zenon, <1>0 DEF ReportsGiven
<1>3. ReportsPending'
  BY Zenon, <1>0 DEF ReportsPending
<1>4. ReportsTaken'
  BY Zenon, <1>0 DEF ReportsTaken
<1>5. Undisturbed'
  BY Zenon, <1>0 DEF Undisturbed, Registered
<1>6. EventNotLost'
  <2>1. UNCHANGED <<wpc, desc, done, fd, clash, reg, pend, level, batch, gen>>
    BY Zenon
  <2>2. \A v \in Waiters : Awaited(v)' => wpc[v] \in {"deadline", "suspend", "wait"} /\ desc[v] \in live
    BY Zenon, <1>0, <2>1 DEF Awaited, Owners
  <2>3. \A v \in Waiters : Awaited(v)' => mode'[desc[v]] = mode[desc[v]]
    BY Zenon, <2>1, <2>2
  <2> HIDE DEF TimeoutPut
  <2>4. ASSUME NEW v \in Waiters, Awaited(v)'
        PROVE  Coming(v)'
    <3>1. Awaited(v)
      BY Zenon, <2>1, <2>3, <2>4 DEF Awaited
    <3>2. Coming(v)
      BY Zenon, <1>0, <3>1 DEF EventNotLost
    <3> QED BY Zenon, <2>1, <3>2 DEF Coming
  <2> QED BY Zenon, <2>4 DEF EventNotLost
<1> QED BY Zenon, <1>1, <1>2, <1>3, <1>4, <1>5, <1>6, ReportsParts DEF EInv

\* A VPU that fetches events with epoll_wait, keeps the invariant of the reports.
LEMMA PollEInv ==
  ASSUME NInv, NInv', EInv, NEW p \in Pollers, Poll(p)
  PROVE  EInv'
<1> USE NetpollAssumption DEF Poll, PGoto, dvars, wvars, history
<1>0. /\ Typed /\ Owners /\ Stages /\ Deadlines /\ Winners /\ Events /\ Typed' /\ Owners'
      /\ ReportsLeft /\ ReportsGiven /\ ReportsPending /\ ReportsTaken
      /\ Undisturbed /\ EventNotLost
  BY Zenon, ReportsParts DEF NInv, EInv
<1>b. /\ batch' = [batch EXCEPT ![p] = {[desc |-> reg[f], ev |-> pend[f], gen |-> gen[reg[f]]] :
                                         f \in {g \in Fds : pend[g] # {}}}]
      /\ ppc' = [ppc EXCEPT ![p] = "check"] /\ ppc \in [Pollers -> {"idle", "check", "rem", "wake"}]
      /\ batch \in [Pollers -> SUBSET [desc : Descs, ev : SUBSET Bits, gen : Nat]]
  BY Zenon, <1>0 DEF Typed
<1>a. batch'[p] = {[desc |-> reg[f], ev |-> pend[f], gen |-> gen[reg[f]]] :
                    f \in {g \in Fds : pend[g] # {}}}
  <2> HIDE DEF Poll
  <2> QED BY Zenon, <1>b
<1>c. /\ \A q \in Pollers : q # p => batch'[q] = batch[q] /\ ppc'[q] = ppc[q]
      /\ ppc'[p] = "check" /\ \A q \in Pollers : ppc'[q] = "rem" => ppc[q] = "rem"
  <2> HIDE DEF Poll
  <2>1. /\ \A q \in Pollers : q # p => batch'[q] = batch[q] /\ ppc'[q] = ppc[q]
        /\ ppc'[p] = "check"
    BY Zenon, <1>b
  <2>2. "check" # "rem"
    OBVIOUS
  <2> QED BY Zenon, <2>1, <2>2
<1>1. ReportsLeft'
  BY Zenon, <1>0 DEF ReportsLeft
<1>2. ReportsGiven'
  BY Zenon, <1>0 DEF ReportsGiven
<1>3. ReportsPending'
  BY Zenon, <1>0 DEF ReportsPending
<1>4. ReportsTaken'
  <2>1. ASSUME NEW q \in Pollers, q # p
        PROVE  batch'[q] = batch[q] /\ ppc'[q] = ppc[q]
    BY Zenon, <1>c, <2>1
  <2>2. ppc'[p] = "check"
    BY Zenon, <1>c
  <2>3. ASSUME NEW e \in batch'[p]
        PROVE  /\ e.ev # {}
               /\ e.gen = gen[e.desc] /\ ~done[e.desc] => e.ev \subseteq mode[e.desc] \cup {"e"}
    <3>1. PICK f \in Fds : pend[f] # {} /\ e = [desc |-> reg[f], ev |-> pend[f], gen |-> gen[reg[f]]]
      BY Zenon, <1>a
    <3> QED BY Zenon, <1>0, <3>1 DEF ReportsPending, Events
  <2>4. UNCHANGED <<gen, done, mode>>
    BY Zenon
  <2> HIDE DEF Poll
  <2> QED BY Zenon, <1>0, <2>1, <2>2, <2>3, <2>4 DEF ReportsTaken
<1>5. Undisturbed'
  <2>1. UNCHANGED <<wpc, desc, done, fd, clash, reg, cur>>
    BY Zenon
  <2>2. \A q \in Pollers : ppc'[q] = "rem" => ppc[q] = "rem"
    BY Zenon, <1>c
  <2> HIDE DEF Poll
  <2> QED BY Zenon, <1>0, <2>1, <2>2 DEF Undisturbed, Registered
<1>6. EventNotLost'
  <2> SUFFICES ASSUME NEW v \in Waiters, Awaited(v)'
               PROVE  Coming(v)'
    BY Zenon DEF EventNotLost
  <2>1. UNCHANGED <<wpc, desc, done, fd, clash, reg, level, mode, gen>>
    BY Zenon
  <2>2. Coming(v) /\ fd[desc[v]] \in Fds
    BY Zenon, <1>0 DEF EventNotLost, Awaited, Owners
  <2>3. CASE reg[fd[desc[v]]] = desc[v] /\ pend[fd[desc[v]]] # {}
    <3> DEFINE e == [desc |-> desc[v], ev |-> pend[fd[desc[v]]], gen |-> gen[desc[v]]]
    <3>1. e \in batch'[p]
      BY Zenon, <1>a, <2>2, <2>3
    <3>2. e.desc = desc[v] /\ e.gen = gen[desc[v]]
      BY Zenon
    <3> HIDE DEF e
    <3> QED BY Zenon, <3>1, <3>2 DEF Coming
  <2>4. CASE \E q \in Pollers : \E e \in batch[q] : e.desc = desc[v] /\ e.gen = gen[desc[v]]
    <3>1. PICK q \in Pollers : \E e \in batch[q] : e.desc = desc[v] /\ e.gen = gen[desc[v]]
      BY Zenon, <2>4
    <3>2. q # p
      BY Zenon, <1>0, <3>1 DEF ReportsTaken
    <3>3. batch'[q] = batch[q]
      BY Zenon, <1>c, <3>2
    <3> QED BY Zenon, <3>1, <3>3 DEF Coming
  <2> QED BY Zenon, <2>2, <2>3, <2>4 DEF Coming
<1> QED BY Zenon, <1>1, <1>2, <1>3, <1>4, <1>5, <1>6, ReportsParts DEF EInv

\* The compare-and-swap of __coroc_netpoll_polling for the next event, keeps the invariant
\* of the reports.
LEMMA CheckEInv ==
  ASSUME NInv, NInv', EInv, NEW p \in Pollers, Check(p)
  PROVE  EInv'
<1> USE NetpollAssumption DEF Check, EventWins, ModeOf, PGoto, epoll, wvars
<1>0. /\ Typed /\ Owners /\ Stages /\ Deadlines /\ Winners /\ Events /\ Typed' /\ Owners'
      /\ ReportsLeft /\ ReportsGiven /\ ReportsPending /\ ReportsTaken
      /\ Undisturbed /\ EventNotLost
  BY Zenon, ReportsParts DEF NInv, EInv
<1>a. PICK e \in batch[p] :
        /\ batch' = [batch EXCEPT ![p] = @ \ {e}]
        /\ \/ /\ done[e.desc] \/ gen[e.desc] # e.gen
              /\ UNCHANGED <<done, mode, ppc, cur>>
           \/ /\ ~done[e.desc] /\ gen[e.desc] = e.gen
              /\ done' = [done EXCEPT ![e.desc] = TRUE]
              /\ mode' = [mode EXCEPT ![e.desc] = ModeOf(pmode[p], e.desc, e.ev)]
              /\ cur' = [cur EXCEPT ![p] = e.desc] /\ ppc' = [ppc EXCEPT ![p] = "rem"]
  BY Zenon
<1>b. UNCHANGED <<fd, wait, lock, reg, want, level, pend, wpc, desc, gen, clash, expired>>
  BY Zenon
<1>t. /\ reg \in [Fds -> Descs \cup {NULL}] /\ done \in [Descs -> BOOLEAN] /\ mode \in [Descs -> SUBSET Bits]
      /\ desc \in [Waiters -> Descs \cup {NULL}] /\ cur \in [Pollers -> Descs \cup {NULL}]
      /\ ppc \in [Pollers -> {"idle", "check", "rem", "wake"}] /\ ppc[p] = "check"
      /\ batch \in [Pollers -> SUBSET [desc : Descs, ev : SUBSET Bits, gen : Nat]]
  BY Zenon, <1>0 DEF Typed
<1>c. e.desc \in Descs /\ ppc[p] = "check"
  <2> HIDE DEF Check
  <2>1. e \in [desc : Descs, ev : SUBSET Bits, gen : Nat]
    BY Zenon, <1>t
  <2> QED BY Zenon, <1>t, <2>1
<1>d. ~done[e.desc] /\ gen[e.desc] = e.gen => ModeOf(pmode[p], e.desc, e.ev) # {}
  <2>1. SUFFICES ASSUME ~done[e.desc], gen[e.desc] = e.gen, "e" \notin e.ev
                 PROVE  pmode[p] \cup (e.ev \cap mode[e.desc]) # {}
    BY Zenon
  <2>2. e.ev # {} /\ e.ev \subseteq mode[e.desc] \cup {"e"}
    BY Zenon, <1>0, <2>1 DEF ReportsTaken
  <2> HIDE DEF Check
  <2> QED BY Zenon, <2>1, <2>2
<1>f. /\ \A q \in Pollers : q # p => batch'[q] = batch[q] /\ ppc'[q] = ppc[q] /\ cur'[q] = cur[q]
      /\ batch'[p] = batch[p] \ {e} /\ ppc'[p] # "idle"
  <2> HIDE DEF Check, ModeOf
  <2>1. /\ \A q \in Pollers : q # p => batch'[q] = batch[q]
        /\ batch'[p] = batch[p] \ {e}
    BY Zenon, <1>a, <1>t
  <2>2. /\ \A q \in Pollers : q # p => ppc'[q] = ppc[q] /\ cur'[q] = cur[q]
        /\ ppc'[p] = "check" \/ ppc'[p] = "rem"
    BY Zenon, <1>a, <1>t
  <2> QED BY Zenon, <2>1, <2>2
<1>g. \A d \in Descs :
        \/ done'[d] = done[d] /\ mode'[d] = mode[d]
        \/ d = e.desc /\ ~done[d] /\ done'[d] /\ mode'[d] # {}
  <2> HIDE DEF Check, ModeOf
  <2> QED BY Zenon, <1>a, <1>c, <1>d, <1>t
<1> HIDE DEF Check, ModeOf
<1>e. \A v \in Waiters : desc[v] = NULL \/ desc[v] \in Descs
  BY Zenon, <1>t
<1>1. ReportsLeft'
  BY Zenon, <1>0, <1>b, <1>e, <1>g DEF ReportsLeft
<1>2. ReportsGiven'
  BY Zenon, <1>0, <1>b, <1>e, <1>g DEF ReportsGiven, ReportsLeft
<1>3. ReportsPending'
  <2>1. \A f \in Fds : reg[f] # NULL => reg[f] \in Descs
    BY Zenon, <1>t
  <2> QED BY Zenon, <1>0, <1>b, <1>g, <2>1 DEF ReportsPending
<1>4. ReportsTaken'
  <2>1. \A q \in Pollers : \A x \in batch'[q] : x \in batch[q] /\ x.desc \in Descs
    <3>1. \A q \in Pollers : batch'[q] \subseteq batch[q]
      BY Zenon, <1>f
    <3>2. \A q \in Pollers : \A x \in batch[q] : x.desc \in Descs
      <4>1. \A q \in Pollers : \A x \in batch[q] : x \in [desc : Descs, ev : SUBSET Bits, gen : Nat]
        BY Zenon, <1>t
      <4> QED BY Zenon, <4>1
    <3> QED BY Zenon, <3>1, <3>2
  <2>2. \A d \in Descs : ~done'[d] => ~done[d] /\ mode'[d] = mode[d]
    BY Zenon, <1>g
  <2>3. \A q \in Pollers : ppc'[q] = "idle" => batch'[q] = {}
    BY Zenon, <1>0, <1>f DEF ReportsTaken
  <2> QED BY Zenon, <1>0, <1>b, <2>1, <2>2, <2>3 DEF ReportsTaken
<1>5. Undisturbed'
  <2>1. ASSUME NEW v \in Waiters, Registered(v)'
        PROVE  Registered(v)
    <3>1. CASE UNCHANGED <<done, ppc, cur>>
      BY Zenon, <1>b, <2>1, <3>1 DEF Registered
    <3>2. CASE ~UNCHANGED <<done, ppc, cur>>
      <4>0. desc[v] \in Descs
        BY Zenon, <1>0, <1>b, <1>e, <2>1 DEF Registered, Owners
      <4>1. /\ ~done[e.desc] /\ done' = [done EXCEPT ![e.desc] = TRUE]
            /\ cur' = [cur EXCEPT ![p] = e.desc]
        BY Zenon, <1>a, <3>2
      <4>2. CASE desc[v] = e.desc
        <5>1. ~done[desc[v]] /\ wpc' = wpc
          BY Zenon, <1>b, <4>1, <4>2
        <5> QED BY Zenon, <2>1, <5>1 DEF Registered
      <4>3. CASE desc[v] # e.desc
        <5>1. CASE ~done'[desc[v]]
          <6>1. done[desc[v]] = done'[desc[v]]
            BY Zenon, <1>t, <4>0, <4>1, <4>3
          <6>2. wpc[v] \notin {"run", "add"}
            BY Zenon, <1>b, <2>1 DEF Registered
          <6> QED BY Zenon, <5>1, <6>1, <6>2 DEF Registered
        <5>2. CASE done'[desc[v]]
          <6>1. PICK q \in Pollers : ppc'[q] = "rem" /\ cur'[q] = desc[v]
            BY Zenon, <1>b, <2>1, <5>2 DEF Registered
          <6>2. q # p
            BY Zenon, <1>t, <4>1, <4>3, <6>1
          <6> QED BY Zenon, <1>b, <1>f, <2>1, <6>1, <6>2 DEF Registered
        <5> QED BY Zenon, <5>1, <5>2
      <4> QED BY Zenon, <4>2, <4>3
    <3> QED BY Zenon, <3>1, <3>2
  <2> QED BY Zenon, <1>0, <1>b, <2>1 DEF Undisturbed
<1>6. EventNotLost'
  <2> SUFFICES ASSUME NEW v \in Waiters, Awaited(v)'
               PROVE  Coming(v)'
    BY Zenon DEF EventNotLost
  <2>0. ~done'[desc[v]] /\ wpc[v] \in {"deadline", "suspend", "wait"}
    BY Zenon, <1>b DEF Awaited
  <2>1. ~done[desc[v]] /\ mode'[desc[v]] = mode[desc[v]] /\ desc[v] \in Descs
    <3>1. desc[v] \in Descs
      BY Zenon, <1>0, <1>e, <2>0 DEF Owners
    <3> QED BY Zenon, <1>g, <2>0, <3>1
  <2>2. Coming(v)
    BY Zenon, <1>0, <1>b, <2>1 DEF EventNotLost, Awaited
  <2>3. ~(e.desc = desc[v] /\ e.gen = gen[desc[v]])
    <3> SUFFICES ASSUME e.desc = desc[v], e.gen = gen[desc[v]]
                 PROVE  FALSE
      BY Zenon
    <3>1. done' = [done EXCEPT ![e.desc] = TRUE]
      BY Zenon, <1>a, <2>1
    <3> QED BY Zenon, <1>c, <1>t, <2>0, <3>1
  <2>4. CASE reg[fd[desc[v]]] = desc[v] /\ pend[fd[desc[v]]] # {}
    BY Zenon, <1>b, <2>4 DEF Coming
  <2>5. CASE \E q \in Pollers : \E x \in batch[q] : x.desc = desc[v] /\ x.gen = gen[desc[v]]
    <3>0. PICK q \in Pollers : \E x \in batch[q] : x.desc = desc[v] /\ x.gen = gen[desc[v]]
      BY Zenon, <2>5
    <3>1. PICK x \in batch[q] : x.desc = desc[v] /\ x.gen = gen[desc[v]]
      BY Zenon, <3>0
    <3>2. x \in batch'[q]
      BY Zenon, <1>f, <2>3, <3>1
    <3> QED BY Zenon, <1>b, <3>1, <3>2 DEF Coming
  <2> QED BY Zenon, <2>2, <2>4, <2>5 DEF Coming
<1> QED BY Zenon, <1>1, <1>2, <1>3, <1>4, <1>5, <1>6, ReportsParts DEF EInv

\* The removal from epoll in coroc_netpoll_wakeup, keeps the invariant of the reports.
LEMMA UnregisterEInv ==
  ASSUME NInv, NInv', EInv, NEW p \in Pollers, Unregister(p)
  PROVE  EInv'
<1> USE NetpollAssumption DEF Unregister, Rem, PGoto, wvars, history
<1>0. /\ Typed /\ Owners /\ Stages /\ Deadlines /\ Winners /\ Events /\ Typed' /\ Owners'
      /\ ReportsLeft /\ ReportsGiven /\ ReportsPending /\ ReportsTaken
      /\ Undisturbed /\ EventNotLost
  BY Zenon, ReportsParts DEF NInv, EInv
<1>a. /\ reg' = [reg EXCEPT ![fd[cur[p]]] = NULL] /\ pend' = [pend EXCEPT ![fd[cur[p]]] = {}]
      /\ ppc[p] = "rem" /\ ppc' = [ppc EXCEPT ![p] = "wake"]
  BY Zenon
<1>b. UNCHANGED <<done, mode, fd, wait, want, level, wpc, desc, batch, cur, gen, clash, expired>>
  BY Zenon
<1>c. /\ cur[p] \in live /\ done[cur[p]] /\ wait[cur[p]] \in Waiters /\ desc[wait[cur[p]]] = cur[p]
      /\ wpc[wait[cur[p]]] \notin {"run", "add"} /\ fd[cur[p]] \in Fds
  <2> HIDE DEF Unregister
  <2>1. cur[p] # NULL /\ cur[p] \in live /\ done[cur[p]]
    BY Zenon, <1>0, <1>a DEF Winners
  <2>2. wpc[wait[cur[p]]] \in {"deadline", "suspend", "wait"}
    BY Zenon, <1>0, <2>1 DEF Winners
  <2>3. wait[cur[p]] \in Waiters /\ desc[wait[cur[p]]] = cur[p]
    BY Zenon, <1>0, <2>1 DEF Owners
  <2>4. fd[cur[p]] \in Fds
    BY Zenon, <1>0, <2>1, <2>3 DEF Owners
  <2>5. wpc[wait[cur[p]]] \notin {"run", "add"}
    BY Zenon, <2>2
  <2> QED BY Zenon, <2>1, <2>3, <2>4, <2>5
<1>t. /\ reg \in [Fds -> Descs \cup {NULL}] /\ pend \in [Fds -> SUBSET Bits]
      /\ ppc \in [Pollers -> {"idle", "check", "rem", "wake"}]
  BY Zenon, <1>0 DEF Typed
<1> HIDE DEF Unregister
<1>d. Registered(wait[cur[p]])
  BY Zenon, <1>a, <1>c DEF Registered
<1>e. \A q \in Pollers : ppc'[q] = "rem" => ppc[q] = "rem" /\ q # p
  BY Zenon, <1>a, <1>t
<1>f. ASSUME NEW v \in Waiters, Registered(v)', fd[desc[v]] \notin clash
      PROVE  /\ reg[fd[desc[v]]] = desc[v] /\ reg'[fd[desc[v]]] = desc[v]
             /\ pend'[fd[desc[v]]] = pend[fd[desc[v]]]
  <2>1. Registered(v)
    BY Zenon, <1>b, <1>e, <1>f DEF Registered
  <2>2. reg[fd[desc[v]]] = desc[v] /\ fd[desc[v]] \in Fds
    BY Zenon, <1>0, <1>f, <2>1 DEF Undisturbed, Registered, Owners
  <2>3. desc[v] # cur[p]
    <3> SUFFICES ASSUME desc[v] = cur[p]
                 PROVE  FALSE
      BY Zenon
    <3>1. PICK q \in Pollers : ppc'[q] = "rem" /\ cur'[q] = desc'[v]
      BY Zenon, <1>b, <1>c, <1>f DEF Registered
    <3>2. q # p /\ ppc[q] = "rem" /\ cur[q] = cur[p]
      BY Zenon, <1>b, <1>e, <3>1
    <3> QED BY Zenon, <1>0, <3>2 DEF Winners
  <2>4. fd[desc[v]] # fd[cur[p]]
    BY Zenon, <1>0, <1>c, <1>d, <1>f, <2>2, <2>3 DEF Undisturbed
  <2> QED BY Zenon, <1>a, <1>t, <2>2, <2>4
<1>1. ReportsLeft'
  BY Zenon, <1>0, <1>b DEF ReportsLeft
<1>2. ReportsGiven'
  BY Zenon, <1>0, <1>b DEF ReportsGiven
<1>3. ReportsPending'
  <2>1. \A f \in Fds : pend'[f] \in {pend[f], {}} /\ reg'[f] \in {reg[f], NULL}
    BY Zenon, <1>a, <1>t
  <2> QED BY Zenon, <1>0, <1>b, <2>1 DEF ReportsPending
<1>4. ReportsTaken'
  <2>1. \A q \in Pollers : ppc'[q] = "idle" => ppc[q] = "idle"
    BY Zenon, <1>a, <1>t
  <2> QED BY Zenon, <1>0, <1>b, <2>1 DEF ReportsTaken
<1>5. Undisturbed'
  BY Zenon, <1>b, <1>f DEF Undisturbed
<1>6. EventNotLost'
  <2> SUFFICES ASSUME NEW v \in Waiters, Awaited(v)'
               PROVE  Coming(v)'
    BY Zenon DEF EventNotLost
  <2>1. Awaited(v) /\ Registered(v)' /\ fd[desc[v]] \notin clash
    BY Zenon, <1>b DEF Awaited, Registered
  <2>2. Coming(v)
    BY Zenon, <1>0, <2>1 DEF EventNotLost
  <2>3. reg'[fd[desc[v]]] = reg[fd[desc[v]]] /\ pend'[fd[desc[v]]] = pend[fd[desc[v]]]
    <3>1. /\ reg[fd[desc[v]]] = desc[v] /\ reg'[fd[desc[v]]] = desc[v]
          /\ pend'[fd[desc[v]]] = pend[fd[desc[v]]]
      BY <1>f, <2>1
    <3> QED BY Zenon, <3>1
  <2> QED BY Zenon, <1>b, <2>2, <2>3 DEF Coming
<1> QED BY Zenon, <1>1, <1>2, <1>3, <1>4, <1>5, <1>6, ReportsParts DEF EInv

\* The wake-up by coroc_netpoll_wakeup, keeps the invariant of the reports.
LEMMA WakeEInv ==
  ASSUME NInv, NInv', EInv, NEW p \in Pollers, Wake(p)
  PROVE  EInv'
<1> USE NetpollAssumption DEF Wake, Goto, PGoto, dvars, epoll, history
<1>0. /\ Typed /\ Owners /\ Stages /\ Deadlines /\ Winners /\ Events /\ Typed' /\ Owners'
      /\ ReportsLeft /\ ReportsGiven /\ ReportsPending /\ ReportsTaken
      /\ Undisturbed /\ EventNotLost
  BY Zenon, ReportsParts DEF NInv, EInv
<1>1. ReportsLeft'
  BY Zenon, <1>0 DEF ReportsLeft
<1>2. ReportsGiven'
  BY Zenon, <1>0 DEF ReportsGiven
<1>3. ReportsPending'
  BY Zenon, <1>0 DEF ReportsPending
<1>4. ReportsTaken'
  <2>1. UNCHANGED <<batch, gen, done, mode>>
    BY Zenon
  <2>2. \A q \in Pollers : ppc'[q] = "idle" => batch[q] = {}
    BY <1>0 DEF ReportsTaken
  <2> HIDE DEF Wake
  <2> QED BY Zenon, <1>0, <2>1, <2>2 DEF ReportsTaken
<1>5. Undisturbed'
  <2>1. UNCHANGED <<desc, done, fd, clash, reg>> /\ wpc' = [wpc EXCEPT ![wait[cur[p]]] = "ready"]
    BY Zenon
  <2>2. \A q \in Pollers : ppc'[q] = "rem" => ppc[q] = "rem" /\ cur'[q] = cur[q]
    OBVIOUS
  <2>3. wpc[wait[cur[p]]] = "wait"
    BY Zenon, <1>0 DEF Winners
  <2>4. \A v \in Waiters : wpc'[v] \notin {"run", "add"} => wpc[v] \notin {"run", "add"}
    BY <2>1, <2>3
  <2>5. ASSUME NEW v \in Waiters, Registered(v)'
        PROVE  Registered(v)
    BY Zenon, <2>2, <2>4, <2>5 DEF Registered
  <2> QED BY Zenon, <1>0, <2>5 DEF Undisturbed
<1>6. EventNotLost'
  <2> SUFFICES ASSUME NEW v \in Waiters, Awaited(v)'
               PROVE  Coming(v)'
    BY Zenon DEF EventNotLost
  <2>1. UNCHANGED <<desc, done, fd, clash, reg, level, mode, gen, batch, pend>>
    BY Zenon
  <2>2. wpc'[v] \in {"deadline", "suspend", "wait"}
    BY Zenon DEF Awaited
  <2>3. wpc[v] = wpc'[v]
    BY <2>2
  <2>4. Awaited(v)
    BY Zenon, <2>3 DEF Awaited
  <2> QED BY Zenon, <1>0, <2>4 DEF EventNotLost, Coming
<1> QED BY Zenon, <1>1, <1>2, <1>3, <1>4, <1>5, <1>6, ReportsParts DEF EInv

\* A VPU that has handled its last event, keeps the invariant of the reports.
LEMMA PollEndsEInv ==
  ASSUME NInv, NInv', EInv, NEW p \in Pollers, PollEnds(p)
  PROVE  EInv'
<1> USE NetpollAssumption DEF PollEnds, PGoto, dvars, epoll, wvars, history
<1>0. /\ Typed /\ Owners /\ Stages /\ Deadlines /\ Winners /\ Events /\ Typed' /\ Owners'
      /\ ReportsLeft /\ ReportsGiven /\ ReportsPending /\ ReportsTaken
      /\ Undisturbed /\ EventNotLost
  BY Zenon, ReportsParts DEF NInv, EInv
<1>1. ReportsLeft'
  BY Zenon, <1>0 DEF ReportsLeft
<1>2. ReportsGiven'
  BY Zenon, <1>0 DEF ReportsGiven
<1>3. ReportsPending'
  BY Zenon, <1>0 DEF ReportsPending
<1>4. ReportsTaken'
  <2>1. UNCHANGED <<batch, gen, done, mode>>
    BY Zenon
  <2>2. \A q \in Pollers : ppc'[q] = "idle" => batch[q] = {}
    BY <1>0 DEF ReportsTaken
  <2> HIDE DEF PollEnds
  <2> QED BY Zenon, <1>0, <2>1, <2>2 DEF ReportsTaken
<1>5. Undisturbed'
  <2>1. UNCHANGED <<wpc, desc, done, fd, clash, reg, cur>>
    BY Zenon
  <2>2. \A q \in Pollers : ppc'[q] = "rem" => ppc[q] = "rem"
    BY Zenon, <1>0 DEF Typed
  <2> HIDE DEF PollEnds
  <2> QED BY Zenon, <1>0, <2>1, <2>2 DEF Undisturbed, Registered
<1>6. EventNotLost'
  <2>1. UNCHANGED <<wpc, desc, done, fd, clash, reg, level, mode, gen, batch, pend>>
    BY Zenon
  <2> HIDE DEF PollEnds
  <2> QED BY <1>0, <2>1 DEF EventNotLost, Awaited, Coming
<1> QED BY Zenon, <1>1, <1>2, <1>3, <1>4, <1>5, <1>6, ReportsParts DEF EInv

\* An event of the kernel, keeps the invariant of the reports.
LEMMA EdgeEInv ==
  ASSUME NInv, NInv', EInv, NEW f \in Fds, NEW b \in Bits, Edge(f, b)
  PROVE  EInv'
<1> USE NetpollAssumption DEF Edge, dvars, wvars, pvars, history
<1>0. /\ Typed /\ Owners /\ Stages /\ Deadlines /\ Winners /\ Events /\ Typed' /\ Owners'
      /\ ReportsLeft /\ ReportsGiven /\ ReportsPending /\ ReportsTaken
      /\ Undisturbed /\ EventNotLost
  BY Zenon, ReportsParts DEF NInv, EInv
<1>1. ReportsLeft'
  BY Zenon, <1>0 DEF ReportsLeft
<1>2. ReportsGiven'
  BY Zenon, <1>0 DEF ReportsGiven
<1>3. ReportsPending'
  <2>1. UNCHANGED <<reg, want, done, mode>>
    BY Zenon
  <2>2. ASSUME NEW g \in Fds PROVE pend'[g] \subseteq want[g]
    <3>1. pend[g] \subseteq want[g]
      BY Zenon, <1>0 DEF ReportsPending
    <3>2. pend'[g] = pend[g] \/ (g = f /\ b \in want[f] /\ pend'[g] = pend[g] \cup {b})
      OBVIOUS
    <3> QED BY <3>1
  <2> QED BY <1>0 DEF ReportsPending
<1>4. ReportsTaken'
  BY Zenon, <1>0 DEF ReportsTaken
<1>5. Undisturbed'
  BY Zenon, <1>0 DEF Undisturbed, Registered
<1>6. EventNotLost'
  <2> SUFFICES ASSUME NEW v \in Waiters, Awaited(v)'
               PROVE  Coming(v)'
    BY Zenon DEF EventNotLost
  <2>1. UNCHANGED <<wpc, desc, done, fd, clash, reg, want, mode, gen, batch>>
    BY Zenon
  <2>2. Registered(v) /\ fd[desc[v]] \notin clash
    BY Zenon DEF Awaited, Registered
  <2>3. /\ reg[fd[desc[v]]] = desc[v] /\ fd[desc[v]] \in Fds /\ ~done[desc[v]] /\ desc[v] # NULL
    BY Zenon, <1>0, <2>2 DEF Undisturbed, Awaited, Owners
  <2>4. want[fd[desc[v]]] = mode[desc[v]] \cup {"e"}
    BY Zenon, <1>0, <2>3 DEF ReportsPending
  <2>a. pend \in [Fds -> SUBSET Bits] /\ level \in [Fds -> SUBSET Bits]
    BY Zenon, <1>0 DEF Typed
  <2>5. pend[fd[desc[v]]] \subseteq pend'[fd[desc[v]]]
    BY Zenon, <2>3, <2>a
  <2>6. CASE Awaited(v)
    <3>1. Coming(v)
      BY Zenon, <1>0, <2>6 DEF EventNotLost
    <3> QED BY Zenon, <2>5, <3>1 DEF Coming
  <2>7. CASE ~Awaited(v)
    <3>1. fd[desc[v]] = f /\ b \in mode[desc[v]] \cup {"e"}
      <4>1. level'[fd[desc[v]]] # level[fd[desc[v]]]
        BY Zenon, <2>7 DEF Awaited
      <4>2. fd[desc[v]] = f /\ level'[f] = level[f] \cup {b}
        BY Zenon, <2>3, <2>a, <4>1
      <4>3. level[f] \cap (mode[desc[v]] \cup {"e"}) = {}
        BY Zenon, <2>7, <4>2 DEF Awaited
      <4>4. (level[f] \cup {b}) \cap (mode[desc[v]] \cup {"e"}) # {}
        BY Zenon, <4>2 DEF Awaited
      <4> QED BY Zenon, <4>2, <4>3, <4>4
    <3>2. b \in pend'[f]
      BY <1>0, <2>3, <2>4, <3>1 DEF Typed
    <3> QED BY Zenon, <2>3, <3>1, <3>2 DEF Coming
  <2> QED BY Zenon, <2>6, <2>7
<1> QED BY Zenon, <1>1, <1>2, <1>3, <1>4, <1>5, <1>6, ReportsParts DEF EInv

-----------------------------------------------------------------------------
\* The invariant of the reports holds at first.
LEMMA InitEInv == Init => EInv
<1> SUFFICES ASSUME Init PROVE EInv
  BY Zenon
<1>1. Reports
  BY Zenon DEF Init, Reports
<1>2. Undisturbed
  BY Zenon DEF Init, Undisturbed, Registered
<1>3. EventNotLost
  BY Zenon DEF Init, EventNotLost, Awaited
<1> QED BY Zenon, <1>1, <1>2, <1>3 DEF EInv

\* Both invariants, and every kind of step.
Good == Inv /\ EInv

\* A wait begins.
LEMMA BeginGood ==
  ASSUME Good, NEW w \in Waiters, NEW f \in Fds, NEW m \in {{"r"}, {"w"}}, NEW t \in BOOLEAN,
         Begin(w, f, m, t)
  PROVE  Good'
BY Zenon, BeginInv, BeginEInv DEF Good, Inv

\* A waiter, the timer daemon or a poller goes on.
LEMMA StepGood ==
  ASSUME Good,
         \/ \E w \in Waiters : WaiterSteps(w) \/ Fire(w)
         \/ TimerSteps
         \/ \E p \in Pollers : PollerSteps(p)
  PROVE  Good'
<1>0. NInv /\ EInv /\ Inv /\ Inv' /\ NInv'
  BY Zenon, StepInv DEF Good, Inv
<1>1. ASSUME NEW w \in Waiters, WaiterSteps(w) \/ Fire(w)
      PROVE  EInv'
  BY Zenon, <1>0, <1>1, AddEInv, DeadlineEInv, SuspendEInv, DelDeadlineEInv, FinishEInv, FireEInv
  DEF WaiterSteps
<1>2. ASSUME TimerSteps
      PROVE  EInv'
  BY Zenon, <1>0, <1>2, TimeoutCheckEInv, TimeoutWakeEInv, TimeoutPutEInv DEF TimerSteps
<1>3. ASSUME NEW p \in Pollers, PollerSteps(p)
      PROVE  EInv'
  BY Zenon, <1>0, <1>3, PollEInv, CheckEInv, UnregisterEInv, WakeEInv,
     PollEndsEInv DEF PollerSteps
<1> QED BY Zenon, <1>0, <1>1, <1>2, <1>3 DEF Good

\* A file descriptor becomes ready.
LEMMA EdgeGood ==
  ASSUME Good, NEW f \in Fds, NEW b \in Bits, Edge(f, b)
  PROVE  Good'
BY Zenon, EdgeInv, EdgeEInv DEF Good, Inv

\* File descriptors are no longer ready, and nothing else changes.
LEMMA LevelGood ==
  ASSUME Good, level' \in [Fds -> SUBSET Bits], \A f \in Fds : level'[f] \subseteq level[f],
         UNCHANGED <<dvars, reg, want, pend, num_op, wvars, tvars, pvars, history>>
  PROVE  Good'
<1> USE DEF dvars, wvars, tvars, pvars, history
<1>0. Owners /\ Reports /\ Undisturbed /\ EventNotLost
  BY Zenon DEF Good, Inv, NInv, EInv
<1>1. Reports' /\ Undisturbed'
  <2>1. Reports'
    BY Zenon, <1>0 DEF Reports
  <2>2. \A v \in Waiters : Registered(v)' <=> Registered(v)
    BY Zenon DEF Registered
  <2>3. Undisturbed'
    BY Zenon, <1>0, <2>2 DEF Undisturbed
  <2> QED BY Zenon, <2>1, <2>3
<1>2. ASSUME NEW v \in Waiters, Awaited(v)'
      PROVE  Coming(v)'
  <2>1. fd[desc[v]] \in Fds
    BY Zenon, <1>0, <1>2 DEF Awaited, Owners
  <2>2. Awaited(v)
    <3>1. /\ wpc[v] \in {"deadline", "suspend", "wait"} /\ ~done[desc[v]]
          /\ fd[desc[v]] \notin clash
          /\ level'[fd[desc[v]]] \cap (mode[desc[v]] \cup {"e"}) # {}
      BY Zenon, <1>2 DEF Awaited
    <3>2. level[fd[desc[v]]] \cap (mode[desc[v]] \cup {"e"}) # {}
      BY Zenon, <2>1, <3>1
    <3> QED BY Zenon, <3>1, <3>2 DEF Awaited
  <2> QED BY Zenon, <1>0, <2>2 DEF EventNotLost, Coming
<1>3. Inv'
  BY Zenon, LevelInv DEF Good
<1> QED BY Zenon, <1>1, <1>2, <1>3 DEF Good, EInv, EventNotLost

\* What the invariants say of results and events.
LEMMA GoodImplies == Good => /\ TypeOK /\ RefExact /\ SizeExact /\ OneWake
                             /\ ZeroMeansTimeout /\ EventNotLost
<1> SUFFICES ASSUME Good
             PROVE  TypeOK /\ RefExact /\ SizeExact /\ OneWake /\ ZeroMeansTimeout /\ EventNotLost
  BY Zenon
<1>1. ZeroMeansTimeout
  BY Zenon DEF Good, Inv, NInv, EInv, Owners, Reports, ZeroMeansTimeout
<1> QED BY Zenon, <1>1, InvImplies DEF Good, EInv

\* Whatever waits the coroutines begin and whenever file descriptors become
\* ready: a wait returns 0 exactly if its deadline has won, and no event that a
\* coroutine waits for is lost, unless two have waited for the file descriptor.
THEOREM NetpollReports == Spec => [](ZeroMeansTimeout /\ EventNotLost)
<1>1. Good /\ [Next]_vars => Good'
  <2> SUFFICES ASSUME Good, [Next]_vars PROVE Good'
    BY Zenon
  <2>1. CASE UNCHANGED vars
    BY Zenon, <2>1, LevelGood DEF Good, Inv, NInv, Typed, vars, epoll
  <2>2. CASE Next
    BY Zenon, <2>2, BeginGood, StepGood, EdgeGood DEF Next
  <2> QED BY Zenon, <2>1, <2>2
<1>2. Init => Good
  BY Zenon, InitInv, InitEInv DEF Good
<1> QED BY <1>1, <1>2, GoodImplies, PTL DEF Spec
=============================================================================
