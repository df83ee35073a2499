---------------------------- MODULE NetIOProofs ----------------------------
(***************************************************************************)
(* Proofs about NetIO, for any programs, file descriptors and numbers of     *)
(* coroutines, VPUs and addresses: Netpoll's invariants hold when its waits  *)
(* are those of the network operations, and a wait tells its caller of what  *)
(* it has asked for.                                                        *)
(***************************************************************************)
EXTENDS NetIO, NetpollEventProofs

IOInv == Good /\ IOTyped /\ Begun /\ Told

\* The steps of netpoll keep what a wait is to tell its caller: those that do
\* not touch modes, the end of a wait, the deadline and the event that wins.
LEMMA StepTold ==
  ASSUME NInv, Told, asked' = asked,
         \/ \E w \in Waiters : WaiterSteps(w) \/ Fire(w)
         \/ TimerSteps
         \/ \E p \in Pollers : PollerSteps(p)
  PROVE  Told'
<1>0. Typed /\ Owners /\ Deadlines
  BY Zenon DEF NInv
<1>1. CASE UNCHANGED <<mode, desc, carried>>
  BY Zenon, <1>1 DEF Told
<1>2. ASSUME NEW w \in Waiters, Finish(w)
      PROVE  Told'
  <2>1. desc' = [desc EXCEPT ![w] = NULL] /\ UNCHANGED <<mode, carried>>
    BY Zenon, <1>2 DEF Finish, history
  <2>2. \A v \in Waiters : desc'[v] # NULL => desc'[v] = desc[v]
    BY <2>1
  <2> QED BY <2>1 DEF Told
<1>3. CASE TimeoutCheck
  <2>1. UNCHANGED <<desc,
                    carried>> /\ (UNCHANGED mode \/ mode' = [mode EXCEPT ![desc[tcur]] = {}])
    BY Zenon, <1>3 DEF TimeoutCheck, TimeoutMode, wvars
  <2>2. \A v \in Waiters : desc[v] # NULL => mode'[desc[v]] \subseteq mode[desc[v]]
    BY Zenon, <1>0, <2>1 DEF Typed
  <2> QED BY Zenon, <2>1, <2>2 DEF Told
<1>4. ASSUME NEW p \in Pollers, Check(p)
      PROVE  Told'
  <2>1. PICK e \in batch[p] :
          \/ UNCHANGED <<mode, carried>>
          \/ /\ mode' = [mode EXCEPT ![e.desc] = ModeOf(pmode[p], e.desc, e.ev)]
             /\ carried' = IF pmode[p] = {} THEN carried ELSE carried \cup {wait[e.desc]}
    BY Zenon, <1>4 DEF Check
  <2>2. UNCHANGED desc /\ e.desc \in Descs
    BY <1>0, <1>4 DEF Check, wvars, Typed
  <2>3. pmode[p] = {} => ModeOf(pmode[p], e.desc, e.ev) \subseteq mode[e.desc] \cup {"e"}
    BY Zenon DEF ModeOf
  <2>4. ASSUME NEW v \in Waiters, desc[v] # NULL, v \notin carried'
        PROVE  mode'[desc[v]] \subseteq asked[v] \cup {"e"}
    <3>0. v \notin carried /\ desc[v] \in Descs /\ wait[desc[v]] = v
      BY <1>0, <2>1, <2>4 DEF Typed, Owners
    <3>1. mode[desc[v]] \subseteq asked[v] \cup {"e"}
      BY Zenon, <2>4, <3>0 DEF Told
    <3>2. CASE mode'[desc[v]] = mode[desc[v]]
      BY Zenon, <3>1, <3>2
    <3>3. CASE mode'[desc[v]] # mode[desc[v]]
      <4>1. /\ desc[v] = e.desc /\ mode'[desc[v]] = ModeOf(pmode[p], e.desc, e.ev)
            /\ carried' = IF pmode[p] = {} THEN carried ELSE carried \cup {wait[e.desc]}
        BY Zenon, <1>0, <2>1, <3>0, <3>3 DEF Typed
      <4>2. pmode[p] = {}
        BY Zenon, <2>4, <3>0, <4>1
      <4> QED BY Zenon, <2>3, <3>1, <4>1, <4>2
    <3> QED BY Zenon, <3>2, <3>3
  <2> QED BY Zenon, <2>2, <2>4 DEF Told
<1>5. ASSUME NEW w \in Waiters, WaiterSteps(w) \/ Fire(w)
      PROVE  Told'
  <2>1. CASE Add(w) \/ Deadline(w) \/ Suspend(w) \/ DelDeadline(w) \/ Fire(w)
    BY Zenon, <1>1, <2>1 DEF Add, Deadline, Suspend, DelDeadline, Fire, dvars, wvars, history
  <2> QED BY Zenon, <1>2, <1>5, <2>1 DEF WaiterSteps
<1>6. CASE TimerSteps
  <2>1. CASE TimeoutWake \/ TimeoutPut
    BY Zenon, <1>1, <2>1 DEF TimeoutWake, TimeoutPut, dvars, wvars, history
  <2> QED BY Zenon, <1>3, <1>6, <2>1 DEF TimerSteps
<1>7. ASSUME NEW p \in Pollers, PollerSteps(p)
      PROVE  Told'
  <2>1. CASE Poll(p) \/ Unregister(p) \/ Wake(p) \/ PollEnds(p)
    BY Zenon, <1>1, <2>1 DEF Poll, Unregister, Wake, PollEnds, dvars, wvars, history
  <2> QED BY Zenon, <1>4, <1>7, <2>1 DEF PollerSteps
<1> QED BY Zenon, <1>5, <1>6, <1>7

-----------------------------------------------------------------------------
\* The operation that a waiter is to perform, and what is left after it.
LEMMA OpType ==
  ASSUME IOTyped, NEW w \in Waiters, todo[w] # <<>>
  PROVE  Op(w) \in Ops /\ Tail(todo[w]) \in Seq(Ops)
BY DEF IOTyped, Op

\* An operation ends, whatever it returns.
LEMMA ReturnKeeps ==
  ASSUME IOTyped, Begun, NEW w \in Waiters, todo[w] # <<>>,
         NEW r \in {"ok", "short", "fail"}, Return(w, r)
  PROVE  /\ todo' \in [Waiters -> Seq(Ops)] /\ sock' \in [Waiters -> Fds \cup {NULL}]
         /\ at' \in [Waiters -> {"idle", "opened", "try", "block", "waiting"}]
         /\ total' \in [Waiters -> 0 .. N] /\ ret' \in [Waiters -> {"ok", "short", "fail"}]
         /\ Begun'
<1>1. Tail(todo[w]) \in Seq(Ops)
  BY Zenon, OpType
<1>2. todo' \in [Waiters -> Seq(Ops)] /\ sock' \in [Waiters -> Fds \cup {NULL}]
  BY DEF IOTyped, Return
<1>3. /\ at' \in [Waiters -> {"idle", "opened", "try", "block", "waiting"}]
      /\ ret' \in [Waiters -> {"ok", "short", "fail"}] /\ total' \in [Waiters -> 0 .. N]
  BY NetIOAssumption DEF IOTyped, Return, At
<1>4. Begun'
  BY Zenon DEF IOTyped, Begun, Return, At
<1> QED BY Zenon, <1>2, <1>3, <1>4

\* A socket is closed, or nothing happens to levels.
LEMMA LevelKeeps ==
  ASSUME IOInv, level' \in [Fds -> SUBSET Bits], \A f \in Fds : level'[f] \subseteq level[f],
         UNCHANGED <<dvars, reg, want, pend, num_op, wvars, tvars, pvars, history, asked>>
  PROVE  Good' /\ Told'
<1>1. Good'
  BY Zenon, LevelGood DEF IOInv
<1>2. Told'
  BY Zenon DEF IOInv, Told, dvars, wvars, history
<1> QED BY Zenon, <1>1, <1>2

\* A call that begins, with a socket of its own for a dial or an announcement, keeps the
\* invariant.
LEMMA StartInv ==
  ASSUME IOInv, NEW w \in Waiters, Start(w)
  PROVE  IOInv'
<1>0. IOTyped /\ Begun /\ at[w] = "idle" /\ todo[w] # <<>> /\ level \in [Fds -> SUBSET Bits]
  BY Zenon DEF IOInv, Start, Good, Inv, NInv, Typed
<1>1. Good' /\ Told'
  BY Zenon, <1>0, LevelKeeps DEF Start, vars, epoll
<1>2. Op(w) \in Ops
  BY Zenon, <1>0, OpType
<1>3. eof' = eof /\ edges' = edges /\ asked' = asked
  BY Zenon DEF Start
<1>4. CASE Return(w, "fail") /\ UNCHANGED <<open, held>>
  BY Zenon, <1>0, <1>1, <1>3, <1>4, ReturnKeeps DEF IOInv, IOTyped
<1>5. CASE \E f \in Fds, l \in {"try", "block", "opened"} :
              /\ sock' = [sock EXCEPT ![w] = f] /\ At(w, l)
              /\ open' \subseteq Fds /\ UNCHANGED <<held, todo, total, ret>>
  <2>1. PICK f \in Fds, l \in {"try", "block", "opened"} :
              /\ sock' = [sock EXCEPT ![w] = f] /\ at' = [at EXCEPT ![w] = l]
              /\ open' \subseteq Fds /\ UNCHANGED <<held, todo, total, ret>>
    BY Zenon, <1>5 DEF At
  <2>2. IOTyped'
    BY Zenon, <1>0, <1>3, <2>1 DEF IOTyped
  <2>3. Begun'
    BY Zenon, <1>0, <2>1 DEF IOTyped, Begun
  <2> QED BY Zenon, <1>1, <2>2, <2>3 DEF IOInv
<1>6. open \subseteq Fds /\ (Kind(w) \in {"accept", "timed_accept"} => Op(w).fd \in Fds)
  BY Zenon, <1>0, <1>2 DEF IOTyped, Ops, Dials, Kind
<1> QED BY Zenon, <1>4, <1>5, <1>6 DEF Start

\* A dial that closes its socket, and an accept that opens one, leave the operations in
\* order.
LEMMA FailKeeps ==
  ASSUME IOInv, NEW w \in Waiters, at[w] # "idle", Fail(w) \/ \E f \in Fds : Deliver(w, f)
  PROVE  /\ Begun' /\ open' \subseteq Fds /\ held' \subseteq Fds /\ eof' \subseteq Fds
         /\ todo' \in [Waiters -> Seq(Ops)] /\ sock' \in [Waiters -> Fds \cup {NULL}]
         /\ at' \in [Waiters -> {"idle", "opened", "try", "block", "waiting"}]
         /\ total' \in [Waiters -> 0 .. N] /\ ret' \in [Waiters -> {"ok", "short", "fail"}]
         /\ level' \in [Fds -> SUBSET Bits] /\ \A f \in Fds : level'[f] \subseteq level[f]
<1>0. IOTyped /\ Begun /\ todo[w] # <<>> /\ level \in [Fds -> SUBSET Bits] /\ sock[w] \in Fds
  BY Zenon DEF IOInv, Begun, Good, Inv, NInv, Typed
<1>1. Return(w, "fail") \/ Return(w, "ok")
  BY Zenon DEF Fail, Deliver
<1>2. open' \subseteq Fds /\ held' \subseteq Fds /\ eof' \subseteq Fds
  BY Zenon, <1>0 DEF IOTyped, Fail, Deliver
<1>3. level' \in [Fds -> SUBSET Bits] /\ \A f \in Fds : level'[f] \subseteq level[f]
  BY Zenon, <1>0 DEF Fail, Deliver
<1> QED BY Zenon, <1>0, <1>1, <1>2, <1>3, ReturnKeeps

\* An operation stays where it is or goes on to another stage.
LEMMA GoKeeps ==
  ASSUME IOInv, NEW w \in Waiters, at[w] # "idle",
         NEW l \in {"opened", "try", "block", "waiting"}, At(w, l),
         UNCHANGED <<todo, sock, total, ret>>
  PROVE  /\ Begun' /\ todo' \in [Waiters -> Seq(Ops)] /\ sock' \in [Waiters -> Fds \cup {NULL}]
         /\ at' \in [Waiters -> {"idle", "opened", "try", "block", "waiting"}]
         /\ total' \in [Waiters -> 0 .. N] /\ ret' \in [Waiters -> {"ok", "short", "fail"}]
BY Zenon DEF IOInv, IOTyped, Begun, At

\* A socket that coroc_net_announce opens keeps the invariant.
LEMMA OpenedInv ==
  ASSUME IOInv, NEW w \in Waiters, Opened(w)
  PROVE  IOInv'
<1>0. /\ IOTyped /\ level \in [Fds -> SUBSET Bits] /\ sock[w] \in Fds /\ at[w] # "idle"
      /\ edges' = edges /\ asked' = asked
  BY Zenon DEF IOInv, Begun, Good, Inv, NInv, Typed, Opened
<1>1. CASE Fail(w) \/ Deliver(w, sock[w])
  <2>1. Fail(w) \/ \E f \in Fds : Deliver(w, f)
    BY Zenon, <1>0, <1>1
  <2> QED BY Zenon, <2>1, FailKeeps, LevelKeeps DEF IOInv, IOTyped, Opened
<1>2. CASE At(w, "block") /\ UNCHANGED <<open, held, todo, sock, total, ret, level, eof>>
  BY Zenon, <1>0, <1>2, GoKeeps, LevelKeeps DEF IOInv, IOTyped, Opened
<1> QED BY Zenon, <1>1, <1>2 DEF Opened

\* An attempt of coroc_net_read, write, accept or connect keeps the invariant.
LEMMA TryInv ==
  ASSUME IOInv, NEW w \in Waiters, Try(w)
  PROVE  IOInv'
<1>0. /\ IOTyped /\ Begun /\ level \in [Fds -> SUBSET Bits] /\ sock[w] \in Fds /\ todo[w] # <<>>
      /\ at[w] # "idle" /\ UNCHANGED <<edges, asked, open, held, eof>>
  BY Zenon DEF IOInv, Begun, Good, Inv, NInv, Typed, Try
<1>1. level' \in [Fds -> SUBSET Bits] /\ \A f \in Fds : level'[f] \subseteq level[f]
  BY Zenon, <1>0 DEF Try
<1>2. Good' /\ Told'
  BY Zenon, <1>1, LevelKeeps DEF Try
<1>3. CASE Return(w, "fail") \/ Return(w, "short") \/ Return(w, "ok")
  BY Zenon, <1>0, <1>2, <1>3, ReturnKeeps DEF IOInv, IOTyped
<1>4. CASE At(w, "block") /\ UNCHANGED <<todo, sock, total, ret>>
  BY Zenon, <1>0, <1>2, <1>4, GoKeeps DEF IOInv, IOTyped
<1>5. ASSUME NEW k \in 1 .. N - total[w], total' = [total EXCEPT ![w] = @ + k],
             UNCHANGED <<todo, at, sock, ret>>
      PROVE  IOInv'
  <2>1. total' \in [Waiters -> 0 .. N]
    BY <1>0, <1>5, NetIOAssumption DEF IOTyped
  <2> QED BY Zenon, <1>0, <1>2, <1>5, <2>1 DEF IOInv, IOTyped, Begun
<1> QED BY Zenon, <1>3, <1>4, <1>5 DEF Try, Moved

\* A call that turns to waiting keeps the invariant.
LEMMA BlockInv ==
  ASSUME IOInv, NEW w \in Waiters, Block(w)
  PROVE  IOInv'
<1>0. /\ IOTyped /\ Begun /\ sock[w] \in Fds /\ todo[w] # <<>> /\ at[w] # "idle"
      /\ At(w, "waiting") /\ UNCHANGED <<open, held, todo, sock, total, ret, eof, edges>>
      /\ Typed /\ Owners
  BY Zenon DEF IOInv, Begun, Block, Good, Inv, NInv
<1>1. WaitMode(w) \in {{"r"}, {"w"}} /\ IsTimed(w) \in BOOLEAN
  BY DEF WaitMode, IsTimed
<1>2. Begin(w, sock[w], WaitMode(w), IsTimed(w)) /\ asked' = [asked EXCEPT ![w] = WaitMode(w)]
  BY Zenon DEF Block
<1>3. Good'
  BY Zenon, <1>0, <1>1, <1>2, BeginGood DEF IOInv
<1>4. asked' \in [Waiters -> SUBSET Bits]
  BY Zenon, <1>0, <1>1, <1>2, NetpollAssumption DEF IOTyped
<1>5. IOTyped' /\ Begun'
  BY Zenon, <1>0, <1>4, GoKeeps DEF IOTyped
<1>6. Told'
  <2>1. PICK a \in Free : mode' = [mode EXCEPT ![a] = WaitMode(w)] /\ desc' = [desc EXCEPT ![w] = a]
    BY Zenon, <1>2 DEF Begin
  <2>2. carried' = carried \ {w}
    BY Zenon, <1>2 DEF Begin
  <2>3. ASSUME NEW v \in Waiters, v # w, desc'[v] # NULL, v \notin carried'
        PROVE  mode'[desc'[v]] \subseteq asked'[v] \cup {"e"}
    <3>1. desc'[v] = desc[v] /\ desc[v] \in live /\ desc[v] # a /\ asked'[v] = asked[v]
      BY <1>0, <1>2, <2>1, <2>3 DEF Typed, Owners, IOTyped, Free
    <3>2. mode'[desc[v]] = mode[desc[v]] /\ v \notin carried
      BY <2>1, <2>2, <2>3, <3>1 DEF Typed
    <3> QED BY Zenon, <2>3, <3>1, <3>2 DEF IOInv, Told
  <2>4. mode'[desc'[w]] \subseteq asked'[w] \cup {"e"}
    BY Zenon, <1>0, <1>2, <2>1 DEF Typed, IOTyped, Free
  <2> QED BY Zenon, <2>3, <2>4 DEF Told
<1> QED BY Zenon, <1>3, <1>5, <1>6 DEF IOInv

\* A call that returns from its wait keeps the invariant.
LEMMA WokenInv ==
  ASSUME IOInv, NEW w \in Waiters, Woken(w)
  PROVE  IOInv'
<1>0. /\ IOTyped /\ Begun /\ level \in [Fds -> SUBSET Bits] /\ sock[w] \in Fds /\ todo[w] # <<>>
      /\ at[w] # "idle" /\ edges' = edges /\ asked' = asked
  BY Zenon DEF IOInv, Begun, Good, Inv, NInv, Typed, Woken
<1>1. CASE Fail(w) \/ \E f \in Fds : Deliver(w, f)
  BY Zenon, <1>1, FailKeeps, LevelKeeps DEF IOInv, IOTyped, Woken
<1>2. CASE Return(w, "fail") /\ UNCHANGED <<open, held, level, eof>>
  BY Zenon, <1>0, <1>2, ReturnKeeps, LevelKeeps DEF IOInv, IOTyped, Woken
<1>3. CASE At(w, "try") /\ UNCHANGED <<open, held, todo, sock, total, ret, level, eof>>
  BY Zenon, <1>0, <1>3, GoKeeps, LevelKeeps DEF IOInv, IOTyped, Woken
<1> QED BY Zenon, <1>0, <1>1, <1>2, <1>3 DEF Woken

\* What the other side of a connection does keeps the invariant.
LEMMA PeerInv ==
  ASSUME IOInv, NEW f \in Fds, Peer(f)
  PROVE  IOInv'
<1>1. PICK b \in Bits : Edge(f, b)
  BY Zenon, NetpollAssumption DEF Peer
<1>2. Good'
  BY Zenon, <1>1, EdgeGood DEF IOInv
<1>3. IOTyped'
  BY NetIOAssumption DEF IOInv, IOTyped, Peer
<1>4. Begun'
  BY Zenon DEF IOInv, Begun, Peer
<1>5. Told'
  BY Zenon DEF IOInv, Told, Peer, Edge, dvars, wvars, history
<1> QED BY Zenon, <1>2, <1>3, <1>4, <1>5 DEF IOInv

\* The steps of netpoll leave the operations alone.
LEMMA NetpollStepInv ==
  ASSUME IOInv, UNCHANGED iovars,
         \/ \E w \in Waiters : WaiterSteps(w) \/ Fire(w)
         \/ TimerSteps
         \/ \E p \in Pollers : PollerSteps(p)
  PROVE  IOInv'
<1>1. Good'
  BY Zenon, StepGood DEF IOInv
<1>2. Told'
  BY Zenon, StepTold DEF IOInv, Good, Inv, iovars
<1>3. IOTyped' /\ Begun'
  BY Zenon DEF IOInv, IOTyped, Begun, iovars
<1> QED BY Zenon, <1>1, <1>2, <1>3 DEF IOInv

\* The invariant of network operations.
LEMMA IOInvariance == IOSpec => []IOInv
<1>1. IOInit => IOInv
  <2> SUFFICES ASSUME IOInit PROVE IOInv
    OBVIOUS
  <2>1. Good
    BY Zenon, InitInv, InitEInv DEF IOInit, Good
  <2>2. IOTyped
    BY NetIOAssumption DEF IOInit, IOTyped
  <2>3. Begun /\ Told
    BY Zenon DEF IOInit, Init, Begun, Told
  <2> QED BY Zenon, <2>1, <2>2, <2>3 DEF IOInv
<1>2. IOInv /\ [IONext]_allvars => IOInv'
  <2> SUFFICES ASSUME IOInv, [IONext]_allvars PROVE IOInv'
    OBVIOUS
  <2>1. CASE UNCHANGED allvars
    <3>1. level' \in [Fds -> SUBSET Bits] /\ \A f \in Fds : level'[f] \subseteq level[f]
      BY Zenon, <2>1 DEF IOInv, Good, Inv, NInv, Typed, allvars, vars, epoll
    <3>2. Good' /\ Told'
      BY Zenon, <2>1, <3>1, LevelKeeps DEF allvars, vars, iovars, epoll
    <3> QED BY Zenon, <2>1, <3>2 DEF IOInv, IOTyped, Begun, allvars, iovars
  <2>2. CASE IONext
    BY Zenon, <2>2, StartInv, OpenedInv, TryInv, BlockInv, WokenInv, PeerInv, NetpollStepInv
    DEF IONext, Waits, Expires, Times, Polls
  <2> QED BY Zenon, <2>1, <2>2
<1> QED BY <1>1, <1>2, PTL DEF IOSpec

-----------------------------------------------------------------------------
\* The state of network operations and of netpoll under them is well typed; a
\* read or write never counts more units than it was asked for.
THEOREM NetIOTypes == IOSpec => []IOTypeOK
<1>1. IOInv => IOTypeOK
  BY Zenon, GoodImplies DEF IOInv, IOTypeOK
<1> QED BY <1>1, IOInvariance, PTL

\* coroc_refcnt_put frees a poll descriptor exactly when its waiter, the last
\* user, is done: the count is the number of its users at all times.
THEOREM NetIORefExact == IOSpec => []RefExact
<1>1. IOInv => RefExact
  BY Zenon, GoodImplies DEF IOInv
<1> QED BY <1>1, IOInvariance, PTL

\* __coroc_netpoll_size counts the waits whose event or deadline is to come.
THEOREM NetIOSizeExact == IOSpec => []SizeExact
<1>1. IOInv => SizeExact
  BY Zenon, GoodImplies DEF IOInv
<1> QED BY <1>1, IOInvariance, PTL

\* vpu_ready is called once for each wait, for a coroutine that is suspended.
THEOREM NetIOOneWake == IOSpec => []OneWake
<1>1. IOInv => OneWake
  BY Zenon, GoodImplies DEF IOInv
<1> QED BY <1>1, IOInvariance, PTL

\* A wait returns 0 exactly if __coroc_netpoll_timeout has won.
THEOREM NetIOZeroMeansTimeout == IOSpec => []ZeroMeansTimeout
<1>1. IOInv => ZeroMeansTimeout
  BY Zenon, GoodImplies DEF IOInv
<1> QED BY <1>1, IOInvariance, PTL

\* Edge-triggered epoll loses no event between the failed system call and the
\* suspension, unless two coroutines have waited for the file descriptor.
THEOREM NetIOEventNotLost == IOSpec => []EventNotLost
<1>1. IOInv => EventNotLost
  BY Zenon, GoodImplies DEF IOInv
<1> QED BY <1>1, IOInvariance, PTL

\* A wait tells its caller of no event that it has not asked for, unless the
\* event came after another one in the same batch of a poller.
THEOREM NetIOOwnMode == IOSpec => []OwnMode
<1>1. IOInv => OwnMode
  BY Zenon DEF IOInv, Good, Inv, NInv, Owners, Told, OwnMode
<1> QED BY <1>1, IOInvariance, PTL
=============================================================================
