------------------------------- MODULE NetIO -------------------------------
(***************************************************************************)
(* Network operations over netpoll: coroc_net_read, coroc_net_timed_read    *)
(* and coroc_net_write of src/netpoll.c; coroc_net_announce, coroc_net_      *)
(* accept and coroc_net_dial, with and without a deadline, of src/net.c.     *)
(*                                                                         *)
(* Of a socket the model keeps what it is ready for and whether it is open; *)
(* of data, how many units an operation has moved.                          *)
(***************************************************************************)
EXTENDS Netpoll, Sequences

CONSTANTS
  Programs,  \* the sequences of operations that the waiters may perform
  Spare,     \* file descriptors that are not open at first
  N,         \* units that a read or write is asked for
  MaxEdges   \* how often file descriptors become ready

VARIABLES
  open,      \* open file descriptors
  held,      \* file descriptors that the program knows of
  todo,      \* the operations a waiter has yet to perform
  at,        \* where it is in its operation
  sock,      \* the file descriptor of its operation
  total,     \* units moved
  ret,       \* what its last operation returned: "ok", "short" or "fail"
  eof,       \* file descriptors whose peer has closed
  edges,     \* how often file descriptors have become ready
  asked      \* history: the mode for which a waiter waits

iovars == <<open, held, todo, at, sock, total, ret, eof, edges, asked>>
allvars == <<vars, iovars>>

Dials == {"announce", "dial", "timed_dial"}
Kinds == Dials \cup {"read", "write", "timed_read", "accept", "timed_accept"}
\* announce, dial and timed_dial open their socket, the others name it.
Ops == {o \in [kind : Kinds, fd : Fds \cup {NULL}] : o.kind \in Dials \/ o.fd \in Fds}
ASSUME NetIOAssumption ==
  /\ Programs \subseteq [Waiters -> Seq(Ops)]
  /\ N \in Nat /\ MaxEdges \in Nat

Op(w) == Head(todo[w])
Kind(w) == Op(w).kind

-----------------------------------------------------------------------------
\* What the operation of w waits for, and whether with a deadline.
WaitMode(w) == IF Kind(w) \in {"write", "dial", "timed_dial"} THEN {"w"} ELSE {"r"}
IsTimed(w) == Kind(w) \in {"timed_read", "timed_accept", "timed_dial"}

At(w, l) == at' = [at EXCEPT ![w] = l]

\* The operation ends with r.
Return(w, r) ==
  /\ ret' = [ret EXCEPT ![w] = r]
  /\ todo' = [todo EXCEPT ![w] = Tail(@)]
  /\ sock' = [sock EXCEPT ![w] = NULL]
  /\ total' = [total EXCEPT ![w] = 0]
  /\ At(w, "idle")

\* An operation begins: read and write with a system call, accept with a wait;
\* announce and dial open a socket first, if the name can be looked up.
Start(w) ==
  /\ at[w] = "idle" /\ todo[w] # <<>>
  /\ \/ /\ Kind(w) \in {"read", "write", "timed_read"} /\ Op(w).fd \in open
        /\ sock' = [sock EXCEPT ![w] = Op(w).fd] /\ At(w, "try")
        /\ UNCHANGED <<open, held, todo, total, ret>>
     \/ /\ Kind(w) \in {"accept", "timed_accept"}
        /\ sock' = [sock EXCEPT ![w] = Op(w).fd] /\ At(w, "block")
        /\ UNCHANGED <<open, held, todo, total, ret>>
     \/ /\ Kind(w) \in Dials
        /\ \E f \in Fds \ open :
             /\ open' = open \cup {f}
             /\ sock' = [sock EXCEPT ![w] = f] /\ At(w, "opened")
        /\ UNCHANGED <<held, todo, total, ret>>
     \/ /\ Kind(w) \in Dials
        /\ Return(w, "fail")
        /\ UNCHANGED <<open, held>>
  /\ UNCHANGED <<vars, eof, edges, asked>>

\* Seeded fault: a failure leaves the socket open.
FailOpen(w) == Return(w, "fail") /\ UNCHANGED <<open, held, level, eof>>
\* The operation fails and closes its socket.
Fail(w) ==
  /\ Return(w, "fail")
  /\ open' = open \ {sock[w]} /\ eof' = eof \ {sock[w]}
  /\ level' = [level EXCEPT ![sock[w]] = {}]
  /\ UNCHANGED held
\* The operation returns f to the program.
Deliver(w, f) ==
  /\ Return(w, "ok")
  /\ open' = open \cup {f} /\ held' = held \cup {f}
  /\ UNCHANGED <<level, eof>>

\* announce: bind and listen; dial: connect, which has begun unless it fails.
Opened(w) ==
  /\ at[w] = "opened"
  /\ \/ Fail(w)
     \/ Kind(w) = "announce" /\ Deliver(w, sock[w])
     \/ /\ Kind(w) # "announce" /\ At(w, "block")
        /\ UNCHANGED <<open, held, todo, sock, total, ret, level, eof>>
  /\ UNCHANGED <<dvars, reg, want, pend, num_op, wvars, tvars, pvars, history, edges, asked>>

\* Where coroc_net_read and coroc_net_write go on when m more units have moved.
Moved(w, m) ==
  IF Kind(w) = "timed_read" \/ total[w] + m = N
  THEN Return(w, "ok")
  ELSE /\ total' = [total EXCEPT ![w] = @ + m]
       /\ UNCHANGED <<todo, at, sock, ret>>

\* The system call read or write: an error; the end of the stream; some units,
\* after which the file descriptor may or may not be ready still; or EAGAIN.
Try(w) ==
  LET f == sock[w]
  IN /\ at[w] = "try"
     /\ \/ /\ "e" \in level[f]
           /\ Return(w, "fail") /\ UNCHANGED level
        \/ /\ level[f] \cap (WaitMode(w) \cup {"e"}) = WaitMode(w)
           /\ \E m \in 1 .. N - total[w] : Moved(w, m)
           /\ level' \in {level, [level EXCEPT ![f] = IF f \in eof THEN @ ELSE @ \ WaitMode(w)]}
        \/ /\ WaitMode(w) = {"r"} /\ f \in eof /\ "e" \notin level[f]
           /\ Return(w, "short") /\ UNCHANGED level
        \/ /\ level[f] \cap (WaitMode(w) \cup {"e"}) = {}
           /\ At(w, "block")
           /\ UNCHANGED <<todo, sock, total, ret, level>>
     /\ UNCHANGED <<dvars, reg, want, pend, num_op, wvars, tvars, pvars, history, open,
                    held, eof, edges, asked>>

\* The operation calls coroc_net_wait or coroc_net_timedwait.
Block(w) ==
  /\ at[w] = "block"
  /\ Begin(w, sock[w], WaitMode(w), IsTimed(w))
  /\ asked' = [asked EXCEPT ![w] = WaitMode(w)]
  /\ At(w, "waiting")
  /\ UNCHANGED <<open, held, todo, sock, total, ret, eof, edges>>

\* The wait returns.  Reads and writes try again; accept takes a connection, if
\* there is one; dial asks whether it is connected.
Woken(w) ==
  /\ at[w] = "waiting" /\ wpc[w] = "run"
  /\ \/ /\ IsTimed(w) /\ res[w] = {}
        /\ IF Kind(w) = "timed_dial" THEN Fail(w)
           ELSE Return(w, "fail") /\ UNCHANGED <<open, held, level, eof>>
     \/ /\ ~(IsTimed(w) /\ res[w] = {}) /\ Kind(w) \in {"read", "write", "timed_read"}
        /\ At(w, "try")
        /\ UNCHANGED <<open, held, todo, sock, total, ret, level, eof>>
     \/ /\ ~(IsTimed(w) /\ res[w] = {}) /\ Kind(w) \in {"accept", "timed_accept"}
        /\ \/ \E f \in Fds \ open : Deliver(w, f)
           \/ Return(w, "fail") /\ UNCHANGED <<open, held, level, eof>>
     \/ /\ ~(IsTimed(w) /\ res[w] = {}) /\ Kind(w) \in {"dial", "timed_dial"}
        /\ Fail(w) \/ Deliver(w, sock[w])
  /\ UNCHANGED <<dvars, reg, want, pend, num_op, wvars, tvars, pvars, history, edges, asked>>

\* The peer sends, takes data, connects, closes or resets.
Peer(f) ==
  /\ edges < MaxEdges /\ edges' = edges + 1
  /\ f \in open
  /\ \/ \E b \in Bits : Edge(f, b) /\ UNCHANGED eof
     \/ Edge(f, "r") /\ eof' = eof \cup {f}
  /\ UNCHANGED <<open, held, todo, at, sock, total, ret, asked>>

-----------------------------------------------------------------------------
IOInit ==
  /\ Init
  /\ open = Fds \ Spare /\ held = open /\ eof = {} /\ edges = 0
  /\ todo \in Programs
  /\ at = [w \in Waiters |-> "idle"] /\ sock = [w \in Waiters |-> NULL]
  /\ total = [w \in Waiters |-> 0] /\ ret = [w \in Waiters |-> "ok"]
  /\ asked = [w \in Waiters |-> {}]

Waits(w) == WaiterSteps(w) /\ UNCHANGED iovars
Times == TimerSteps /\ UNCHANGED iovars
Expires(w) == Fire(w) /\ UNCHANGED iovars
Polls(p) == PollerSteps(p) /\ UNCHANGED iovars

IONext ==
  /\ ~stale
  /\ \/ \E w \in Waiters : Start(w) \/ Opened(w) \/ Try(w) \/ Block(w) \/ Woken(w)
     \/ \E w \in Waiters : Waits(w) \/ Expires(w)
     \/ Times
     \/ \E p \in Pollers : Polls(p)
     \/ \E f \in Fds : Peer(f)

IOSpec == IOInit /\ [][IONext]_allvars

\* Running coroutines run on, idle VPUs poll, deadlines come.
FairIO ==
  /\ IOSpec
  /\ \A w \in Waiters : /\ WF_allvars(~stale /\ (Start(w) \/ Opened(w) \/ Try(w) \/ Block(w) \/ Woken(w)))
                        /\ WF_allvars(~stale /\ Waits(w)) /\ WF_allvars(~stale /\ Expires(w))
  /\ WF_allvars(~stale /\ Times)
  /\ \A p \in Pollers : WF_allvars(~stale /\ Polls(p))

-----------------------------------------------------------------------------
IOTyped ==
  /\ open \subseteq Fds /\ held \subseteq Fds /\ eof \subseteq Fds /\ edges \in 0 .. MaxEdges
  /\ todo \in [Waiters -> Seq(Ops)] /\ sock \in [Waiters -> Fds \cup {NULL}]
  /\ at \in [Waiters -> {"idle", "opened", "try", "block", "waiting"}]
  /\ total \in [Waiters -> 0 .. N] /\ ret \in [Waiters -> {"ok", "short", "fail"}]
  /\ asked \in [Waiters -> SUBSET Bits]

IOTypeOK == TypeOK /\ IOTyped

(* No file descriptor is lost: one that is open is known to the program or in the
   hands of the operation that opened it, so that every failing path of announce
   and dial, a timeout included, closes its socket (net.c 49-52, 178-190, 199). *)
NoSocketLeak == open = held \cup {sock[w] : w \in {v \in Waiters : sock[v] # NULL}}

(* A wait tells its caller of the events that it has asked for, or of an error,
   and of no others.  Excepted is the waiter whose event came after another in
   the same batch, the variable `mode' of the poller not being reset
   (netpoll_epoll.c 55, 69-80). *)
OwnMode ==
  \A w \in Waiters : wpc[w] \in {"ready", "finish"} /\ w \notin carried =>
    mode[desc[w]] \subseteq asked[w] \cup {"e"}

(* Every wait with a deadline ends, and every other one for a file descriptor that
   is ready: when the peers have done their last, the only waits that go on are
   those for file descriptors that are not ready, and for ones that two
   coroutines have waited for at a time (netpoll.c 65-142, net.c 66-69, 185-190). *)
WaitsEnd ==
  <>[](stale \/ \A w \in Waiters :
         \/ wpc[w] = "run"
         \/ /\ wpc[w] = "wait" /\ ~timed[w]
            /\ sock[w] \in clash \/ level[sock[w]] \cap (asked[w] \cup {"e"}) = {})

-----------------------------------------------------------------------------
(* What IOTypeOK and OwnMode rest on, besides the invariants of Netpoll.    *)

\* An operation that has begun has a file descriptor.
Begun == \A w \in Waiters : at[w] # "idle" => todo[w] # <<>> /\ sock[w] \in Fds
\* What a waiter waits for or is told, from the beginning of the wait.
Told == \A w \in Waiters : desc[w] # NULL /\ w \notin carried =>
          mode[desc[w]] \subseteq asked[w] \cup {"e"}
=============================================================================
