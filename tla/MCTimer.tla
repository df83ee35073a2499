------------------------------ MODULE MCTimer ------------------------------
(* Small instances of Timer for TLC. *)
EXTENDS Timer, TLC

CONSTANTS u1, u2, once, other, tick, frame, h0, h1, h2, h3, h4, h5

Six == {h0, h1, h2, h3, h4, h5}
MCTimers == {once, other, tick, frame} \cup Six
MCPeriod == [t \in Timers |-> IF t = tick THEN 1 ELSE 0]

C(k, t) == [kind |-> k, timer |-> t]

\* The first user restarts, frees or uses its timer again; the second one stops
\* a timer, uses a ticker or delays itself.
Calls1 == {<<C("after", once), C("reset", once)>>,
           <<C("after", once), C("dealloc", once)>>,
           <<C("after", once), C("recv", once), C("after", once)>>}
Calls2 == {<<C("after", other), C("stop", other)>>,
           <<C("after", tick), C("recv", tick), C("dealloc", tick)>>,
           <<C("udelay", frame), C("udelay", frame)>>}
Fresh == {[heap |-> <<>>, when |-> [t \in Timers |-> 0], alive |-> {once, other, tick},
           calls |-> (u1 :> p1) @@ (u2 :> p2)] : p1 \in Calls1, p2 \in Calls2}

\* Six timers, of which the fourth is below a later one than the last is; any
\* of them is stopped.
SixHeap == (0 :> h0) @@ (1 :> h1) @@ (2 :> h2) @@ (3 :> h3) @@ (4 :> h4) @@ (5 :> h5)
SixWhen == (h0 :> 1) @@ (h1 :> 4) @@ (h2 :> 2) @@ (h3 :> 5) @@ (h4 :> 6) @@ (h5 :> 3)
Loaded == {[heap |-> SixHeap, alive |-> Six,
            when |-> [t \in Timers |-> IF t \in Six THEN SixWhen[t] ELSE 0],
            calls |-> (u1 :> <<C("stop", x)>>) @@ (u2 :> <<>>)] : x \in Six}

FreshOrLoaded == Fresh \cup Loaded
=============================================================================
