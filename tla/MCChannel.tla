----------------------------- MODULE MCChannel -----------------------------
(* Small instances of Channel for TLC: channel 1 has a buffer of one message, *)
(* channel 2 has none.                                                        *)
EXTENDS Channel

CONSTANTS t1, t2, t3

MCChans == {1, 2}
MCCapacity == [c \in Chans |-> IF c = 1 THEN 1 ELSE 0]

Plain(c, b) == {[kind |-> k, chan |-> c, block |-> b] : k \in {"send", "recv"}}
Blocking == Plain(1, TRUE) \cup Plain(2, TRUE)
Closes == {[kind |-> "close", chan |-> c] : c \in Chans}

\* A select on both channels; the second channel's case comes first, or last.
Select(x, y, b) ==
  [kind |-> "select", block |-> b,
   cases |-> <<[type |-> x, chan |-> 2], [type |-> y, chan |-> 1]>>]
Selects == {Select(x, y, TRUE) : x \in {"send", "recv"}, y \in {"send", "recv"}}
FlippedSelects == {[o EXCEPT !.cases = <<@[2], @[1]>>] : o \in Selects}

\* Two coroutines select, with their cases in either order; the second one
\* also sends to the buffer.  The third one sends, receives, tries and closes.
SafetyPrograms ==
  [t \in Tasks |->
     CASE t = t1 -> {o \in Selects : o.cases[1].type # o.cases[2].type}
                      \cup {Select("send", "recv", FALSE)}
       [] t = t2 -> FlippedSelects \cup {[kind |-> "send", chan |-> 1, block |-> TRUE]}
       [] OTHER -> Blocking \cup Plain(1, FALSE) \cup Closes]

LivePrograms ==
  [t \in Tasks |->
     CASE t = t1 -> Selects
       [] t = t2 -> FlippedSelects \cup Blocking
       [] OTHER -> Blocking \cup Closes]
=============================================================================
