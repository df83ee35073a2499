---------------------------- MODULE RunQueueProofs ----------------------------
(***************************************************************************)
(* Proofs about RunQueue.                                                  *)
(***************************************************************************)
EXTENDS RunQueue, TLAPS

-----------------------------------------------------------------------------
(* The counters of a ring *)

\* The remainder of a number that is less than one turn away.
LEMMA TurnIs ==
  ASSUME NEW m \in Nat, m > 0, NEW x \in Int, x >= 0 - m, x < 2 * m
  PROVE  x % m = IF x < 0 THEN x + m ELSE IF x < m THEN x ELSE x - m
<1>1. CASE x < 0
  <2>1. x = (0 - 1) * m + (x + m) /\ x + m \in 0..(m - 1)
    BY <1>1
  <2> QED BY <1>1, <2>1
<1>2. CASE x >= 0 /\ x < m
  BY <1>2
<1>3. CASE x >= m
  <2>1. x = 1 * m + (x - m) /\ x - m \in 0..(m - 1)
    BY <1>3
  <2> QED BY <1>3, <2>1
<1> QED BY <1>1, <1>2, <1>3

\* Numbers with the same remainder that are less than one turn apart are equal.
LEMMA SameTurn ==
  ASSUME NEW m \in Nat, m > 0, NEW x \in Int, NEW y \in Int, x % m = y % m,
         x - y < m, y - x < m
  PROVE  x = y
<1>1. x = (x \div m) * m + (x % m) /\ y = (y \div m) * m + (y % m)
  OBVIOUS
<1>2. x \div m \in Int /\ y \div m \in Int
  OBVIOUS
<1> DEFINE a == x \div m
           b == y \div m
<1> HIDE DEF a, b
<1>3. x - y = (a - b) * m /\ a - b \in Int
  BY <1>1, <1>2 DEF a, b
<1>4. a - b = 0
  BY <1>3
<1> QED BY <1>3, <1>4

\* Whole turns do not change a remainder.
LEMMA TurnsOff ==
  ASSUME NEW m \in Nat, m > 0, NEW x \in Int, NEW q \in Int
  PROVE  (x + q * m) % m = x % m
<1> DEFINE a == x \div m
           r == x % m
<1>1. x = a * m + r /\ a \in Int /\ r \in 0..(m - 1)
  OBVIOUS
<1> HIDE DEF a, r
<1>2. x + q * m = (a + q) * m + r /\ a + q \in Int
  BY <1>1
<1>3. (x + q * m) % m = r
  BY <1>1, <1>2
<1> QED BY <1>3 DEF r

\* Adding the same to numbers with the same remainder.
LEMMA SameShift ==
  ASSUME NEW m \in Nat, m > 0, NEW x \in Int, NEW y \in Int, NEW z \in Int, x % m = y % m
  PROVE  (x + z) % m = (y + z) % m
<1> DEFINE a == x \div m
           b == y \div m
<1>1. x = a * m + (x % m) /\ y = b * m + (y % m) /\ a \in Int /\ b \in Int
  OBVIOUS
<1> HIDE DEF a, b
<1>2. x + z = (y + z) + (a - b) * m /\ a - b \in Int /\ y + z \in Int
  BY <1>1
<1>3. ((y + z) + (a - b) * m) % m = (y + z) % m
  BY Zenon, <1>2, TurnsOff
<1> QED BY <1>2, <1>3

Counters == 0..(Modulus - 1)

\* The size of the rings divides the range of their counters.
LEMMA CapacityIs ==
  ASSUME shape \in Shapes
  PROVE  /\ Modulus \in Nat /\ Modulus > 0 /\ Capacity \in Nat /\ Capacity > 0
         /\ Capacity % 2 = 0 /\ Modulus % Capacity = 0 /\ Modulus >= 2 * Capacity
BY RunQueueAssumption DEF Capacity

\* The distance of two counters, which may be on both sides of the wrap.
LEMMA DistanceIs ==
  ASSUME NEW a \in Counters, NEW b \in Counters
  PROVE  /\ Distance(a, b) = IF b <= a THEN a - b ELSE a - b + Modulus
         /\ Distance(a, b) \in Counters
<1>1. Modulus \in Nat /\ Modulus > 0 /\ a \in 0..(Modulus - 1) /\ b \in 0..(Modulus - 1)
  BY RunQueueAssumption DEF Counters
<1>2. (a - b) % Modulus = IF a - b < 0 THEN a - b + Modulus
                          ELSE IF a - b < Modulus THEN a - b ELSE a - b - Modulus
  BY <1>1, TurnIs
<1> QED BY <1>1, <1>2 DEF Distance, Counters

\* The distance of equal counters.
LEMMA DistanceZero ==
  ASSUME NEW a \in Counters, NEW b \in Counters
  PROVE  Distance(a, b) = 0 <=> a = b
<1>1. a \in Int /\ b \in Int /\ Modulus \in Int /\ 0 <= a /\ b < Modulus
  BY RunQueueAssumption DEF Counters
<1>2. Distance(a, b) = IF b <= a THEN a - b ELSE a - b + Modulus
  BY Zenon, DistanceIs
<1> QED BY <1>1, <1>2

\* A counter moves on, round the wrap if need be.
LEMMA PlusIs ==
  ASSUME NEW a \in Counters, NEW k \in 0..Modulus
  PROVE  /\ Plus(a, k) = IF a + k < Modulus THEN a + k ELSE a + k - Modulus
         /\ Plus(a, k) \in Counters
<1>1. Modulus \in Nat /\ Modulus > 0 /\ a \in 0..(Modulus - 1)
  BY RunQueueAssumption DEF Counters
<1>2. (a + k) % Modulus = IF a + k < 0 THEN a + k + Modulus
                          ELSE IF a + k < Modulus THEN a + k ELSE a + k - Modulus
  BY <1>1, TurnIs
<1> QED BY <1>1, <1>2 DEF Plus, Counters

\* Turns of the counter are turns of the ring.
LEMMA TurnsOfRing ==
  ASSUME shape \in Shapes, NEW x \in Int, NEW y \in Int, NEW e \in {0 - 1, 0, 1},
         x = y + e * Modulus
  PROVE  x % Capacity = y % Capacity
<1> DEFINE m == Capacity
           q == Modulus \div m
<1>1. m \in Nat /\ m > 0 /\ Modulus \in Nat /\ Modulus % m = 0
  BY CapacityIs
<1> HIDE DEF m
<1>2. Modulus = q * m /\ q \in Int
  BY <1>1
<1> HIDE DEF q
<1>3. x = y + (e * q) * m /\ e * q \in Int
  BY <1>1, <1>2
<1>4. (y + (e * q) * m) % m = y % m
  BY Zenon, <1>1, <1>3, TurnsOff
<1> QED BY <1>3, <1>4 DEF m

\* The slot of a counter.
LEMMA SlotIn ==
  ASSUME shape \in Shapes, NEW c \in Int
  PROVE  Slot(c) \in 0..(Capacity - 1)
BY CapacityIs DEF Slot

\* Two counters within one turn of the ring have different slots.
LEMMA SlotsDiffer ==
  ASSUME shape \in Shapes, NEW c \in Counters, NEW d \in Counters, NEW h \in Counters,
         Distance(c, h) < Capacity, Distance(d, h) < Capacity, Slot(c) = Slot(d)
  PROVE  c = d
<1>1. /\ Modulus \in Nat /\ Capacity \in Nat /\ Capacity > 0
      /\ c \in 0..(Modulus - 1) /\ d \in 0..(Modulus - 1) /\ h \in 0..(Modulus - 1)
  BY CapacityIs DEF Counters
<1>2. /\ Distance(c, h) = IF h <= c THEN c - h ELSE c - h + Modulus
      /\ Distance(d, h) = IF h <= d THEN d - h ELSE d - h + Modulus
  BY Zenon, DistanceIs
<1> DEFINE a == Distance(c, h)
           b == Distance(d, h)
           m == Capacity
<1>3. a \in Nat /\ b \in Nat /\ a < m /\ b < m /\ m \in Nat /\ m > 0
  BY <1>1, <1>2
<1>4. a = (c - h) + (IF h <= c THEN 0 ELSE 1) * Modulus
  BY <1>1, <1>2
<1>5. b = (d - h) + (IF h <= d THEN 0 ELSE 1) * Modulus
  BY <1>1, <1>2
<1> HIDE DEF a, b, m
<1>6. a % Capacity = (c - h) % Capacity
  BY <1>1, <1>3, <1>4, TurnsOfRing
<1>7. b % Capacity = (d - h) % Capacity
  BY <1>1, <1>3, <1>5, TurnsOfRing
<1>8. (c - h) % m = (d - h) % m
  <2>1. c % m = d % m /\ 0 - h \in Int /\ c \in Int /\ d \in Int
    BY <1>1 DEF Slot, m
  <2>2. (c + (0 - h)) % m = (d + (0 - h)) % m
    BY Zenon, <1>3, <2>1, SameShift
  <2>3. c + (0 - h) = c - h /\ d + (0 - h) = d - h
    BY <1>1
  <2> QED BY <2>2, <2>3
<1>9. a = b
  <2>1. a % m = b % m
    BY Zenon, <1>6, <1>7, <1>8 DEF m
  <2>2. a \in Int /\ b \in Int /\ a - b < m /\ b - a < m
    BY <1>3
  <2> QED BY Zenon, <1>3, <2>1, <2>2, SameTurn
<1>10. a = IF h <= c THEN c - h ELSE c - h + Modulus
  BY Zenon, <1>2 DEF a
<1>11. b = IF h <= d THEN d - h ELSE d - h + Modulus
  BY Zenon, <1>2 DEF b
<1>12. c \in Int /\ d \in Int /\ h \in Int /\ Modulus \in Int /\ c < Modulus /\ d < Modulus
       /\ 0 <= c /\ 0 <= d
  BY <1>1
<1>13. (IF h <= c THEN c - h ELSE c - h + Modulus) = (IF h <= d THEN d - h ELSE d - h + Modulus)
  BY Zenon, <1>9, <1>10, <1>11
<1> QED BY <1>12, <1>13

\* The slot of a counter that has moved on, computed before the wrap.
LEMMA SlotPlus ==
  ASSUME shape \in Shapes, NEW c \in Counters, NEW k \in 0..Modulus
  PROVE  Slot(c + k) = Slot(Plus(c, k))
<1>1. c \in Int /\ k \in Int /\ Modulus \in Int
  BY CapacityIs DEF Counters
<1>2. Plus(c, k) = IF c + k < Modulus THEN c + k ELSE c + k - Modulus
  BY Zenon, PlusIs
<1> DEFINE e == IF c + k < Modulus THEN 0 ELSE 1
<1>3. c + k = Plus(c, k) + e * Modulus /\ e \in {0 - 1, 0, 1} /\ c + k \in Int /\ Plus(c, k) \in Int
  BY <1>1, <1>2
<1> HIDE DEF e
<1> QED BY Zenon, <1>3, TurnsOfRing DEF Slot

\* Where __runqsteal writes the i-th coroutine, seen from the slot.
LEMMA OwnSlot ==
  ASSUME shape \in Shapes, NEW t \in Counters, NEW i \in 0..(Capacity - 1)
  PROVE  Distance(Slot(Plus(t, i)), t) % Capacity = i
<1>1. /\ Modulus \in Nat /\ Capacity \in Nat /\ Capacity > 0 /\ t \in 0..(Modulus - 1)
      /\ i \in 0..Modulus /\ Capacity <= Modulus /\ t + i \in Int /\ 0 - t \in Int
  BY CapacityIs DEF Counters
<1> DEFINE s == Slot(Plus(t, i))
           m == Capacity
<1>2. s = (t + i) % m
  <2>1. Slot(t + i) = s
    BY Zenon, <1>1, SlotPlus
  <2> QED BY Zenon, <2>1 DEF Slot
<1>3. s \in 0..(m - 1) /\ s \in Counters /\ s \in Int
  BY <1>1, <1>2 DEF Counters
<1> HIDE DEF s
<1>4. Distance(s, t) = (IF t <= s THEN s - t ELSE s - t + Modulus) /\ Distance(s, t) \in Counters
  BY Zenon, <1>3, DistanceIs
<1>5. Distance(s, t) % Capacity = (s - t) % Capacity
  <2> DEFINE e == IF t <= s THEN 0 ELSE 1
             d == Distance(s, t)
  <2>1. d = (s - t) + e * Modulus /\ e \in {0 - 1, 0, 1} /\ d \in Int /\ s - t \in Int
    BY <1>1, <1>3, <1>4
  <2> HIDE DEF e, d
  <2>2. d % Capacity = (s - t) % Capacity
    BY Zenon, <2>1, TurnsOfRing
  <2> QED BY Zenon, <2>2 DEF d
<1> HIDE DEF m
<1>6. (s + (0 - t)) % m = ((t + i) + (0 - t)) % m
  <2>1. m \in Nat /\ m > 0
    BY Zenon, <1>1 DEF m
  <2>2. s % m = (t + i) % m
    BY <1>2, <1>3, <2>1
  <2> QED BY Zenon, <1>1, <1>3, <2>1, <2>2, SameShift
<1>7. s + (0 - t) = s - t /\ (t + i) + (0 - t) = i
  BY <1>1, <1>3
<1>8. i % m = i
  BY <1>1 DEF m
<1> QED BY Zenon, <1>5, <1>6, <1>7, <1>8 DEF s, m
-----------------------------------------------------------------------------
(* The places of a coroutine *)

OneOf(A, B, C, D, E) ==
  \/ (\E x : A = {x}) /\ B = {} /\ C = {} /\ D = {} /\ E = {}
  \/ (\E x : B = {x}) /\ A = {} /\ C = {} /\ D = {} /\ E = {}
  \/ (\E x : C = {x}) /\ A = {} /\ B = {} /\ D = {} /\ E = {}
  \/ (\E x : D = {x}) /\ A = {} /\ B = {} /\ C = {} /\ E = {}
  \/ (\E x : E = {x}) /\ A = {} /\ B = {} /\ C = {} /\ D = {}

\* Of five sets one has an element, and only one, and the others have none.
LEMMA KindsOne ==
  ASSUME NEW A, NEW B, NEW C, NEW D, NEW E, NEW P,
         P = [ring |-> A, global |-> B, task |-> C, candidate |-> D, temp |-> E]
  PROVE  /\ OnceIn(P) <=> OneOf(A, B, C, D, E)
         /\ NotIn(P) <=> A = {} /\ B = {} /\ C = {} /\ D = {} /\ E = {}
<1> DEFINE One(S) == \E x \in S : S = {x}
<1>1. DOMAIN P = {"ring", "global", "task", "candidate", "temp"}
  OBVIOUS
<1>2. P["ring"] = A /\ P["global"] = B /\ P["task"] = C /\ P["candidate"] = D /\ P["temp"] = E
  OBVIOUS
<1>3. (\A k \in DOMAIN P : P[k] = {}) <=> A = {} /\ B = {} /\ C = {} /\ D = {} /\ E = {}
  BY Zenon, <1>1, <1>2
<1>4. /\ (\A j \in DOMAIN P \ {"ring"} : P[j] = {}) <=> B = {} /\ C = {} /\ D = {} /\ E = {}
      /\ (\A j \in DOMAIN P \ {"global"} : P[j] = {}) <=> A = {} /\ C = {} /\ D = {} /\ E = {}
      /\ (\A j \in DOMAIN P \ {"task"} : P[j] = {}) <=> A = {} /\ B = {} /\ D = {} /\ E = {}
      /\ (\A j \in DOMAIN P \ {"candidate"} : P[j] = {}) <=> A = {} /\ B = {} /\ C = {} /\ E = {}
      /\ (\A j \in DOMAIN P \ {"temp"} : P[j] = {}) <=> A = {} /\ B = {} /\ C = {} /\ D = {}
  BY <1>1, <1>2
<1>5. (\E k \in DOMAIN P : One(P[k]) /\ \A j \in DOMAIN P \ {k} : P[j] = {})
        <=> \/ One(A) /\ B = {} /\ C = {} /\ D = {} /\ E = {}
            \/ One(B) /\ A = {} /\ C = {} /\ D = {} /\ E = {}
            \/ One(C) /\ A = {} /\ B = {} /\ D = {} /\ E = {}
            \/ One(D) /\ A = {} /\ B = {} /\ C = {} /\ E = {}
            \/ One(E) /\ A = {} /\ B = {} /\ C = {} /\ D = {}
  <2> DEFINE All(k) == \A j \in DOMAIN P \ {k} : P[j] = {}
  <2>1. (\E k \in DOMAIN P : One(P[k]) /\ All(k))
          <=> \/ One(P["ring"]) /\ All("ring")
              \/ One(P["global"]) /\ All("global")
              \/ One(P["task"]) /\ All("task")
              \/ One(P["candidate"]) /\ All("candidate")
              \/ One(P["temp"]) /\ All("temp")
    <3> HIDE DEF One, All
    <3> QED BY Zenon, <1>1
  <2> HIDE DEF One
  <2> QED BY Zenon, <1>2, <1>4, <2>1
<1>6. \A S : One(S) <=> \E x : S = {x}
  BY Zenon
<1> HIDE DEF One
<1>7. OneOf(A, B, C, D, E)
        <=> \/ One(A) /\ B = {} /\ C = {} /\ D = {} /\ E = {}
            \/ One(B) /\ A = {} /\ C = {} /\ D = {} /\ E = {}
            \/ One(C) /\ A = {} /\ B = {} /\ D = {} /\ E = {}
            \/ One(D) /\ A = {} /\ B = {} /\ C = {} /\ E = {}
            \/ One(E) /\ A = {} /\ B = {} /\ C = {} /\ D = {}
  BY Zenon, <1>6 DEF OneOf
<1> QED BY Zenon, <1>3, <1>5, <1>7 DEF One, OnceIn, NotIn

\* The coroutine t is queued once, or nowhere.
At(t) == OneOf(InRings(t), InGlobal(t), AsTask(t), AsCandidate(t), InTemps(t))
Nowhere(t) ==
  InRings(t) = {} /\ InGlobal(t) = {} /\ AsTask(t) = {} /\ AsCandidate(t) = {} /\ InTemps(t) = {}

\* QueuedExactlyOnce, by the kinds of places.
LEMMA OnceIs ==
  /\ QueuedExactlyOnce <=> \A t \in Tasks : IF status[t] = "READY" THEN At(t) ELSE Nowhere(t)
  /\ QueuedExactlyOnce' <=> \A t \in Tasks : IF status'[t] = "READY" THEN At(t)' ELSE Nowhere(t)'
<1>1. ASSUME NEW t
      PROVE  (At(t) <=> OnceIn(Places(t))) /\ (Nowhere(t) <=> NotIn(Places(t)))
  <2>1. Places(t) = [ring |-> InRings(t), global |-> InGlobal(t), task |-> AsTask(t),
                       candidate |-> AsCandidate(t), temp |-> InTemps(t)]
    BY Zenon DEF Places
  <2> QED BY SMT, <2>1, KindsOne DEF At, Nowhere
<1>2. ASSUME NEW t
      PROVE  (At(t)' <=> OnceIn(Places(t)')) /\ (Nowhere(t)' <=> NotIn(Places(t)'))
  <2>1. Places(t)' = [ring |-> InRings(t)', global |-> InGlobal(t)', task |-> AsTask(t)',
                       candidate |-> AsCandidate(t)', temp |-> InTemps(t)']
    BY Zenon DEF Places
  <2> QED BY SMT, <2>1, KindsOne DEF At, Nowhere
<1>3. QueuedExactlyOnce <=> \A t \in Tasks : IF status[t] = "READY" THEN At(t) ELSE Nowhere(t)
  BY Zenon, <1>1 DEF QueuedExactlyOnce
<1>4. QueuedExactlyOnce' <=> \A t \in Tasks : IF status'[t] = "READY" THEN At(t)' ELSE Nowhere(t)'
  BY Zenon, <1>2 DEF QueuedExactlyOnce
<1> QED BY Zenon, <1>3, <1>4

\* Coroutines that only move, or stay, are still queued exactly once.
LEMMA OnceKept ==
  ASSUME QueuedExactlyOnce, status' = status,
         \A t \in Tasks : (At(t) => At(t)') /\ (Nowhere(t) => Nowhere(t)')
  PROVE  QueuedExactlyOnce'
BY Zenon, OnceIs
-----------------------------------------------------------------------------
(* What a VPU knows, when the others move *)

\* Ring(u) speaks of the ring of u only.
LEMMA RingFrame ==
  ASSUME NEW u \in Vpus, Ring(u), shape' = shape, pc'[u] = pc[u], runqhead'[u] = runqhead[u],
         runqtail'[u] = runqtail[u], runq'[u] = runq[u]
  PROVE  Ring(u)'
BY Zenon DEF Ring, Size, Slot, Capacity

\* Ring(u) when u itself moves.
LEMMA RingMove ==
  ASSUME NEW u \in Vpus, Ring(u), shape' = shape, pc'[u] \in Emptied => Size(u) = 0,
         runqhead'[u] = runqhead[u], runqtail'[u] = runqtail[u], runq'[u] = runq[u]
  PROVE  Ring(u)'
BY Zenon DEF Ring, Size, Slot, Capacity

\* Locals(u) speaks of the VPU u only.
LEMMA LocalsFrame ==
  ASSUME NEW u \in Vpus, Locals(u), shape' = shape, pc'[u] = pc[u], loc'[u] = loc[u]
  PROVE  Locals(u)'
BY Zenon DEF Locals, Fetching, Capacity

\* Owned(u) speaks of u and its ring only, and holds on when a thief makes room.
LEMMA OwnedFrame ==
  ASSUME NEW u \in Vpus, Owned(u), shape' = shape, pc'[u] = pc[u], loc'[u] = loc[u],
         pc[u] \in {"write", "publish"} => Size(u)' < Capacity,
         runqtail'[u] = runqtail[u], runq'[u] = runq[u]
  PROVE  Owned(u)'
BY Zenon DEF Owned, Slot, Capacity

\* Fetch(u) holds on while the global queue is as it was, also when a thief makes room.
LEMMA FetchFrame ==
  ASSUME NEW u \in Vpus, Fetch(u), shape' = shape, pc'[u] = pc[u], loc'[u] = loc[u],
         Size(u)' = Size(u), gq' = gq, glock' = glock
  PROVE  Fetch(u)'
BY Zenon DEF Fetch, Fetching, Capacity

\* A VPU without the lock knows nothing of the global queue.
LEMMA FetchFree ==
  ASSUME NEW u \in Vpus, Fetch(u), glock # u, glock' # u, pc'[u] = pc[u], loc'[u] = loc[u]
  PROVE  Fetch(u)'
BY Zenon DEF Fetch, Fetching

\* Theft(u) speaks of u and the ring of its victim only.
LEMMA TheftFrame ==
  ASSUME NEW u \in Vpus, Theft(u), shape' = shape, pc'[u] = pc[u], loc'[u] = loc[u],
         loc[u].victim \in Vpus =>
           /\ runqhead'[loc[u].victim] = runqhead[loc[u].victim]
           /\ runqtail'[loc[u].victim] = runqtail[loc[u].victim]
           /\ runq'[loc[u].victim] = runq[loc[u].victim]
  PROVE  Theft(u)'
BY DEF Theft, Size, Slot, Capacity

\* The victim may write other slots than those that the thief has copied.
LEMMA TheftKept ==
  ASSUME NEW u \in Vpus, Theft(u), shape' = shape, pc'[u] = pc[u], loc'[u] = loc[u],
         NEW w \in Vpus, w = loc[u].victim,
         runqhead'[w] = runqhead[w], runqtail'[w] = runqtail[w],
         pc[u] \in {"copy", "grabCAS"} /\ runqhead[w] = loc[u].head =>
           \A i \in 1..Len(loc[u].temp) :
             loc[u].temp[i] = runq'[w][Slot(Plus(loc[u].head, i - 1))]
  PROVE  Theft(u)'
BY DEF Theft, Size, Slot, Capacity

\* Runner(u) speaks of u and its coroutine only.
LEMMA RunnerFrame ==
  ASSUME NEW u \in Vpus, Runner(u), pc'[u] = pc[u], loc'[u] = loc[u], current'[u] = current[u],
         current[u] # NULL => status'[current[u]] = status[current[u]]
  PROVE  Runner(u)'
BY Zenon DEF Runner, Running
-----------------------------------------------------------------------------
(* Steps that only one VPU sees *)

\* The invariant, in parts.
LEMMA QInvIs ==
  ASSUME QInv
  PROVE  /\ TypeOK /\ QueuedExactlyOnce
         /\ \A v \in Vpus : Ring(v) /\ Locals(v) /\ Owned(v) /\ Fetch(v) /\ Theft(v) /\ Runner(v)
         /\ \A u, v \in Vpus : current[u] = current[v] /\ current[u] # NULL => u = v
BY Zenon DEF QInv, VpuInv

\* A step that changes nothing but the location and the locals of v, and leaves the
\* coroutines where they are, keeps the invariant if v's part of it holds.
LEMMA LocalStep ==
  ASSUME QInv, NEW v \in Vpus, NEW k \in Locations, NEW l \in LocalsType,
         pc' = [pc EXCEPT ![v] = k], loc' = [loc EXCEPT ![v] = l],
         UNCHANGED <<shape, ring, global, coroutines>>,
         l.task = loc[v].task, l.candidate = loc[v].candidate,
         pc[v] \notin Holding, k \notin Holding,
         Ring(v)' /\ Locals(v)' /\ Owned(v)' /\ Fetch(v)' /\ Theft(v)' /\ Runner(v)'
  PROVE  QInv'
<1>1. /\ shape' = shape /\ runqhead' = runqhead /\ runqtail' = runqtail /\ runq' = runq
      /\ gq' = gq /\ glock' = glock /\ status' = status /\ current' = current /\ budget' = budget
  BY Zenon DEF ring, global, coroutines
<1>2. pc \in [Vpus -> Locations] /\ loc \in [Vpus -> LocalsType]
  BY Zenon, QInvIs DEF TypeOK
<1>3. /\ pc'[v] = k /\ loc'[v] = l
      /\ \A u \in Vpus : u # v => pc'[u] = pc[u] /\ loc'[u] = loc[u]
  BY Zenon, <1>2
<1>4. TypeOK'
  <2>1. pc' \in [Vpus -> Locations] /\ loc' \in [Vpus -> LocalsType]
    BY Zenon, <1>2
  <2> QED BY Zenon, <1>1, <2>1, QInvIs DEF TypeOK, Capacity
<1>5. ASSUME NEW u \in Vpus
      PROVE  VpuInv(u)'
  <2>1. CASE u = v
    BY Zenon, <2>1 DEF VpuInv
  <2>2. CASE u # v
    <3>1. pc'[u] = pc[u] /\ loc'[u] = loc[u]
      BY Zenon, <1>3, <2>2
    <3>2. Size(u)' = Size(u)
      BY Zenon, <1>1 DEF Size
    <3>3. Ring(u)' /\ Locals(u)'
      BY Zenon, <1>1, <3>1, QInvIs, RingFrame, LocalsFrame
    <3>4. pc[u] \in {"write", "publish"} => Size(u)' < Capacity
      BY Zenon, <3>2, QInvIs DEF Owned
    <3>5. Owned(u)' /\ Fetch(u)'
      BY Zenon, <1>1, <3>1, <3>2, <3>4, QInvIs, OwnedFrame, FetchFrame
    <3>6. Theft(u)' /\ Runner(u)'
      BY Zenon, <1>1, <3>1, QInvIs, TheftFrame, RunnerFrame
    <3> QED BY Zenon, <3>3, <3>5, <3>6 DEF VpuInv
  <2> QED BY Zenon, <2>1, <2>2
<1>6. QueuedExactlyOnce'
  <2>1. ASSUME NEW t \in Tasks
        PROVE  (At(t) => At(t)') /\ (Nowhere(t) => Nowhere(t)')
    <3>1. InRings(t)' = InRings(t)
      BY Zenon, <1>1 DEF InRings, Size, Slot, Capacity
    <3>2. InGlobal(t)' = InGlobal(t)
      BY Zenon, <1>1 DEF InGlobal
    <3>3. AsTask(t)' = AsTask(t)
      BY Zenon, <1>3 DEF AsTask
    <3>4. AsCandidate(t)' = AsCandidate(t)
      BY Zenon, <1>3 DEF AsCandidate
    <3>5. InTemps(t)' = InTemps(t)
      <4>1. \A x \in Vpus \X (1..Capacity) : x[1] \in Vpus
        OBVIOUS
      <4>2. \A u \in Vpus : (pc[u] \in Holding <=> pc'[u] \in Holding)
                            /\ (pc[u] \in Holding => loc'[u] = loc[u])
        BY Zenon, <1>3
      <4> QED BY Zenon, <1>1, <4>1, <4>2 DEF InTemps, Capacity
    <3> QED BY Zenon, <3>1, <3>2, <3>3, <3>4, <3>5 DEF At, Nowhere
  <2> QED BY Zenon, <1>1, <2>1, QInvIs, OnceKept
<1>7. \A x, y \in Vpus : current'[x] = current'[y] /\ current'[x] # NULL => x = y
  BY Zenon, <1>1, QInvIs
<1> QED BY Zenon, <1>4, <1>5, <1>6, <1>7 DEF QInv

\* The types of a VPU's state.
LEMMA VpuTypes ==
  ASSUME QInv, NEW v \in Vpus
  PROVE  /\ pc[v] \in Locations /\ loc[v] \in LocalsType
         /\ runqhead[v] \in Counters /\ runqtail[v] \in Counters
         /\ shape \in Shapes /\ glock \in Vpus \cup {NULL} /\ gq \in Seq(Tasks)
         /\ NULL \notin Vpus /\ NULL \notin Tasks /\ Len(gq) \in Nat
         /\ Size(v) \in Counters
<1>1. /\ pc[v] \in Locations /\ loc[v] \in LocalsType
      /\ runqhead[v] \in Counters /\ runqtail[v] \in Counters
      /\ shape \in Shapes /\ glock \in Vpus \cup {NULL} /\ gq \in Seq(Tasks)
  BY Zenon, QInvIs DEF TypeOK, Counters
<1>2. Size(v) \in Counters
  BY Zenon, <1>1, DistanceIs DEF Size
<1>3. NULL \notin Vpus /\ NULL \notin Tasks
  BY Zenon, RunQueueAssumption
<1>4. Len(gq) \in Nat
  BY <1>1
<1> QED BY Zenon, <1>1, <1>2, <1>3, <1>4

\* The locals of a VPU that holds nothing.
LEMMA NoLocalsIs ==
  /\ NoLocals \in LocalsType
  /\ NoLocals.n = 0 /\ NoLocals.task = NULL /\ NoLocals.candidate = NULL /\ NoLocals.ret = "poll"
BY RunQueueAssumption DEF NoLocals, LocalsType

\* A VPU that looks for a coroutine holds none, and no lock.
Searching ==
  {"get", "getCAS", "poll", "global", "trylock", "steal", "grab", "grabTail", "copy", "grabCAS"}
Stealing == {"grab", "grabTail", "copy", "grabCAS"}

\* What a searching VPU may rely on.
LEMMA SearchIs ==
  ASSUME QInv, NEW v \in Vpus, pc[v] \in Searching
  PROVE  /\ loc[v] \in LocalsType /\ loc[v].task = NULL /\ loc[v].candidate = NULL
         /\ glock # v /\ current[v] = NULL
         /\ pc[v] \in Emptied => Size(v) = 0
         /\ pc[v] \in {"get", "getCAS"} => loc[v].ret \in {"poll", "global"}
         /\ pc[v] \in {"global", "trylock"} => loc[v].n = 0
         /\ pc[v] = "getCAS" => loc[v].head # runqtail[v]
         /\ pc[v] \in Locations /\ pc[v] \notin Holding
<1>1. /\ Ring(v) /\ Locals(v) /\ Owned(v) /\ Fetch(v) /\ Runner(v) /\ pc[v] \in Locations
      /\ loc[v] \in LocalsType
  BY Zenon, QInvIs, VpuTypes
<1>2. /\ pc[v] \notin Putting /\ ~Fetching(v) /\ ~Running(v) /\ pc[v] \notin Holding
      /\ pc[v] \notin {"found", "own", "ownTail"}
  BY DEF Searching, Putting, Fetching, Running, Holding
<1> QED BY Zenon, <1>1, <1>2 DEF Ring, Locals, Owned, Fetch, Runner

\* A step of the search that only the VPU itself sees.
LEMMA SearchStep ==
  ASSUME QInv, NEW v \in Vpus, NEW k \in Searching, NEW l \in LocalsType,
         pc[v] \in Searching, pc' = [pc EXCEPT ![v] = k], loc' = [loc EXCEPT ![v] = l],
         UNCHANGED <<shape, ring, global, coroutines>>,
         l.task = NULL, l.candidate = NULL,
         k \in Emptied => Size(v) = 0,
         k \in {"get", "getCAS"} => l.ret \in {"poll", "global"},
         k \in {"global", "trylock"} => l.n = 0,
         k = "getCAS" => l.head # runqtail[v],
         k \in Stealing => Theft(v)'
  PROVE  QInv'
<1>1. pc'[v] = k /\ loc'[v] = l
  BY Zenon, QInvIs DEF TypeOK
<1>2. /\ shape' = shape /\ runqhead' = runqhead /\ runqtail' = runqtail /\ runq' = runq
      /\ glock' = glock /\ current' = current
  BY Zenon DEF ring, global, coroutines
<1>3. /\ k \in Locations /\ k \notin Putting /\ k \notin Holding
      /\ k \notin {"found", "own", "ownTail"} /\ k # "fetch" /\ k # "run" /\ k # "ownTail"
      /\ k \notin {"write", "publish"} /\ k # "publish" /\ k # "slow"
  BY DEF Searching, Locations, Putting, Holding
<1>4. ~Fetching(v)' /\ ~Running(v)'
  BY Zenon, <1>1, <1>3 DEF Fetching, Running
<1>5. Ring(v)'
  BY Zenon, <1>1, <1>2, QInvIs, RingMove
<1>6. Locals(v)'
  BY Zenon, <1>1, <1>3, <1>4 DEF Locals
<1>7. Owned(v)'
  BY Zenon, <1>1, <1>2, <1>3 DEF Owned
<1>8. Fetch(v)' /\ Runner(v)'
  BY Zenon, <1>2, <1>4, SearchIs DEF Fetch, Runner
<1>9. Theft(v)'
  <2>1. CASE k \in Stealing
    BY Zenon, <2>1
  <2>2. CASE k \notin Stealing
    BY Zenon, <1>1, <2>2 DEF Theft, Stealing
  <2> QED BY Zenon, <2>1, <2>2
<1> QED BY Zenon, <1>3, <1>5, <1>6, <1>7, <1>8, <1>9, SearchIs, LocalStep

\* __runqget reads its head: the ring is empty, or there is something to take.
LEMMA GetQInv ==
  ASSUME QInv, NEW v \in Vpus, Get(v)
  PROVE  QInv'
<1>1. pc[v] = "get" /\ pc[v] \in Searching /\ UNCHANGED <<shape, ring, global, coroutines>>
  BY Zenon DEF Get, Move, Searching
<1>2. /\ loc[v] \in LocalsType /\ loc[v].task = NULL /\ loc[v].candidate = NULL
      /\ loc[v].ret \in {"poll", "global"} /\ runqhead[v] \in Counters
  BY Zenon, <1>1, SearchIs, VpuTypes
<1>3. CASE runqtail[v] = runqhead[v]
  <2>1. pc' = [pc EXCEPT ![v] = loc[v].ret] /\ loc' = [loc EXCEPT ![v] = NoLocals]
    BY Zenon, <1>3 DEF Get, Move
  <2>2. Size(v) = 0
    BY Zenon, <1>3, DistanceZero, VpuTypes DEF Size
  <2>3. loc[v].ret \in Searching /\ loc[v].ret \notin {"get", "getCAS"} /\ loc[v].ret \notin Stealing
    BY <1>2 DEF Searching, Stealing
  <2> QED BY Zenon, <1>1, <2>1, <2>2, <2>3, NoLocalsIs, SearchStep
<1>4. CASE runqtail[v] # runqhead[v]
  <2> DEFINE l == [loc[v] EXCEPT !.head = runqhead[v]]
  <2>1. pc' = [pc EXCEPT ![v] = "getCAS"] /\ loc' = [loc EXCEPT ![v] = l]
    BY Zenon, <1>4 DEF Get, Move
  <2>2. /\ l \in LocalsType /\ l.task = NULL /\ l.candidate = NULL
        /\ l.head = runqhead[v] /\ l.ret = loc[v].ret
    BY <1>2 DEF LocalsType, Counters
  <2>3. "getCAS" \in Searching /\ "getCAS" \notin Emptied /\ "getCAS" \notin Stealing
    BY DEF Searching, Emptied, Stealing
  <2> HIDE DEF l
  <2> QED BY Zenon, <1>1, <1>2, <1>4, <2>1, <2>2, <2>3, SearchStep
<1> QED BY Zenon, <1>3, <1>4

\* core_elect looks at the global queue without its lock.
LEMMA ElectGlobalQInv ==
  ASSUME QInv, NEW v \in Vpus, ElectGlobal(v)
  PROVE  QInv'
<1> DEFINE k == IF gq # <<>> THEN "trylock" ELSE "steal"
<1>1. /\ pc[v] = "global" /\ pc' = [pc EXCEPT ![v] = k] /\ loc' = [loc EXCEPT ![v] = loc[v]]
      /\ UNCHANGED <<shape, ring, global, coroutines>>
  BY Zenon DEF ElectGlobal, Move
<1>2. /\ k \in Searching /\ k \notin {"get", "getCAS"} /\ k \notin Stealing
      /\ "global" \in Searching /\ "global" \in Emptied
  BY DEF Searching, Stealing, Emptied
<1> HIDE DEF k
<1> QED BY Zenon, <1>1, <1>2, SearchIs, SearchStep

\* The lock of the global queue is taken.
LEMMA ElectBusyQInv ==
  ASSUME QInv, NEW v \in Vpus, ElectBusy(v)
  PROVE  QInv'
<1>1. PICK k \in {"global", "steal"} : Move(v, "trylock", k, loc[v])
  BY Zenon DEF ElectBusy
<1>2. /\ pc[v] = "trylock" /\ pc' = [pc EXCEPT ![v] = k] /\ loc' = [loc EXCEPT ![v] = loc[v]]
      /\ UNCHANGED <<shape, ring, global, coroutines>>
  BY Zenon, <1>1 DEF ElectBusy, Move
<1>3. /\ k \in Searching /\ k \notin {"get", "getCAS"} /\ k \notin Stealing
      /\ "trylock" \in Searching /\ "trylock" \in Emptied
  BY DEF Searching, Stealing, Emptied
<1> QED BY Zenon, <1>2, <1>3, SearchIs, SearchStep

\* core_sched is done with its polling.
LEMMA PollEndQInv ==
  ASSUME QInv, NEW v \in Vpus, PollEnd(v)
  PROVE  QInv'
<1> DEFINE l == [NoLocals EXCEPT !.ret = "global"]
<1>1. /\ pc[v] = "poll" /\ pc' = [pc EXCEPT ![v] = "get"] /\ loc' = [loc EXCEPT ![v] = l]
      /\ UNCHANGED <<shape, ring, global, coroutines>>
  BY Zenon DEF PollEnd, Move
<1>2. l \in LocalsType /\ l.task = NULL /\ l.candidate = NULL /\ l.ret = "global"
  BY NoLocalsIs DEF LocalsType
<1>3. /\ "get" \in Searching /\ "get" \notin Stealing /\ "get" \notin Emptied
      /\ "poll" \in Searching
  BY DEF Searching, Stealing, Emptied
<1> HIDE DEF l
<1> QED BY Zenon, <1>1, <1>2, <1>3, SearchIs, SearchStep

\* core_sched begins its next round.
LEMMA StealGiveUpQInv ==
  ASSUME QInv, NEW v \in Vpus, StealGiveUp(v)
  PROVE  QInv'
<1>1. /\ pc[v] = "steal" /\ pc' = [pc EXCEPT ![v] = "get"] /\ loc' = [loc EXCEPT ![v] = NoLocals]
      /\ UNCHANGED <<shape, ring, global, coroutines>>
  BY Zenon DEF StealGiveUp, Move
<1>2. /\ "get" \in Searching /\ "get" \notin Stealing /\ "get" \notin Emptied
      /\ "steal" \in Searching
  BY DEF Searching, Stealing, Emptied
<1> QED BY Zenon, <1>1, <1>2, NoLocalsIs, SearchIs, SearchStep

\* A thief chooses its victim.
LEMMA StealFromQInv ==
  ASSUME QInv, NEW v \in Vpus, NEW u \in Vpus, StealFrom(v, u)
  PROVE  QInv'
<1> DEFINE l == [NoLocals EXCEPT !.victim = u]
<1>1. /\ pc[v] = "steal" /\ pc' = [pc EXCEPT ![v] = "grab"] /\ loc' = [loc EXCEPT ![v] = l]
      /\ u # v /\ UNCHANGED <<shape, ring, global, coroutines>>
  BY Zenon DEF StealFrom, Move
<1>2. l \in LocalsType /\ l.task = NULL /\ l.candidate = NULL /\ l.victim = u
  BY NoLocalsIs DEF LocalsType
<1>3. /\ "grab" \in Searching /\ "grab" \notin {"copy", "grabCAS"} /\ "grab" \notin {"get", "getCAS"}
      /\ "steal" \in Searching /\ "steal" \in Emptied
  BY DEF Searching, Emptied
<1> HIDE DEF l
<1>4. pc'[v] = "grab" /\ loc'[v] = l
  BY Zenon, <1>1, QInvIs DEF TypeOK
<1>5. Theft(v)'
  BY Zenon, <1>1, <1>2, <1>3, <1>4 DEF Theft
<1> QED BY Zenon, <1>1, <1>2, <1>3, <1>5, SearchIs, SearchStep

\* A thief reads the head of its victim.
LEMMA GrabQInv ==
  ASSUME QInv, NEW v \in Vpus, Grab(v)
  PROVE  QInv'
<1> DEFINE l == [loc[v] EXCEPT !.head = runqhead[loc[v].victim]]
<1>1. /\ pc[v] = "grab" /\ pc' = [pc EXCEPT ![v] = "grabTail"] /\ loc' = [loc EXCEPT ![v] = l]
      /\ UNCHANGED <<shape, ring, global, coroutines>>
  BY Zenon DEF Grab, Move
<1>2. /\ "grabTail" \in Searching /\ "grabTail" \notin {"copy", "grabCAS"}
      /\ "grabTail" \notin {"get", "getCAS"} /\ "grab" \in Searching /\ "grab" \in Emptied
  BY DEF Searching, Emptied
<1>3. /\ loc[v] \in LocalsType /\ loc[v].task = NULL /\ loc[v].candidate = NULL /\ Size(v) = 0
      /\ loc[v].victim \in Vpus \ {v}
  BY Zenon, <1>1, <1>2, SearchIs, QInvIs DEF Theft
<1>4. runqhead[loc[v].victim] \in Counters
  BY Zenon, <1>3, VpuTypes
<1>5. l \in LocalsType /\ l.task = NULL /\ l.candidate = NULL /\ l.victim = loc[v].victim
  BY <1>3, <1>4 DEF LocalsType, Counters
<1> HIDE DEF l
<1>6. pc'[v] = "grabTail" /\ loc'[v] = l
  BY Zenon, <1>1, QInvIs DEF TypeOK
<1>7. Theft(v)'
  BY Zenon, <1>2, <1>3, <1>5, <1>6 DEF Theft
<1> QED BY Zenon, <1>1, <1>2, <1>3, <1>5, <1>7, SearchStep

\* A thief reads the tail of its victim, and knows what it will take.
LEMMA GrabTailQInv ==
  ASSUME QInv, NEW v \in Vpus, GrabTail(v)
  PROVE  QInv'
<1>1. pc[v] = "grabTail" /\ UNCHANGED <<shape, ring, global, coroutines>>
  BY Zenon DEF GrabTail
<1>2. /\ "grabTail" \in Searching /\ "grabTail" \in Emptied
      /\ "grab" \in Searching /\ "grab" \notin {"copy", "grabCAS"} /\ "grab" \notin {"get", "getCAS"}
      /\ "copy" \in Searching /\ "copy" \notin {"get", "getCAS"}
      /\ "steal" \in Searching /\ "steal" \notin Stealing
  BY DEF Searching, Emptied, Stealing
<1>3. /\ loc[v] \in LocalsType /\ loc[v].task = NULL /\ loc[v].candidate = NULL /\ Size(v) = 0
      /\ Theft(v)
  BY Zenon, <1>1, <1>2, SearchIs, QInvIs
<1>u. PICK u \in Vpus \ {v} : u = loc[v].victim
  BY Zenon, <1>1, <1>3 DEF Theft
<1> DEFINE m == Distance(runqtail[u], loc[v].head)
           n == m - m \div 2
           l == [loc[v] EXCEPT !.n = n, !.temp = <<>>]
<1>4. CASE n = 0 /\ Move(v, "grabTail", "steal", NoLocals)
  <2>1. pc' = [pc EXCEPT ![v] = "steal"] /\ loc' = [loc EXCEPT ![v] = NoLocals]
    BY Zenon, <1>4 DEF Move
  <2> QED BY Zenon, <1>1, <1>2, <1>3, <2>1, NoLocalsIs, SearchStep
<1>5. CASE Move(v, "grabTail", "grab", loc[v])
  <2>1. pc' = [pc EXCEPT ![v] = "grab"] /\ loc' = [loc EXCEPT ![v] = loc[v]]
    BY Zenon, <1>5 DEF Move
  <2>2. pc'[v] = "grab" /\ loc'[v] = loc[v]
    BY Zenon, <2>1, QInvIs DEF TypeOK
  <2>3. Theft(v)'
    BY Zenon, <1>2, <1>u, <2>2 DEF Theft
  <2> QED BY Zenon, <1>1, <1>2, <1>3, <2>1, <2>3, SearchStep
<1>6. CASE n \in 1..(Capacity \div 2) /\ Move(v, "grabTail", "copy", l)
  <2>1. pc' = [pc EXCEPT ![v] = "copy"] /\ loc' = [loc EXCEPT ![v] = l]
    BY Zenon, <1>6 DEF Move
  <2>2. n \in Nat /\ <<>> \in Seq(Tasks \cup {NULL})
    BY <1>6
  <2> HIDE DEF n
  <2>3. /\ l \in LocalsType /\ l.task = NULL /\ l.candidate = NULL /\ l.victim = u /\ l.n = n
        /\ l.temp = <<>> /\ l.head = loc[v].head
    BY Zenon, <1>3, <1>u, <2>2 DEF LocalsType
  <2> HIDE DEF l
  <2>4. pc'[v] = "copy" /\ loc'[v] = l
    BY Zenon, <2>1, QInvIs DEF TypeOK
  <2>5. runqhead[u] = loc[v].head => n <= Size(u)
    <3>1. m \in Int /\ m >= 0
      <4>1. runqtail[u] \in Counters /\ loc[v].head \in Counters
        BY Zenon, <1>3, VpuTypes DEF LocalsType, Counters
      <4>2. m \in Counters
        BY Zenon, <4>1, DistanceIs
      <4> QED BY <4>2 DEF Counters
    <3>2. runqhead[u] = loc[v].head => Size(u) = m
      BY Zenon DEF Size
    <3> HIDE DEF m
    <3> QED BY <3>1, <3>2 DEF n
  <2>6. Len(l.temp) = 0 /\ 0 < n /\ 1..0 = {}
    BY <1>6, <2>3
  <2>7. /\ shape' = shape /\ runqhead' = runqhead /\ Size(u)' = Size(u) /\ Capacity' = Capacity
    BY Zenon, <1>1 DEF ring, Size, Capacity
  <2>8. Theft(v)'
    BY Zenon, <1>6, <2>3, <2>4, <2>5, <2>6, <2>7 DEF Theft
  <2> QED BY Zenon, <1>1, <1>2, <1>3, <2>1, <2>3, <2>8, SearchStep
<1> QED BY Zenon, <1>u, <1>4, <1>5, <1>6 DEF GrabTail

\* A thief copies one more slot.
LEMMA GrabCopyQInv ==
  ASSUME QInv, NEW v \in Vpus, GrabCopy(v)
  PROVE  QInv'
<1> DEFINE h == loc[v].head
           i == Len(loc[v].temp)
           x == runq[loc[v].victim][Slot(h + i)]
           k == IF i + 1 = loc[v].n THEN "grabCAS" ELSE "copy"
           l == [loc[v] EXCEPT !.temp = Append(@, x)]
<1>1. /\ pc[v] = "copy" /\ pc' = [pc EXCEPT ![v] = k] /\ loc' = [loc EXCEPT ![v] = l]
      /\ UNCHANGED <<shape, ring, global, coroutines>>
  BY Zenon DEF GrabCopy, Move
<1>2. /\ k \in {"copy", "grabCAS"} /\ k \in Searching /\ k \notin {"get", "getCAS"}
      /\ k \notin {"global", "trylock"} /\ "copy" \in Searching /\ "copy" \in Emptied
      /\ k = "copy" <=> i + 1 # loc[v].n
  BY DEF Searching, Emptied
<1>0. /\ loc[v] \in LocalsType /\ loc[v].task = NULL /\ loc[v].candidate = NULL /\ Size(v) = 0
      /\ Theft(v)
  BY Zenon, <1>1, <1>2, SearchIs, QInvIs
<1>u. PICK u \in Vpus \ {v} : u = loc[v].victim
  BY Zenon, <1>0, <1>1 DEF Theft
<1>3. /\ loc[v].n \in 1..(Capacity \div 2) /\ i < loc[v].n
      /\ runqhead[u] = h => loc[v].n <= Size(u)
      /\ runqhead[u] = h => \A j \in 1..i : loc[v].temp[j] = runq[u][Slot(Plus(h, j - 1))]
  BY Zenon, <1>0, <1>1, <1>u DEF Theft
<1>4. /\ h \in Counters /\ loc[v].temp \in Seq(Tasks \cup {NULL}) /\ i \in Nat
      /\ shape \in Shapes /\ loc[v].n \in Nat
  <2>1. shape \in Shapes
    BY Zenon, VpuTypes
  <2> QED BY <1>0, <1>3, <2>1 DEF LocalsType, Counters
<1>5. i \in 0..Modulus /\ i < Capacity
  BY <1>3, <1>4, CapacityIs
<1>6. x \in Tasks \cup {NULL}
  <2>1. Slot(h + i) \in 0..(Capacity - 1)
    <3>1. h + i \in Int
      BY <1>4 DEF Counters
    <3> QED BY Zenon, <1>4, <3>1, SlotIn
  <2>2. runq \in [Vpus -> [0..(Capacity - 1) -> Tasks \cup {NULL}]]
    BY Zenon, QInvIs DEF TypeOK
  <2> QED BY Zenon, <1>u, <2>1, <2>2
<1>7. Slot(h + i) = Slot(Plus(h, i))
  BY Zenon, <1>4, <1>5, SlotPlus
<1> HIDE DEF x, k
<1>8. /\ l \in LocalsType /\ l.task = NULL /\ l.candidate = NULL /\ l.victim = u /\ l.n = loc[v].n
      /\ l.temp = Append(loc[v].temp, x) /\ l.head = h
  <2>1. Append(loc[v].temp, x) \in Seq(Tasks \cup {NULL})
    BY <1>4, <1>6
  <2> QED BY Zenon, <1>0, <1>u, <2>1 DEF LocalsType
<1>9. /\ Len(l.temp) = i + 1 /\ l.temp[i + 1] = x
      /\ \A j \in 1..i : l.temp[j] = loc[v].temp[j]
  BY <1>4, <1>6, <1>8
<1> HIDE DEF l
<1>10. pc'[v] = k /\ loc'[v] = l
  BY Zenon, <1>1, QInvIs DEF TypeOK
<1>11. /\ shape' = shape /\ runqhead' = runqhead /\ Size(u)' = Size(u) /\ Capacity' = Capacity
       /\ runq' = runq /\ \A c : Slot(c)' = Slot(c)
  BY Zenon, <1>1 DEF ring, Size, Capacity, Slot
<1>12. runqhead[u] = h => \A j \in 1..(i + 1) : l.temp[j] = runq[u][Slot(Plus(h, j - 1))]
  <2> SUFFICES ASSUME runqhead[u] = h, NEW j \in 1..(i + 1)
               PROVE  l.temp[j] = runq[u][Slot(Plus(h, j - 1))]
    BY Zenon
  <2>1. CASE j = i + 1
    <3>1. j - 1 = i
      BY <1>4, <2>1
    <3> QED BY Zenon, <1>u, <1>7, <1>9, <2>1, <3>1 DEF x
  <2>2. CASE j # i + 1
    <3>1. j \in 1..i
      BY <1>4, <2>2
    <3> QED BY Zenon, <1>3, <1>9, <3>1
  <2> QED BY Zenon, <2>1, <2>2
<1>13. IF k = "copy" THEN Len(l.temp) < l.n ELSE Len(l.temp) = l.n
  BY <1>2, <1>3, <1>4, <1>8, <1>9
<1>14. Theft(v)'
  BY Zenon, <1>2, <1>3, <1>8, <1>9, <1>10, <1>11, <1>12, <1>13 DEF Theft
<1> QED BY Zenon, <1>0, <1>1, <1>2, <1>8, <1>14, SearchStep

\* What a VPU in __runqput may rely on.
LEMMA PutIs ==
  ASSUME QInv, NEW v \in Vpus, pc[v] \in {"put", "write", "publish", "slow"}
  PROVE  /\ loc[v] \in LocalsType /\ loc[v].task \in Tasks /\ loc[v].ret \in {"run", "poll", "fetch"}
         /\ Fetching(v) <=> loc[v].ret = "fetch"
         /\ Running(v) <=> loc[v].ret = "run"
         /\ loc[v].candidate # NULL <=> Fetching(v)
         /\ Fetching(v) => Size(v) + loc[v].n + 1 <= Capacity - 2
         /\ pc[v] \in Locations /\ pc[v] \notin Holding
<1>1. Locals(v) /\ Fetch(v) /\ pc[v] \in Locations /\ loc[v] \in LocalsType
  BY Zenon, QInvIs, VpuTypes
<1>2. /\ pc[v] \in Putting \ {"slowAdd"} /\ pc[v] \notin Holding /\ pc[v] # "fetch" /\ pc[v] # "run"
      /\ pc[v] \notin {"found", "own", "ownTail"} /\ pc[v] \in Putting
  BY DEF Putting, Holding
<1>3. loc[v].task # NULL /\ loc[v].ret # "global"
  BY Zenon, <1>1, <1>2 DEF Locals
<1>4. loc[v].task \in Tasks /\ loc[v].ret \in {"run", "poll", "fetch"}
  BY <1>1, <1>3 DEF LocalsType
<1>5. /\ Fetching(v) <=> loc[v].ret = "fetch"
      /\ Running(v) <=> loc[v].ret = "run"
  BY Zenon, <1>2 DEF Fetching, Running
<1>6. loc[v].candidate # NULL <=> Fetching(v)
  BY Zenon, <1>1, <1>2 DEF Locals, Fetch
<1>7. Fetching(v) => Size(v) + loc[v].n + 1 <= Capacity - 2
  BY Zenon, <1>1, <1>2 DEF Fetch
<1> QED BY Zenon, <1>1, <1>2, <1>4, <1>5, <1>6, <1>7

\* A step of __runqput that only the VPU itself sees.
LEMMA PutStep ==
  ASSUME QInv, NEW v \in Vpus, NEW k \in {"put", "write", "slow"}, NEW l \in LocalsType,
         pc[v] \in {"put", "slow"}, pc' = [pc EXCEPT ![v] = k], loc' = [loc EXCEPT ![v] = l],
         UNCHANGED <<shape, ring, global, coroutines>>,
         l.task = loc[v].task, l.candidate = loc[v].candidate, l.n = loc[v].n, l.ret = loc[v].ret,
         k = "write" => Size(v) < Capacity,
         k = "slow" => Distance(runqtail[v], l.head) = Capacity /\ ~Fetching(v)
  PROVE  QInv'
<1>1. pc'[v] = k /\ loc'[v] = l
  BY Zenon, QInvIs DEF TypeOK
<1>2. /\ shape' = shape /\ runqhead' = runqhead /\ runqtail' = runqtail /\ runq' = runq
      /\ gq' = gq /\ glock' = glock /\ current' = current /\ status' = status
      /\ Size(v)' = Size(v) /\ Capacity' = Capacity
  BY Zenon DEF ring, global, coroutines, Size, Capacity
<1>3. /\ k \in Locations /\ k \in Putting /\ k # "slowAdd" /\ k \notin Holding /\ k \notin Emptied
      /\ k \notin {"found", "own", "ownTail"} /\ k # "fetch" /\ k # "run" /\ k # "ownTail"
      /\ k # "publish" /\ k \notin {"get", "getCAS"} /\ k # "getCAS"
      /\ k \notin {"global", "trylock"} /\ k \notin Stealing /\ k \notin {"copy", "grabCAS"}
      /\ k \in {"write", "publish"} => k = "write"
      /\ k \in {"slow", "slowAdd"} => k = "slow"
  BY DEF Locations, Putting, Holding, Emptied, Stealing
<1>4. pc[v] \in {"put", "write", "publish", "slow"} /\ pc[v] \in Putting /\ pc[v] # "fetch" /\ pc[v] # "run"
  BY DEF Putting
<1>5. (Fetching(v)' <=> Fetching(v)) /\ (Running(v)' <=> Running(v))
  BY Zenon, <1>1, <1>3, <1>4 DEF Fetching, Running
<1>6. Ring(v)'
  BY Zenon, <1>1, <1>2, <1>3, QInvIs, RingMove
<1>7. Locals(v)'
  <2>1. l.task # NULL /\ l.ret # "global"
    BY Zenon, <1>4, PutIs, VpuTypes
  <2>2. l.candidate # NULL => Fetching(v)'
    BY Zenon, <1>4, <1>5, PutIs
  <2> QED BY Zenon, <1>1, <1>3, <2>1, <2>2 DEF Locals
<1>8. Owned(v)'
  BY Zenon, <1>1, <1>2, <1>3 DEF Owned
<1>9. Fetch(v)'
  <2>1. Fetch(v)
    BY Zenon, QInvIs
  <2> QED BY Zenon, <1>1, <1>2, <1>3, <1>4, <1>5, <2>1, PutIs DEF Fetch
<1>10. Runner(v)'
  <2>1. Runner(v)
    BY Zenon, QInvIs
  <2> QED BY Zenon, <1>2, <1>5, <2>1 DEF Runner
<1>11. Theft(v)'
  BY Zenon, <1>1, <1>3 DEF Theft, Stealing
<1> QED BY Zenon, <1>3, <1>4, <1>6, <1>7, <1>8, <1>9, <1>10, <1>11, PutIs, LocalStep

\* __runqput reads its head: the ring is full or not.
LEMMA PutQInv ==
  ASSUME QInv, NEW v \in Vpus, Put(v)
  PROVE  QInv'
<1> DEFINE k == IF Size(v) >= Capacity THEN "slow" ELSE "write"
           l == [loc[v] EXCEPT !.head = runqhead[v]]
<1>1. /\ pc[v] = "put" /\ pc' = [pc EXCEPT ![v] = k] /\ loc' = [loc EXCEPT ![v] = l]
      /\ UNCHANGED <<shape, ring, global, coroutines>>
  BY Zenon DEF Put, Move, Size
<1>2. loc[v] \in LocalsType /\ runqhead[v] \in Counters
  BY Zenon, VpuTypes
<1>3. /\ l \in LocalsType /\ l.task = loc[v].task /\ l.candidate = loc[v].candidate
      /\ l.n = loc[v].n /\ l.ret = loc[v].ret /\ l.head = runqhead[v]
  BY <1>2 DEF LocalsType, Counters
<1>4. /\ Size(v) <= Capacity /\ Size(v) \in Int /\ Capacity \in Int /\ loc[v].n \in Nat
      /\ Fetching(v) => Size(v) + loc[v].n + 1 <= Capacity - 2
  <2>1. /\ Size(v) <= Capacity /\ Size(v) \in Counters /\ shape \in Shapes
        /\ Fetching(v) => Size(v) + loc[v].n + 1 <= Capacity - 2
    BY Zenon, <1>1, QInvIs, PutIs, VpuTypes DEF Ring
  <2> QED BY <1>2, <2>1, CapacityIs DEF LocalsType, Counters
<1>5. /\ k \in {"put", "write", "slow"}
      /\ k = "write" => Size(v) < Capacity
      /\ k = "slow" => Size(v) = Capacity /\ ~Fetching(v)
  BY <1>4
<1>6. Size(v) = Distance(runqtail[v], l.head)
  BY Zenon, <1>3 DEF Size
<1> HIDE DEF k, l
<1> QED BY Zenon, <1>1, <1>3, <1>5, <1>6, PutStep
-----------------------------------------------------------------------------
(* Steps that move a head *)

\* A head moves on by n, not past the tail.
LEMMA HeadArith ==
  ASSUME NEW h \in Counters, NEW t \in Counters, NEW n \in 1..Distance(t, h)
  PROVE  /\ Plus(h, n) \in Counters /\ Plus(h, n) # h
         /\ Distance(t, Plus(h, n)) = Distance(t, h) - n
         /\ Distance(Plus(h, n), h) = n /\ Distance(h, Plus(h, n)) + n = Modulus
         /\ \A c \in Counters :
              Distance(c, Plus(h, n)) < Distance(t, Plus(h, n))
                <=> n <= Distance(c, h) /\ Distance(c, h) < Distance(t, h)
<1> DEFINE g == Plus(h, n)
<1>0. /\ Modulus \in Nat /\ h \in Int /\ t \in Int /\ 0 <= h /\ h < Modulus
      /\ 0 <= t /\ t < Modulus
  BY RunQueueAssumption DEF Counters
<1>1. /\ Distance(t, h) = IF h <= t THEN t - h ELSE t - h + Modulus
      /\ Distance(t, h) \in Counters
  BY Zenon, DistanceIs
<1>2. n \in Int /\ 1 <= n /\ n < Modulus /\ n <= Distance(t, h) /\ n \in 0..Modulus
  BY <1>0, <1>1 DEF Counters
<1>3. g \in Counters /\ g = IF h + n < Modulus THEN h + n ELSE h + n - Modulus
  BY Zenon, <1>2, PlusIs
<1> HIDE DEF g
<1>4. g \in Int /\ 0 <= g /\ g < Modulus /\ g # h
  BY <1>0, <1>2, <1>3
<1>5. /\ Distance(t, g) = IF g <= t THEN t - g ELSE t - g + Modulus
      /\ Distance(g, h) = IF h <= g THEN g - h ELSE g - h + Modulus
      /\ Distance(h, g) = IF g <= h THEN h - g ELSE h - g + Modulus
  BY Zenon, <1>3, DistanceIs
<1>6. Distance(t, g) = Distance(t, h) - n /\ Distance(g, h) = n /\ Distance(h, g) + n = Modulus
  BY <1>0, <1>1, <1>2, <1>3, <1>4, <1>5
<1>7. ASSUME NEW c \in Counters
      PROVE  Distance(c, g) < Distance(t, g) <=> n <= Distance(c, h) /\ Distance(c, h) < Distance(t, h)
  <2>1. /\ Distance(c, g) = IF g <= c THEN c - g ELSE c - g + Modulus
        /\ Distance(c, h) = IF h <= c THEN c - h ELSE c - h + Modulus
    BY Zenon, <1>3, DistanceIs
  <2>2. c \in Int /\ 0 <= c /\ c < Modulus
    BY <1>0 DEF Counters
  <2> QED BY <1>0, <1>1, <1>2, <1>3, <1>4, <1>5, <2>1, <2>2
<1> QED BY Zenon, <1>3, <1>4, <1>6, <1>7 DEF g

\* The ring of u loses the n coroutines at its head, and nothing else of a ring changes.
Taken(u, n) ==
  /\ runqhead' = [runqhead EXCEPT ![u] = Plus(runqhead[u], n)]
  /\ shape' = shape /\ runqtail' = runqtail /\ runq' = runq

\* What becomes of the ring.
LEMMA TakenIs ==
  ASSUME QInv, NEW u \in Vpus, NEW n \in 1..Size(u), Taken(u, n)
  PROVE  /\ runqhead'[u] = Plus(runqhead[u], n) /\ runqhead' \in [Vpus -> Counters]
         /\ runqhead'[u] # runqhead[u] /\ Distance(runqhead'[u], runqhead[u]) = n
         /\ Distance(runqhead[u], runqhead'[u]) + n = Modulus
         /\ Size(u)' = Size(u) - n
         /\ \A c \in Counters :
              Distance(c, runqhead'[u]) < Size(u)'
                <=> n <= Distance(c, runqhead[u]) /\ Distance(c, runqhead[u]) < Size(u)
         /\ \A x \in Vpus : x # u => runqhead'[x] = runqhead[x] /\ Size(x)' = Size(x)
<1>1. runqhead \in [Vpus -> Counters] /\ runqtail \in [Vpus -> Counters]
  BY Zenon, QInvIs DEF TypeOK, Counters
<1>2. runqhead'[u] = Plus(runqhead[u], n) /\ \A x \in Vpus : x # u => runqhead'[x] = runqhead[x]
  BY Zenon, <1>1 DEF Taken
<1>3. runqtail' = runqtail
  BY Zenon DEF Taken
<1>4. n \in 1..Distance(runqtail[u], runqhead[u]) /\ runqtail[u] \in Counters /\ runqhead[u] \in Counters
  BY Zenon, <1>1 DEF Size
<1> DEFINE g == Plus(runqhead[u], n)
<1>5. /\ g \in Counters /\ g # runqhead[u]
      /\ Distance(runqtail[u], g) = Distance(runqtail[u], runqhead[u]) - n
      /\ Distance(g, runqhead[u]) = n /\ Distance(runqhead[u], g) + n = Modulus
      /\ \A c \in Counters :
           Distance(c, g) < Distance(runqtail[u], g)
             <=> n <= Distance(c, runqhead[u]) /\ Distance(c, runqhead[u]) < Distance(runqtail[u], runqhead[u])
  <2> HIDE DEF Taken
  <2> DEFINE h == runqhead[u]
             t == runqtail[u]
  <2>1. h \in Counters /\ t \in Counters /\ n \in 1..Distance(t, h)
    BY Zenon, <1>4
  <2> HIDE DEF h, t
  <2>2. /\ Plus(h, n) \in Counters /\ Plus(h, n) # h
        /\ Distance(t, Plus(h, n)) = Distance(t, h) - n
        /\ Distance(Plus(h, n), h) = n /\ Distance(h, Plus(h, n)) + n = Modulus
    BY <2>1, HeadArith
  <2>3. \A c \in Counters :
          Distance(c, Plus(h, n)) < Distance(t, Plus(h, n))
             <=> n <= Distance(c, h) /\ Distance(c, h) < Distance(t, h)
    BY Zenon, <2>1, HeadArith
  <2> QED BY Zenon, <2>2, <2>3 DEF h, t
<1>6. runqhead' \in [Vpus -> Counters]
  BY Zenon, <1>1, <1>5 DEF Taken
<1>7. Size(u)' = Distance(runqtail[u], g) /\ Size(u) = Distance(runqtail[u], runqhead[u])
  BY Zenon, <1>2, <1>3 DEF Size
<1>8. \A x \in Vpus : x # u => Size(x)' = Size(x)
  BY Zenon, <1>2, <1>3 DEF Size
<1> HIDE DEF g
<1>9. runqhead'[u] = g
  BY Zenon, <1>2 DEF g
<1> QED BY Zenon, <1>2, <1>5, <1>6, <1>7, <1>8, <1>9

\* The rest of the ring is as it was.
LEMMA TakenRing ==
  ASSUME QInv, NEW u \in Vpus, NEW n \in 1..Size(u), Taken(u, n), pc'[u] \notin Emptied
  PROVE  Ring(u)'
<1>1. Ring(u) /\ Size(u) \in Counters /\ shape \in Shapes
  BY Zenon, QInvIs, VpuTypes
<1>2. Size(u)' <= Capacity'
  <2>1. Size(u)' = Size(u) - n /\ Capacity' = Capacity
    BY Zenon, TakenIs DEF Taken, Capacity
  <2>2. Capacity \in Nat /\ Size(u) <= Capacity
    BY Zenon, <1>1, CapacityIs DEF Ring
  <2> QED BY <1>1, <2>1, <2>2 DEF Counters
<1>3. \A c \in Counters : Distance(c, runqhead'[u]) < Size(u)' => Distance(c, runqhead[u]) < Size(u)
  BY Zenon, TakenIs
<1>4. runq' = runq /\ \A c : Slot(c)' = Slot(c)
  BY Zenon DEF Taken, Slot, Capacity
<1> QED BY Zenon, <1>1, <1>2, <1>3, <1>4 DEF Ring, Counters

\* A thief that has read the head before it moved will see that it has moved, because
\* it has not moved all the way round.
LEMMA TakenTheft ==
  ASSUME QInv, NEW u \in Vpus, NEW n \in 1..Size(u), Taken(u, n), \A x \in Vpus : Behind(x),
         NEW y \in Vpus, pc'[y] = pc[y], loc'[y] = loc[y]
  PROVE  Theft(y)'
<1>1. Theft(y)
  BY Zenon, QInvIs
<1>2. CASE loc[y].victim # u
  <2>1. loc[y].victim \in Vpus => runqhead'[loc[y].victim] = runqhead[loc[y].victim]
    BY Zenon, <1>2, TakenIs
  <2> QED BY Zenon, <1>1, <2>1, TheftFrame DEF Taken
<1>3. CASE loc[y].victim = u
  <2>1. pc[y] \in {"copy", "grabCAS"} => runqhead'[u] # loc[y].head
    <3> SUFFICES ASSUME pc[y] \in {"copy", "grabCAS"}, runqhead'[u] = loc[y].head
                 PROVE  FALSE
      BY Zenon
    <3>1. Distance(runqhead[u], loc[y].head) + Distance(runqhead'[u], runqhead[u]) < Modulus
      BY Zenon, <1>3 DEF Behind
    <3>2. /\ Distance(runqhead[u], runqhead'[u]) + n = Modulus
          /\ Distance(runqhead'[u], runqhead[u]) = n
      BY Zenon, TakenIs
    <3>3. Modulus < Modulus
      BY Zenon, <3>1, <3>2
    <3>4. Modulus \in Nat
      BY Zenon, RunQueueAssumption
    <3> QED BY <3>3, <3>4
  <2>2. Capacity' = Capacity
    BY Zenon DEF Taken, Capacity
  <2> QED BY Zenon, <1>1, <1>3, <2>1, <2>2 DEF Theft
<1> QED BY Zenon, <1>2, <1>3

\* Fetch(y) holds on when a thief makes room.
LEMMA TakenFetch ==
  ASSUME QInv, NEW u \in Vpus, NEW n \in 1..Size(u), Taken(u, n), UNCHANGED global,
         pc'[u] = pc[u], loc'[u] = loc[u]
  PROVE  Fetch(u)'
<1>1. Fetch(u) /\ Size(u) \in Counters /\ shape \in Shapes /\ loc[u] \in LocalsType
  BY Zenon, QInvIs, VpuTypes
<1>2. /\ Size(u)' = Size(u) - n /\ Capacity' = Capacity /\ gq' = gq /\ glock' = glock
      /\ Fetching(u)' <=> Fetching(u)
  BY Zenon, TakenIs DEF Taken, Capacity, global, Fetching
<1>3. /\ Size(u) \in Nat /\ Capacity \in Nat /\ loc[u].n \in Nat
      /\ n \in Nat /\ n <= Size(u) /\ Size(u) # 0
  BY <1>1, CapacityIs DEF Counters, LocalsType
<1> DEFINE e == IF pc[u] = "fetch" THEN 0 ELSE 1
<1>4. Size(u) + loc[u].n + e <= Capacity - 2 => Size(u) - n + loc[u].n + e <= Capacity - 2
  BY <1>3
<1> HIDE DEF e
<1>5. e = IF pc[u] = "fetch" THEN 0 ELSE 1
  BY Zenon DEF e
<1> QED BY Zenon, <1>1, <1>2, <1>3, <1>4, <1>5 DEF Fetch

\* A step of v that moves the head of u keeps the invariant if v's part of it holds, and
\* the coroutines it takes from the ring are queued elsewhere.
LEMMA HeadStep ==
  ASSUME QInv, \A x \in Vpus : Behind(x), NEW v \in Vpus, NEW u \in Vpus, NEW n \in 1..Size(u),
         Taken(u, n), NEW k \in Locations, NEW l \in LocalsType,
         pc' = [pc EXCEPT ![v] = k], loc' = [loc EXCEPT ![v] = l],
         UNCHANGED <<global, coroutines>>,
         Ring(v)' /\ Locals(v)' /\ Owned(v)' /\ Fetch(v)' /\ Theft(v)' /\ Runner(v)',
         QueuedExactlyOnce'
  PROVE  QInv'
<1>1. /\ shape' = shape /\ runqtail' = runqtail /\ runq' = runq
      /\ gq' = gq /\ glock' = glock /\ status' = status /\ current' = current /\ budget' = budget
  BY Zenon DEF Taken, global, coroutines
<1>2. pc \in [Vpus -> Locations] /\ loc \in [Vpus -> LocalsType]
  BY Zenon, QInvIs DEF TypeOK
<1>3. \A y \in Vpus : y # v => pc'[y] = pc[y] /\ loc'[y] = loc[y]
  BY Zenon, <1>2
<1>4. TypeOK'
  <2>1. pc' \in [Vpus -> Locations] /\ loc' \in [Vpus -> LocalsType]
    BY Zenon, <1>2
  <2>2. runqhead' \in [Vpus -> 0..(Modulus - 1)]
    BY Zenon, TakenIs DEF Counters
  <2> QED BY Zenon, <1>1, <2>1, <2>2, QInvIs DEF TypeOK, Capacity
<1>5. ASSUME NEW y \in Vpus, y # v
      PROVE  VpuInv(y)'
  <2>1. pc'[y] = pc[y] /\ loc'[y] = loc[y]
    BY Zenon, <1>3, <1>5
  <2>2. Locals(y)' /\ Runner(y)' /\ Theft(y)'
    BY Zenon, <1>1, <2>1, QInvIs, LocalsFrame, RunnerFrame, TakenTheft
  <2>3. CASE y # u
    <3>1. runqhead'[y] = runqhead[y] /\ Size(y)' = Size(y)
      BY Zenon, <2>3, TakenIs
    <3>2. pc[y] \in {"write", "publish"} => Size(y)' < Capacity
      BY Zenon, <3>1, QInvIs DEF Owned
    <3>3. Ring(y)'
      BY Zenon, <1>1, <2>1, <3>1, QInvIs, RingFrame
    <3>4. Owned(y)' /\ Fetch(y)'
      BY Zenon, <1>1, <2>1, <3>1, <3>2, QInvIs, OwnedFrame, FetchFrame
    <3> QED BY Zenon, <2>2, <3>3, <3>4 DEF VpuInv
  <2>4. CASE y = u
    <3>1. Size(y)' = Size(y) - n /\ Size(y) \in Int /\ n \in Int /\ n > 0 /\ n <= Size(y) /\ Capacity \in Int
      <4>1. Size(y)' = Size(y) - n /\ Size(y) \in Counters /\ n \in 1..Size(y) /\ shape \in Shapes
        BY Zenon, <2>4, TakenIs, VpuTypes
      <4> QED BY <4>1, CapacityIs DEF Counters
    <3>2. pc[y] \in {"write", "publish"} => Size(y)' < Capacity
      <4>1. pc[y] \in {"write", "publish"} => Size(y) < Capacity
        BY Zenon, QInvIs DEF Owned
      <4> QED BY <3>1, <4>1
    <3>3. pc'[y] \notin Emptied
      <4>1. Size(y) # 0
        BY <3>1
      <4> QED BY Zenon, <2>1, <4>1, QInvIs DEF Ring
    <3>4. Ring(y)' /\ Fetch(y)'
      BY Zenon, <2>1, <2>4, <3>3, TakenRing, TakenFetch
    <3>5. Owned(y)'
      BY Zenon, <1>1, <2>1, <3>2, QInvIs, OwnedFrame
    <3> QED BY Zenon, <2>2, <3>4, <3>5 DEF VpuInv
  <2> QED BY Zenon, <2>3, <2>4
<1>6. \A x, y \in Vpus : current'[x] = current'[y] /\ current'[x] # NULL => x = y
  BY Zenon, <1>1, QInvIs
<1>7. VpuInv(v)'
  BY Zenon DEF VpuInv
<1> QED BY Zenon, <1>4, <1>5, <1>6, <1>7 DEF QInv

\* Which coroutines are left in the rings.
LEMMA TakenPlaces ==
  ASSUME QInv, NEW u \in Vpus, NEW n \in 1..Size(u), Taken(u, n), NEW t
  PROVE  InRings(t)' = {x \in InRings(t) : ~(x[1] = u /\ Distance(x[2], runqhead[u]) < n)}
<1>1. runq' = runq /\ \A c : Slot(c)' = Slot(c)
  BY Zenon DEF Taken, Slot, Capacity
<1>2. ASSUME NEW x \in Vpus \X Counters
      PROVE  x \in InRings(t)' <=> x \in InRings(t) /\ ~(x[1] = u /\ Distance(x[2], runqhead[u]) < n)
  <2>1. x[1] \in Vpus /\ x[2] \in Counters
    OBVIOUS
  <2>2. x \in InRings(t)' <=> Distance(x[2], runqhead'[x[1]]) < Size(x[1])' /\ runq[x[1]][Slot(x[2])] = t
    BY Zenon, <1>1 DEF InRings, Counters
  <2>3. x \in InRings(t) <=> Distance(x[2], runqhead[x[1]]) < Size(x[1]) /\ runq[x[1]][Slot(x[2])] = t
    BY Zenon DEF InRings, Counters
  <2>4. CASE x[1] # u
    BY Zenon, <2>1, <2>2, <2>3, <2>4, TakenIs
  <2>5. CASE x[1] = u
    <3>1. n <= Distance(x[2], runqhead[u]) <=> ~(Distance(x[2], runqhead[u]) < n)
      <4>1. Distance(x[2], runqhead[u]) \in Counters /\ Size(u) \in Counters
        BY Zenon, <2>1, DistanceIs, VpuTypes
      <4> QED BY <4>1, RunQueueAssumption DEF Counters
    <3> QED BY Zenon, <2>1, <2>2, <2>3, <2>5, <3>1, TakenIs
  <2> QED BY Zenon, <2>4, <2>5
<1>3. InRings(t)' \subseteq Vpus \X Counters /\ InRings(t) \subseteq Vpus \X Counters
  BY Zenon DEF InRings, Counters
<1> QED BY Zenon, <1>2, <1>3

\* A slot holds a coroutine or nothing.
LEMMA SlotHolds ==
  ASSUME QInv, NEW u \in Vpus, NEW c \in Int
  PROVE  runq[u][Slot(c)] \in Tasks \cup {NULL}
<1>1. Slot(c) \in 0..(Capacity - 1)
  BY Zenon, VpuTypes, SlotIn
<1>2. runq \in [Vpus -> [0..(Capacity - 1) -> Tasks \cup {NULL}]]
  BY Zenon, QInvIs DEF TypeOK
<1> QED BY Zenon, <1>1, <1>2

\* __runqget takes the coroutine at its head, unless a thief was faster.
LEMMA GetCASQInv ==
  ASSUME QInv, \A x \in Vpus : Behind(x), NEW v \in Vpus, GetCAS(v)
  PROVE  QInv'
<1>1. pc[v] = "getCAS" /\ UNCHANGED <<shape, runqtail, runq, global, coroutines>>
  BY Zenon DEF GetCAS, Move
<1>2. /\ "getCAS" \in Searching /\ "get" \in Searching /\ "get" \notin Emptied /\ "get" \notin Stealing
      /\ "getCAS" \notin Holding
  BY DEF Searching, Emptied, Stealing, Holding
<1>3. /\ loc[v] \in LocalsType /\ loc[v].task = NULL /\ loc[v].candidate = NULL
      /\ loc[v].ret \in {"poll", "global"} /\ loc[v].head # runqtail[v]
      /\ glock # v /\ current[v] = NULL
  BY Zenon, <1>1, <1>2, SearchIs
<1>4. CASE runqhead[v] # loc[v].head
  <2>1. /\ pc' = [pc EXCEPT ![v] = "get"] /\ loc' = [loc EXCEPT ![v] = loc[v]]
        /\ UNCHANGED <<shape, ring, global, coroutines>>
    BY Zenon, <1>1, <1>4 DEF GetCAS, Move, ring
  <2> QED BY Zenon, <1>1, <1>2, <1>3, <2>1, SearchStep
<1>5. CASE runqhead[v] = loc[v].head
  <2> DEFINE h == runqhead[v]
             c == runq[v][Slot(h)]
             l == [NoLocals EXCEPT !.candidate = c]
  <2>1. pc' = [pc EXCEPT ![v] = "found"] /\ loc' = [loc EXCEPT ![v] = l] /\ Taken(v, 1)
    BY Zenon, <1>1, <1>5 DEF GetCAS, Move, Taken
  <2>2. h \in Counters /\ runqtail[v] \in Counters /\ Size(v) \in Counters
    BY Zenon, VpuTypes
  <2>3. Distance(h, h) = 0 /\ Size(v) # 0
    BY Zenon, <1>3, <1>5, <2>2, DistanceZero DEF Size
  <2>4. 1 \in 1..Size(v) /\ 0 < Size(v)
    BY <2>2, <2>3 DEF Counters
  <2>5. c \in Tasks
    <3>1. c # NULL
      BY Zenon, <2>2, <2>3, <2>4, QInvIs DEF Ring, Counters
    <3>2. h \in Int
      BY <2>2 DEF Counters
    <3> QED BY Zenon, <3>1, <3>2, SlotHolds
  <2> HIDE DEF c
  <2>6. l \in LocalsType /\ l.task = NULL /\ l.candidate = c
    BY <2>5, NoLocalsIs DEF LocalsType
  <2> HIDE DEF l
  <2>7. /\ "found" \in Locations /\ "found" \notin Emptied /\ "found" \notin Putting /\ "found" \notin Holding
        /\ "found" \notin Stealing
    BY DEF Locations, Emptied, Putting, Holding, Stealing
  <2>8. /\ pc'[v] = "found" /\ loc'[v] = l
        /\ \A y \in Vpus : y # v => pc'[y] = pc[y] /\ loc'[y] = loc[y]
    BY Zenon, <2>1, QInvIs DEF TypeOK
  <2>9. ~Fetching(v)' /\ ~Running(v)'
    BY Zenon, <2>7, <2>8 DEF Fetching, Running
  <2>10. Ring(v)'
    BY Zenon, <2>1, <2>4, <2>7, <2>8, TakenRing
  <2>11. Locals(v)'
    BY Zenon, <2>5, <2>6, <2>7, <2>8, VpuTypes DEF Locals
  <2>12. Owned(v)' /\ Theft(v)'
    BY Zenon, <2>7, <2>8 DEF Owned, Theft, Stealing
  <2>13. Fetch(v)' /\ Runner(v)'
    BY Zenon, <1>1, <1>3, <2>9 DEF Fetch, Runner, global, coroutines
  <2>14. QueuedExactlyOnce'
    <3>1. ASSUME NEW t \in Tasks
          PROVE  (At(t) => At(t)') /\ (Nowhere(t) => Nowhere(t)')
      <4>1. InRings(t)' = {x \in InRings(t) : ~(x[1] = v /\ Distance(x[2], h) < 1)}
        BY Zenon, <2>1, <2>4, TakenPlaces
      <4>2. \A x \in InRings(t) : x[1] = v /\ Distance(x[2], h) < 1 <=> x = <<v, h>>
        <5>1. ASSUME NEW x \in InRings(t)
              PROVE  x[1] = v /\ Distance(x[2], h) < 1 <=> x = <<v, h>>
          <6>1. x \in Vpus \X Counters
            BY Zenon DEF InRings, Counters
          <6>2. x[2] \in Counters /\ x = <<x[1], x[2]>>
            BY <6>1
          <6>3. Distance(x[2], h) = 0 <=> x[2] = h
            BY Zenon, <2>2, <6>2, DistanceZero
          <6>4. Distance(x[2], h) < 1 <=> Distance(x[2], h) = 0
            <7>1. Distance(x[2], h) \in Counters
              BY Zenon, <2>2, <6>2, DistanceIs
            <7> QED BY <7>1 DEF Counters
          <6> QED BY <6>2, <6>3, <6>4
        <5> QED BY Zenon, <5>1
      <4>3. InRings(t)' = InRings(t) \ {<<v, h>>}
        BY Zenon, <4>1, <4>2
      <4>4. <<v, h>> \in InRings(t) <=> t = c
        <5>1. <<v, h>> \in Vpus \X (0..(Modulus - 1)) /\ <<v, h>>[1] = v /\ <<v, h>>[2] = h
          BY <2>2 DEF Counters
        <5> QED BY Zenon, <2>3, <2>4, <5>1 DEF InRings, c
      <4>5. InGlobal(t)' = InGlobal(t)
        BY Zenon, <1>1 DEF InGlobal, global
      <4>6. AsTask(t)' = AsTask(t)
        BY Zenon, <1>3, <2>6, <2>8 DEF AsTask
      <4>7. AsCandidate(t)' = IF t = c THEN AsCandidate(t) \cup {v} ELSE AsCandidate(t)
        BY Zenon, <1>3, <2>6, <2>8, VpuTypes DEF AsCandidate
      <4>8. InTemps(t)' = InTemps(t)
        <5>1. \A x \in Vpus \X (1..Capacity) : x[1] \in Vpus
          OBVIOUS
        <5>2. \A y \in Vpus : (pc[y] \in Holding <=> pc'[y] \in Holding)
                              /\ (pc[y] \in Holding => loc'[y] = loc[y])
          BY Zenon, <1>1, <1>2, <2>7, <2>8
        <5> QED BY Zenon, <1>1, <5>1, <5>2 DEF InTemps, Capacity
      <4> QED BY Zenon, <4>3, <4>4, <4>5, <4>6, <4>7, <4>8 DEF At, Nowhere, OneOf
    <3> QED BY Zenon, <1>1, <3>1, QInvIs, OnceKept DEF coroutines
  <2> QED BY Zenon, <1>1, <2>1, <2>4, <2>6, <2>7, <2>10, <2>11, <2>12, <2>13, <2>14, HeadStep
<1> QED BY Zenon, <1>4, <1>5

\* The i-th coroutine from the head of the ring of u.
Nth(u, i) == runq[u][Slot(Plus(runqhead[u], i - 1))]

\* The counters of the first coroutines of a ring.
LEMMA NthArith ==
  ASSUME NEW h \in Counters, NEW n \in 0..Modulus
  PROVE  /\ \A i \in 1..n : Plus(h, i - 1) \in Counters /\ Distance(Plus(h, i - 1), h) = i - 1
         /\ \A c \in Counters : Distance(c, h) < n =>
              Distance(c, h) + 1 \in 1..n /\ c = Plus(h, (Distance(c, h) + 1) - 1)
<1>0. Modulus \in Nat /\ h \in Int /\ 0 <= h /\ h < Modulus
  BY RunQueueAssumption DEF Counters
<1>1. ASSUME NEW i \in 1..n
      PROVE  Plus(h, i - 1) \in Counters /\ Distance(Plus(h, i - 1), h) = i - 1
  <2> DEFINE g == Plus(h, i - 1)
  <2>1. i - 1 \in 0..Modulus /\ i \in Int /\ 1 <= i /\ i <= Modulus
    BY <1>0
  <2>2. g \in Counters /\ g = IF h + (i - 1) < Modulus THEN h + (i - 1) ELSE h + (i - 1) - Modulus
    BY Zenon, <2>1, PlusIs
  <2> HIDE DEF g
  <2>3. Distance(g, h) = IF h <= g THEN g - h ELSE g - h + Modulus
    BY Zenon, <2>2, DistanceIs
  <2>4. Distance(g, h) = i - 1
    BY <1>0, <2>1, <2>2, <2>3
  <2> QED BY Zenon, <2>2, <2>4 DEF g
<1>2. ASSUME NEW c \in Counters, Distance(c, h) < n
      PROVE  Distance(c, h) + 1 \in 1..n /\ c = Plus(h, (Distance(c, h) + 1) - 1)
  <2> DEFINE d == Distance(c, h)
  <2>1. d \in Counters /\ d = IF h <= c THEN c - h ELSE c - h + Modulus
    BY Zenon, DistanceIs
  <2>2. c \in Int /\ 0 <= c /\ c < Modulus
    BY <1>0 DEF Counters
  <2>3. d < n
    BY Zenon, <1>2
  <2> HIDE DEF d
  <2>4. d \in Int /\ 0 <= d /\ (d + 1) - 1 = d /\ d \in 0..Modulus
    BY <1>0, <2>1 DEF Counters
  <2>5. Plus(h, d) = IF h + d < Modulus THEN h + d ELSE h + d - Modulus
    BY Zenon, <2>4, PlusIs
  <2>6. c = Plus(h, d)
    BY <1>0, <2>1, <2>2, <2>4, <2>5
  <2>7. d + 1 \in 1..n
    BY <2>3, <2>4
  <2> QED BY Zenon, <2>4, <2>6, <2>7 DEF d
<1> QED BY Zenon, <1>1, <1>2

\* A coroutine is taken from its ring once, or not at all.
LEMMA TakenOne ==
  ASSUME QInv, NEW u \in Vpus, NEW n \in 1..Size(u), Taken(u, n), NEW t \in Tasks
  PROVE  \/ (\A i \in 1..n : Nth(u, i) # t) /\ InRings(t)' = InRings(t)
         \/ /\ \E i \in 1..n : Nth(u, i) = t /\ \A j \in 1..n : Nth(u, j) = t => j = i
            /\ InRings(t)' = {} /\ InGlobal(t) = {} /\ AsTask(t) = {} /\ AsCandidate(t) = {}
            /\ InTemps(t) = {} /\ At(t) /\ ~Nowhere(t)
<1> DEFINE h == runqhead[u]
           Ci(i) == <<u, Plus(h, i - 1)>>
<1>1. h \in Counters /\ Size(u) \in Counters
  BY Zenon, VpuTypes
<1>2. n \in 0..Modulus /\ n \in Nat /\ Size(u) \in Nat /\ n <= Size(u)
  BY <1>1, RunQueueAssumption DEF Counters
<1>3. InRings(t)' = {x \in InRings(t) : ~(x[1] = u /\ Distance(x[2], h) < n)}
  BY Zenon, TakenPlaces
<1>4. ASSUME NEW i \in 1..n
      PROVE  Nth(u, i) = t <=> Ci(i) \in InRings(t)
  <2>1. Plus(h, i - 1) \in Counters /\ Distance(Plus(h, i - 1), h) = i - 1
    BY Zenon, <1>1, <1>2, NthArith
  <2>2. i - 1 < Size(u)
    BY <1>2
  <2>3. Ci(i) \in Vpus \X (0..(Modulus - 1)) /\ Ci(i)[1] = u /\ Ci(i)[2] = Plus(h, i - 1)
    BY <2>1 DEF Counters
  <2> QED BY Zenon, <2>1, <2>2, <2>3 DEF Nth, InRings
<1>5. ASSUME NEW x \in InRings(t), x[1] = u, Distance(x[2], h) < n
      PROVE  \E i \in 1..n : x = Ci(i)
  <2>1. x \in Vpus \X Counters
    BY Zenon DEF InRings, Counters
  <2>2. x[2] \in Counters /\ x = <<x[1], x[2]>>
    BY <2>1
  <2>3. Distance(x[2], h) + 1 \in 1..n /\ x[2] = Plus(h, (Distance(x[2], h) + 1) - 1)
    BY Zenon, <1>1, <1>2, <1>5, <2>2, NthArith
  <2> DEFINE d == Distance(x[2], h) + 1
             c == Plus(h, d - 1)
  <2>4. d \in 1..n /\ x[2] = c
    BY Zenon, <2>3
  <2> HIDE DEF d, c
  <2>5. x = <<u, c>>
    BY <1>5, <2>2, <2>4
  <2> QED BY Zenon, <2>4, <2>5 DEF c
<1>6. ASSUME NEW i \in 1..n, NEW j \in 1..n, Ci(i) = Ci(j)
      PROVE  i = j
  <2>1. Plus(h, i - 1) = Plus(h, j - 1)
    BY <1>6
  <2>2. Distance(Plus(h, i - 1), h) = i - 1 /\ Distance(Plus(h, j - 1), h) = j - 1
    BY Zenon, <1>1, <1>2, NthArith
  <2>3. i - 1 = j - 1
    BY Zenon, <2>1, <2>2
  <2> QED BY <2>3
<1>7. CASE \A i \in 1..n : Nth(u, i) # t
  <2>1. InRings(t)' = InRings(t)
    BY Zenon, <1>3, <1>4, <1>5, <1>7
  <2> QED BY Zenon, <1>7, <2>1
<1>8. ASSUME NEW i \in 1..n, Nth(u, i) = t
      PROVE  /\ \E j \in 1..n : Nth(u, j) = t /\ \A k \in 1..n : Nth(u, k) = t => k = j
             /\ InRings(t)' = {} /\ InGlobal(t) = {} /\ AsTask(t) = {} /\ AsCandidate(t) = {}
             /\ InTemps(t) = {} /\ At(t) /\ ~Nowhere(t)
  <2>1. Ci(i) \in InRings(t)
    BY Zenon, <1>4, <1>8
  <2> HIDE DEF Ci
  <2>2. ~Nowhere(t) /\ At(t)
    BY Zenon, <2>1, QInvIs, OnceIs DEF Nowhere
  <2>3. /\ InRings(t) = {Ci(i)} /\ InGlobal(t) = {} /\ AsTask(t) = {} /\ AsCandidate(t) = {}
        /\ InTemps(t) = {}
    BY Zenon, <2>1, <2>2 DEF At, OneOf
  <2>4. \A k \in 1..n : Nth(u, k) = t => k = i
    BY Zenon, <1>4, <1>6, <2>3
  <2>5. Ci(i)[1] = u /\ Distance(Ci(i)[2], h) < n
    <3>1. Ci(i)[1] = u /\ Ci(i)[2] = Plus(h, i - 1)
      BY DEF Ci
    <3>2. Distance(Plus(h, i - 1), h) = i - 1
      BY Zenon, <1>1, <1>2, NthArith
    <3>3. i - 1 < n
      BY <1>2
    <3> QED BY Zenon, <3>1, <3>2, <3>3
  <2>6. InRings(t)' = {}
    BY Zenon, <1>3, <2>3, <2>5
  <2> QED BY Zenon, <1>8, <2>2, <2>3, <2>4, <2>6
<1> QED BY Zenon, <1>7, <1>8

\* What the VPUs hold in temp, when none of them begins or ends to.
LEMMA TempsKept ==
  ASSUME shape' = shape, NEW t,
         \A y \in Vpus : /\ pc[y] \in Holding <=> pc'[y] \in Holding
                         /\ pc[y] \in Holding => loc'[y] = loc[y]
  PROVE  InTemps(t)' = InTemps(t)
<1>1. \A x \in Vpus \X (1..Capacity) : x[1] \in Vpus
  OBVIOUS
<1> QED BY Zenon, <1>1 DEF InTemps, Capacity

\* What the VPU v holds in temp, when it begins to.
LEMMA TempsTaken ==
  ASSUME shape' = shape, NEW t, NEW v \in Vpus, pc[v] \notin Holding, pc'[v] \in Holding,
         \A y \in Vpus : y # v => pc'[y] = pc[y] /\ loc'[y] = loc[y],
         Capacity \in Nat, Len(loc'[v].temp) \in 0..Capacity
  PROVE  InTemps(t)' = InTemps(t) \cup {<<v,
                                          i>> : i \in {j \in 1..Len(loc'[v].temp) : loc'[v].temp[j] = t}}
<1> DEFINE N == {j \in 1..Len(loc'[v].temp) : loc'[v].temp[j] = t}
           A == {<<v, i>> : i \in N}
<1>1. \A x \in Vpus \X (1..Capacity) : x[1] \in Vpus /\ x[2] \in 1..Capacity /\ x = <<x[1], x[2]>>
  OBVIOUS
<1>2. \A i \in 1..Capacity : <<v, i>> \in Vpus \X (1..Capacity) /\ <<v, i>>[1] = v /\ <<v, i>>[2] = i
  OBVIOUS
<1>3. \A i \in 1..Len(loc'[v].temp) : i \in 1..Capacity /\ i <= Len(loc'[v].temp)
  OBVIOUS
<1>4. \A i \in 1..Capacity : i <= Len(loc'[v].temp) => i \in 1..Len(loc'[v].temp)
  OBVIOUS
<1>5. Capacity' = Capacity
  BY Zenon DEF Capacity
<1>6. ASSUME NEW x \in InTemps(t)'
      PROVE  x \in InTemps(t) \cup A
  <2>1. x \in Vpus \X (1..Capacity)
    BY Zenon, <1>5 DEF InTemps
  <2>2. CASE x[1] # v
    BY Zenon, <1>1, <1>5, <2>1, <2>2 DEF InTemps
  <2>3. CASE x[1] = v
    <3>1. x = <<v, x[2]>> /\ x[2] \in N
      BY Zenon, <1>1, <1>4, <1>5, <2>1, <2>3 DEF InTemps
    <3> QED BY Zenon, <3>1
  <2> QED BY Zenon, <2>2, <2>3
<1>7. ASSUME NEW x \in InTemps(t)
      PROVE  x \in InTemps(t)'
  BY Zenon, <1>1, <1>5 DEF InTemps
<1>8. ASSUME NEW i \in N
      PROVE  <<v, i>> \in InTemps(t)'
  BY Zenon, <1>2, <1>3, <1>5 DEF InTemps
<1> QED BY Zenon, <1>6, <1>7, <1>8

\* There is a coroutine at every place of a ring.
LEMMA NthTask ==
  ASSUME QInv, NEW u \in Vpus, NEW i \in 1..Size(u)
  PROVE  Nth(u, i) \in Tasks
<1>1. runqhead[u] \in Counters /\ Size(u) \in Counters /\ shape \in Shapes
  BY Zenon, VpuTypes
<1>2. Size(u) \in 0..Modulus /\ i - 1 < Size(u)
  BY <1>1, RunQueueAssumption DEF Counters
<1>3. /\ Plus(runqhead[u], i - 1) \in Counters
      /\ Distance(Plus(runqhead[u], i - 1), runqhead[u]) = i - 1
  BY Zenon, <1>1, <1>2, NthArith
<1>4. Nth(u, i) # NULL
  BY Zenon, <1>2, <1>3, QInvIs DEF Nth, Ring, Counters
<1>5. Plus(runqhead[u], i - 1) \in Int
  BY <1>3 DEF Counters
<1> QED BY Zenon, <1>4, <1>5, SlotHolds DEF Nth

\* __runqputslow takes half of its full ring, unless a thief was faster.
LEMMA PutSlowQInv ==
  ASSUME QInv, \A x \in Vpus : Behind(x), NEW v \in Vpus, PutSlow(v)
  PROVE  QInv'
<1>1. pc[v] = "slow" /\ UNCHANGED <<shape, runqtail, runq, global, coroutines>>
  BY Zenon DEF PutSlow, Move
<1>2. /\ loc[v] \in LocalsType /\ loc[v].task \in Tasks /\ loc[v].ret \in {"run", "poll", "fetch"}
      /\ Fetching(v) <=> loc[v].ret = "fetch"
      /\ Running(v) <=> loc[v].ret = "run"
      /\ loc[v].candidate # NULL <=> Fetching(v)
      /\ pc[v] \notin Holding
  BY Zenon, <1>1, PutIs
<1>3. ~Fetching(v) /\ glock # v /\ Distance(runqtail[v], loc[v].head) = Capacity
  BY Zenon, <1>1, QInvIs DEF Fetch, Owned
<1>4. CASE runqhead[v] # loc[v].head
  <2>1. /\ pc' = [pc EXCEPT ![v] = "put"] /\ loc' = [loc EXCEPT ![v] = loc[v]]
        /\ UNCHANGED <<shape, ring, global, coroutines>>
    BY Zenon, <1>1, <1>4 DEF PutSlow, Move, ring
  <2> QED BY Zenon, <1>1, <1>2, <2>1, PutStep
<1>5. CASE runqhead[v] = loc[v].head
  <2> DEFINE h == runqhead[v]
             n == Capacity \div 2
             s == [i \in 1..(n + 1) |-> IF i <= n THEN runq[v][Slot(h + i - 1)] ELSE loc[v].task]
             l == [loc[v] EXCEPT !.head = 0, !.task = NULL, !.temp = s]
  <2>1. /\ pc' = [pc EXCEPT ![v] = "slowAdd"] /\ loc' = [loc EXCEPT ![v] = l] /\ Taken(v, n)
    BY Zenon, <1>1, <1>3, <1>5 DEF PutSlow, Move, Taken
  <2>2. h \in Counters /\ shape \in Shapes /\ Size(v) = Capacity
    BY Zenon, <1>3, <1>5, VpuTypes DEF Size
  <2>3. /\ Capacity \in Nat /\ n \in Nat /\ n >= 1 /\ n + 1 <= Capacity /\ n \in 1..Size(v)
        /\ n + 1 \in 0..Capacity /\ n \in 0..Modulus /\ Modulus \in Nat /\ n + 1 \in Nat
    <3>1. Capacity \in Nat /\ Capacity > 0 /\ Capacity % 2 = 0 /\ Modulus >= 2 * Capacity /\ Modulus \in Nat
      BY Zenon, <2>2, CapacityIs
    <3> QED BY <2>2, <3>1
  <2> HIDE DEF n
  <2>4. \A i \in 1..n : i \in 1..Size(v) /\ i - 1 \in 0..Modulus /\ i <= n /\ i \in 1..(n + 1)
    BY <2>2, <2>3
  <2>5. \A i \in 1..n : Nth(v, i) \in Tasks
    BY Zenon, <2>4, NthTask
  <2>6. /\ \A i \in 1..n : s[i] = Nth(v, i)
        /\ s[n + 1] = loc[v].task /\ n + 1 \in 1..(n + 1)
        /\ \A i \in 1..(n + 1) : i \in 1..n \/ i = n + 1
        /\ DOMAIN s = 1..(n + 1)
    <3>1. ASSUME NEW i \in 1..n
          PROVE  s[i] = Nth(v, i)
      <4>1. h + i - 1 = h + (i - 1)
        BY <2>2 DEF Counters
      <4>2. Slot(h + (i - 1)) = Slot(Plus(h, i - 1))
        BY Zenon, <2>2, <2>4, SlotPlus
      <4>3. s[i] = runq[v][Slot(h + i - 1)]
        BY Zenon, <2>4
      <4> QED BY Zenon, <4>1, <4>2, <4>3 DEF Nth
    <3>2. s[n + 1] = loc[v].task /\ n + 1 \in 1..(n + 1) /\ \A i \in 1..(n + 1) : i \in 1..n \/ i = n + 1
      BY <2>3
    <3>3. DOMAIN s = 1..(n + 1)
      BY Zenon
    <3> QED BY Zenon, <3>1, <3>2, <3>3
  <2>7. s \in [1..(n + 1) -> Tasks]
    <3>1. \A i \in 1..(n + 1) : s[i] \in Tasks
      BY Zenon, <1>2, <2>5, <2>6
    <3> QED BY Zenon, <3>1
  <2> HIDE DEF s
  <2>8. s \in Seq(Tasks \cup {NULL}) /\ Len(s) = n + 1 /\ \A i \in 1..Len(s) : s[i] # NULL
    BY <2>3, <2>7, RunQueueAssumption
  <2>9. /\ l \in LocalsType /\ l.task = NULL /\ l.candidate = loc[v].candidate /\ l.ret = loc[v].ret
        /\ l.temp = s
    <3>1. 0 \in 0..(Modulus - 1) /\ s \in Seq(Tasks \cup {NULL})
      BY <2>2, <2>3, <2>8 DEF Counters
    <3> QED BY Zenon, <1>2, <3>1 DEF LocalsType
  <2> HIDE DEF l
  <2>10. /\ "slowAdd" \in Locations /\ "slowAdd" \notin Emptied
         /\ "slowAdd" \in Putting /\ "slowAdd" \in Holding
         /\ "slowAdd" \notin Stealing /\ "slow" \in Putting /\ "slow" # "run" /\ "slow" # "fetch"
    BY DEF Locations, Emptied, Putting, Holding, Stealing
  <2>11. /\ pc'[v] = "slowAdd" /\ loc'[v] = l
         /\ \A y \in Vpus : y # v => pc'[y] = pc[y] /\ loc'[y] = loc[y]
    BY Zenon, <2>1, <2>9, <2>10, QInvIs DEF TypeOK
  <2>12. ~Fetching(v)' /\ (Running(v)' <=> Running(v))
    BY Zenon, <1>1, <1>2, <1>3, <2>9, <2>10, <2>11 DEF Fetching, Running
  <2>13. /\ shape' = shape /\ Capacity' = Capacity /\ glock' = glock
         /\ gq' = gq /\ current' = current /\ status' = status
    BY Zenon, <1>1 DEF Capacity, global, coroutines
  <2>14. Ring(v)'
    BY Zenon, <2>1, <2>3, <2>10, <2>11, TakenRing
  <2>15. Locals(v)'
    <3>1. l.ret # "global" /\ l.candidate = NULL /\ Len(s) <= Capacity
      BY <1>2, <1>3, <2>3, <2>8, <2>9
    <3> QED BY Zenon, <2>8, <2>9, <2>10, <2>11, <2>13, <3>1 DEF Locals
  <2>16. Owned(v)' /\ Theft(v)'
    BY Zenon, <2>10, <2>11 DEF Owned, Theft, Stealing
  <2>17. Fetch(v)' /\ Runner(v)'
    BY Zenon, <1>3, <2>12, <2>13, QInvIs DEF Fetch, Runner
  <2>18. ASSUME NEW t \in Tasks
         PROVE  (At(t) => At(t)') /\ (Nowhere(t) => Nowhere(t)')
    <3>1. InGlobal(t)' = InGlobal(t) /\ AsCandidate(t)' = AsCandidate(t)
      BY Zenon, <2>9, <2>11, <2>13 DEF InGlobal, AsCandidate
    <3>2. AsTask(t)' = AsTask(t) \ {v} /\ (v \in AsTask(t) <=> t = loc[v].task)
      BY Zenon, <2>9, <2>11, VpuTypes DEF AsTask
    <3>3. InTemps(t)' = InTemps(t) \cup {<<v,
                                           i>> : i \in {j \in 1..Len(loc'[v].temp) : loc'[v].temp[j] = t}}
      <4>1. /\ pc[v] \notin Holding /\ pc'[v] \in Holding /\ Capacity \in Nat
            /\ Len(loc'[v].temp) \in 0..Capacity /\ shape' = shape
        BY Zenon, <1>2, <2>3, <2>8, <2>9, <2>10, <2>11, <2>13
      <4>2. \A y \in Vpus : y # v => pc'[y] = pc[y] /\ loc'[y] = loc[y]
        BY Zenon, <2>11
      <4> QED BY SMT, <4>1, <4>2, TempsTaken
    <3> DEFINE N == {j \in 1..(n + 1) : s[j] = t}
    <3>4. InTemps(t)' = InTemps(t) \cup {<<v, i>> : i \in N}
      BY Zenon, <2>8, <2>9, <2>11, <3>3
    <3>5. CASE (\A i \in 1..n : Nth(v, i) # t) /\ InRings(t)' = InRings(t)
      <4>1. N = IF t = loc[v].task THEN {n + 1} ELSE {}
        BY Zenon, <2>6, <3>5
      <4>2. CASE t = loc[v].task
        <5>1. InTemps(t)' = InTemps(t) \cup {<<v, n + 1>>}
          BY Zenon, <3>4, <4>1, <4>2
        <5> QED BY Zenon, <3>1, <3>2, <3>5, <4>2, <5>1 DEF At, Nowhere, OneOf
      <4>3. CASE t # loc[v].task
        <5>1. InTemps(t)' = InTemps(t) /\ AsTask(t)' = AsTask(t)
          BY Zenon, <3>2, <3>4, <4>1, <4>3
        <5> QED BY Zenon, <3>1, <3>5, <5>1 DEF At, Nowhere
      <4> QED BY Zenon, <4>2, <4>3
    <3>6. CASE /\ \E i \in 1..n : Nth(v, i) = t /\ \A j \in 1..n : Nth(v, j) = t => j = i
               /\ InRings(t)' = {} /\ InGlobal(t) = {} /\ AsTask(t) = {} /\ AsCandidate(t) = {}
               /\ InTemps(t) = {} /\ At(t) /\ ~Nowhere(t)
      <4>1. PICK i \in 1..n : Nth(v, i) = t /\ \A j \in 1..n : Nth(v, j) = t => j = i
        BY Zenon, <3>6
      <4>2. t # loc[v].task
        BY Zenon, <3>2, <3>6
      <4>3. N = {i}
        BY Zenon, <2>4, <2>6, <4>1, <4>2
      <4>4. InTemps(t)' = {<<v, i>>}
        BY Zenon, <3>4, <3>6, <4>3
      <4> QED BY Zenon, <3>1, <3>2, <3>6, <4>4 DEF At, OneOf
    <3> QED BY Zenon, <2>1, <2>3, <3>5, <3>6, TakenOne
  <2>19. QueuedExactlyOnce'
    BY Zenon, <2>13, <2>18, QInvIs, OnceKept
  <2> QED BY Zenon, <1>1, <2>1, <2>3, <2>9, <2>10, <2>14, <2>15, <2>16, <2>17, <2>19, HeadStep
<1> QED BY Zenon, <1>4, <1>5

\* A thief takes what it has copied, unless the head has moved since it was read.
LEMMA GrabCASQInv ==
  ASSUME QInv, \A x \in Vpus : Behind(x), NEW v \in Vpus, GrabCAS(v)
  PROVE  QInv'
<1>1. pc[v] = "grabCAS" /\ UNCHANGED <<shape, runqtail, runq, global, coroutines>>
  BY Zenon DEF GrabCAS, Move
<1>2. /\ "grabCAS" \in Searching /\ "grab" \in Searching /\ "grabCAS" \in Emptied
      /\ "grabCAS" \notin Holding /\ "grab" \notin {"copy", "grabCAS"}
  BY DEF Searching, Emptied, Holding
<1>3. /\ loc[v] \in LocalsType /\ loc[v].task = NULL /\ loc[v].candidate = NULL
      /\ glock # v /\ current[v] = NULL /\ Size(v) = 0
  BY Zenon, <1>1, <1>2, SearchIs
<1>0. Theft(v) /\ pc[v] \in {"grab", "grabTail", "copy", "grabCAS"} /\ pc[v] \in {"copy", "grabCAS"}
  BY Zenon, <1>1, QInvIs
<1>4. PICK u \in Vpus : u = loc[v].victim /\ u # v
  BY Zenon, <1>0 DEF Theft
<1>5. CASE runqhead[u] # loc[v].head
  <2> DEFINE l == [loc[v] EXCEPT !.temp = <<>>]
  <2>1. /\ pc' = [pc EXCEPT ![v] = "grab"] /\ loc' = [loc EXCEPT ![v] = l]
        /\ UNCHANGED <<shape, ring, global, coroutines>>
    BY Zenon, <1>1, <1>4, <1>5 DEF GrabCAS, Move, ring
  <2>2. l \in LocalsType /\ l.task = NULL /\ l.candidate = NULL /\ l.victim = u
    <3>1. <<>> \in Seq(Tasks \cup {NULL})
      OBVIOUS
    <3> QED BY Zenon, <1>3, <1>4, <3>1 DEF LocalsType
  <2> HIDE DEF l
  <2>3. pc'[v] = "grab" /\ loc'[v] = l
    BY Zenon, <2>1, QInvIs DEF TypeOK
  <2>4. Theft(v)'
    BY Zenon, <1>2, <1>4, <2>2, <2>3 DEF Theft
  <2>5. "grab" \notin {"get", "getCAS"} /\ "grab" \notin {"global", "trylock"} /\ "grab" # "getCAS"
    BY Zenon
  <2> QED BY Zenon, <1>1, <1>2, <1>3, <2>1, <2>2, <2>4, <2>5, SearchStep
<1>6. CASE runqhead[u] = loc[v].head
  <2> DEFINE n == loc[v].n
             s == SubSeq(loc[v].temp, 1, n - 1)
             c == loc[v].temp[n]
             k == IF n = 1 THEN "found" ELSE "own"
             l == [NoLocals EXCEPT !.candidate = c, !.temp = s]
  <2>1. /\ pc' = [pc EXCEPT ![v] = k] /\ loc' = [loc EXCEPT ![v] = l] /\ Taken(u, n)
    BY Zenon, <1>1, <1>4, <1>6 DEF GrabCAS, Move, Taken
  <2>2. /\ Size(u) \in Counters /\ shape \in Shapes
        /\ n \in 1..(Capacity \div 2) /\ Len(loc[v].temp) = n /\ n <= Size(u)
        /\ \A i \in 1..Len(loc[v].temp) :
             loc[v].temp[i] = runq[u][Slot(Plus(loc[v].head, i - 1))]
    BY Zenon, <1>0, <1>1, <1>4, <1>6, VpuTypes DEF Theft
  <2>3. \A i \in 1..n : loc[v].temp[i] = Nth(u, i)
    BY Zenon, <1>6, <2>2 DEF Nth
  <2>4. /\ Capacity \in Nat /\ n \in Nat /\ n >= 1 /\ n < Capacity /\ n \in 1..Size(u) /\ n \in 1..n
        /\ \A i \in 1..n : i \in 1..Size(u) /\ (i \in 1..(n - 1) \/ i = n)
        /\ \A i \in 1..(n - 1) : i \in 1..n /\ i # n
    <3>1. Capacity \in Nat /\ Capacity > 0
      BY Zenon, <2>2, CapacityIs
    <3>2. n \in Nat /\ n >= 1 /\ n < Capacity
      BY <2>2, <3>1
    <3>3. Size(u) \in Nat
      BY <2>2 DEF Counters
    <3> QED BY <2>2, <3>1, <3>2, <3>3
  <2>5. \A i \in 1..n : Nth(u, i) \in Tasks
    BY Zenon, <2>4, NthTask
  <2>6. c = Nth(u, n) /\ c \in Tasks
    BY Zenon, <2>3, <2>4, <2>5
  <2>7. s \in Seq(Tasks \cup {NULL}) /\ Len(s) = n - 1 /\ \A i \in 1..(n - 1) : s[i] = loc[v].temp[i]
    <3> DEFINE q == loc[v].temp
    <3>1. q \in Seq(Tasks \cup {NULL}) /\ Len(q) = n
      BY <1>3, <2>2 DEF LocalsType
    <3> HIDE DEF q
    <3>2. /\ SubSeq(q, 1, n - 1) \in Seq(Tasks \cup {NULL}) /\ Len(SubSeq(q, 1, n - 1)) = n - 1
          /\ \A i \in 1..(n - 1) : SubSeq(q, 1, n - 1)[i] = q[i]
      BY <2>4, <3>1
    <3> QED BY Zenon, <3>2 DEF q
  <2>8. \A i \in 1..(n - 1) : s[i] = Nth(u, i) /\ s[i] \in Tasks
    BY Zenon, <2>3, <2>4, <2>5, <2>7
  <2> HIDE DEF n, s, c, k
  <2>9. l \in LocalsType /\ l.task = NULL /\ l.candidate = c /\ l.temp = s
    BY Zenon, <2>6, <2>7, NoLocalsIs DEF LocalsType, NoLocals
  <2> HIDE DEF l
  <2>10. /\ k \in {"found", "own"} /\ k \in Locations /\ k \notin Putting /\ k # "fetch" /\ k # "run"
         /\ k \notin Stealing /\ k \notin {"copy", "grabCAS"} /\ k \notin {"get", "getCAS"}
         /\ k \notin {"global", "trylock"} /\ k # "getCAS" /\ k \notin {"write", "publish"}
         /\ k # "publish" /\ k # "slow" /\ k # "ownTail"
         /\ (k \in Holding <=> n # 1) /\ k \in {"found", "own", "ownTail"}
    BY DEF k, Locations, Putting, Holding, Stealing
  <2>11. /\ pc'[v] = k /\ loc'[v] = l
         /\ \A y \in Vpus : y # v => pc'[y] = pc[y] /\ loc'[y] = loc[y]
    BY Zenon, <2>1, QInvIs DEF TypeOK
  <2>12. ~Fetching(v)' /\ ~Running(v)'
    BY Zenon, <2>10, <2>11 DEF Fetching, Running
  <2>13. /\ shape' = shape /\ Capacity' = Capacity /\ glock' = glock
         /\ gq' = gq /\ current' = current /\ status' = status
    BY Zenon, <1>1 DEF Capacity, global, coroutines
  <2>14. Ring(v)'
    <3>1. runqhead'[v] = runqhead[v]
      BY Zenon, <1>4, <2>1, <2>4, TakenIs
    <3> QED BY Zenon, <1>3, <2>1, <3>1, QInvIs, RingMove DEF Taken
  <2>15. Locals(v)'
    <3>1. Len(s) < Capacity /\ Len(s) <= Capacity
      BY <2>4, <2>7
    <3>2. \A i \in 1..Len(s) : s[i] # NULL
      BY Zenon, <2>7, <2>8, VpuTypes
    <3> QED BY Zenon, <2>6, <2>9, <2>10, <2>11, <2>13, <3>1, <3>2, VpuTypes DEF Locals
  <2>16. Owned(v)' /\ Theft(v)'
    BY Zenon, <2>10, <2>11 DEF Owned, Theft, Stealing
  <2>17. Fetch(v)' /\ Runner(v)'
    BY Zenon, <1>3, <2>12, <2>13 DEF Fetch, Runner
  <2>18. ASSUME NEW t \in Tasks
         PROVE  (At(t) => At(t)') /\ (Nowhere(t) => Nowhere(t)')
    <3>1. InGlobal(t)' = InGlobal(t) /\ AsTask(t)' = AsTask(t)
      BY Zenon, <1>3, <2>9, <2>11, <2>13 DEF InGlobal, AsTask
    <3>2. AsCandidate(t)' = IF t = c THEN AsCandidate(t) \cup {v} ELSE AsCandidate(t)
      BY Zenon, <1>3, <2>9, <2>11, VpuTypes DEF AsCandidate
    <3> DEFINE N == {j \in 1..(n - 1) : s[j] = t}
    <3>3. InTemps(t)' = InTemps(t) \cup {<<v, i>> : i \in N}
      <4>1. CASE n = 1
        <5>1. N = {}
          BY <4>1
        <5>2. \A y \in Vpus : /\ pc[y] \in Holding <=> pc'[y] \in Holding
                              /\ pc[y] \in Holding => loc'[y] = loc[y]
          BY Zenon, <1>1, <1>2, <2>10, <2>11, <4>1
        <5>3. InTemps(t)' = InTemps(t)
          BY Zenon, <2>13, <5>2, TempsKept
        <5> QED BY Zenon, <5>1, <5>3
      <4>2. CASE n # 1
        <5>0. loc'[v].temp = s /\ Len(s) = n - 1
          BY Zenon, <2>7, <2>9, <2>11
        <5>1. pc[v] \notin Holding /\ pc'[v] \in Holding /\ Capacity \in Nat /\ shape' = shape
          BY Zenon, <1>1, <1>2, <2>4, <2>10, <2>11, <2>13, <4>2
        <5>2. Len(loc'[v].temp) \in 0..Capacity
          BY <2>4, <5>0
        <5>3. \A y \in Vpus : y # v => pc'[y] = pc[y] /\ loc'[y] = loc[y]
          BY Zenon, <2>11
        <5>4. InTemps(t)' = InTemps(t) \cup {<<v,
                                               i>> : i \in {j \in 1..Len(loc'[v].temp) : loc'[v].temp[j] = t}}
          BY SMT, <5>1, <5>2, <5>3, TempsTaken
        <5> QED BY Zenon, <5>0, <5>4
      <4> QED BY Zenon, <4>1, <4>2
    <3>4. CASE (\A i \in 1..n : Nth(u, i) # t) /\ InRings(t)' = InRings(t)
      <4>1. N = {} /\ t # c
        BY Zenon, <2>4, <2>6, <2>8, <3>4
      <4>2. InTemps(t)' = InTemps(t) /\ AsCandidate(t)' = AsCandidate(t)
        BY Zenon, <3>2, <3>3, <4>1
      <4> QED BY Zenon, <3>1, <3>4, <4>2 DEF At, Nowhere
    <3>5. CASE /\ \E i \in 1..n : Nth(u, i) = t /\ \A j \in 1..n : Nth(u, j) = t => j = i
               /\ InRings(t)' = {} /\ InGlobal(t) = {} /\ AsTask(t) = {} /\ AsCandidate(t) = {}
               /\ InTemps(t) = {} /\ At(t) /\ ~Nowhere(t)
      <4>1. PICK i \in 1..n : Nth(u, i) = t /\ \A j \in 1..n : Nth(u, j) = t => j = i
        BY Zenon, <3>5
      <4>2. CASE i = n
        <5>1. N = {} /\ t = c
          BY Zenon, <2>4, <2>6, <2>8, <4>1, <4>2
        <5>2. InTemps(t)' = {} /\ AsCandidate(t)' = {v}
          BY Zenon, <3>2, <3>3, <3>5, <5>1
        <5> QED BY Zenon, <3>1, <3>5, <5>2 DEF At, OneOf
      <4>3. CASE i # n
        <5>1. N = {i} /\ t # c
          BY Zenon, <2>4, <2>6, <2>8, <4>1, <4>3
        <5>2. InTemps(t)' = {<<v, i>>} /\ AsCandidate(t)' = {}
          BY Zenon, <3>2, <3>3, <3>5, <5>1
        <5> QED BY Zenon, <3>1, <3>5, <5>2 DEF At, OneOf
      <4> QED BY Zenon, <4>2, <4>3
    <3> QED BY Zenon, <2>1, <2>4, <3>4, <3>5, TakenOne
  <2>19. QueuedExactlyOnce'
    BY Zenon, <2>13, <2>18, QInvIs, OnceKept
  <2> QED BY Zenon, <1>1, <2>1, <2>4, <2>9, <2>10, <2>14, <2>15, <2>16, <2>17, <2>19, HeadStep
<1> QED BY Zenon, <1>5, <1>6
-----------------------------------------------------------------------------
(* Steps that write slots, or move a tail *)

\* A step of v that writes slots of its own ring keeps the invariant if these slots hold
\* none of its coroutines, and v's part of the invariant holds.
LEMMA WriteStep ==
  ASSUME QInv, NEW v \in Vpus, NEW k \in Locations, NEW l \in LocalsType,
         pc' = [pc EXCEPT ![v] = k], loc' = [loc EXCEPT ![v] = l],
         UNCHANGED <<shape, runqhead, runqtail, global, coroutines>>,
         runq' \in [Vpus -> [0..(Capacity - 1) -> Tasks \cup {NULL}]],
         \A x \in Vpus : x # v => runq'[x] = runq[x],
         \A c \in Counters :
           Distance(c, runqhead[v]) < Size(v) => runq'[v][Slot(c)] = runq[v][Slot(c)],
         l.task = loc[v].task, l.candidate = loc[v].candidate, l.temp = loc[v].temp,
         pc[v] \in Holding <=> k \in Holding, k \in Emptied => Size(v) = 0,
         Locals(v)' /\ Owned(v)' /\ Fetch(v)' /\ Theft(v)' /\ Runner(v)'
  PROVE  QInv'
<1>1. /\ shape' = shape /\ runqhead' = runqhead /\ runqtail' = runqtail
      /\ gq' = gq /\ glock' = glock /\ status' = status /\ current' = current /\ budget' = budget
      /\ Capacity' = Capacity /\ \A c : Slot(c)' = Slot(c)
  BY Zenon DEF global, coroutines, Capacity, Slot
<1>2. pc \in [Vpus -> Locations] /\ loc \in [Vpus -> LocalsType]
  BY Zenon, QInvIs DEF TypeOK
<1>3. /\ pc'[v] = k /\ loc'[v] = l
      /\ \A y \in Vpus : y # v => pc'[y] = pc[y] /\ loc'[y] = loc[y]
  BY Zenon, <1>2
<1>4. TypeOK'
  <2>1. pc' \in [Vpus -> Locations] /\ loc' \in [Vpus -> LocalsType]
    BY Zenon, <1>2
  <2> QED BY Zenon, <1>1, <2>1, QInvIs DEF TypeOK
<1>5. \A y \in Vpus : Size(y)' = Size(y)
  BY Zenon, <1>1 DEF Size
<1>6. \A x \in Vpus : \A c \in Counters :
        Distance(c, runqhead[x]) < Size(x) => runq'[x][Slot(c)] = runq[x][Slot(c)]
  BY Zenon
<1>7. \A y \in Vpus : Ring(y)'
  <2>1. ASSUME NEW y \in Vpus
        PROVE  Ring(y)'
    <3>1. Ring(y)
      BY Zenon, QInvIs
    <3>2. pc'[y] \in Emptied => Size(y) = 0
      <4>1. CASE y = v
        BY Zenon, <1>3, <4>1
      <4>2. CASE y # v
        BY Zenon, <1>3, <3>1, <4>2 DEF Ring
      <4> QED BY Zenon, <4>1, <4>2
    <3> QED BY Zenon, <1>1, <1>5, <1>6, <3>1, <3>2 DEF Ring, Counters
  <2> QED BY Zenon, <2>1
<1>8. ASSUME NEW y \in Vpus, y # v
      PROVE  VpuInv(y)'
  <2>1. pc'[y] = pc[y] /\ loc'[y] = loc[y] /\ runq'[y] = runq[y]
    BY Zenon, <1>3, <1>8
  <2>2. pc[y] \in {"write", "publish"} => Size(y)' < Capacity
    BY Zenon, <1>5, QInvIs DEF Owned
  <2>3. Locals(y)' /\ Owned(y)' /\ Fetch(y)' /\ Runner(y)'
    BY Zenon, <1>1, <1>5, <2>1, <2>2, QInvIs, LocalsFrame, OwnedFrame, FetchFrame, RunnerFrame
  <2>4. Theft(y)'
    <3> DEFINE u == loc[y].victim
    <3>1. CASE u # v
      BY Zenon, <1>1, <2>1, <3>1, QInvIs, TheftFrame
    <3>2. CASE u = v
      <4>1. Theft(y)
        BY Zenon, QInvIs
      <4>2. ASSUME pc[y] \in {"copy", "grabCAS"}, runqhead[v] = loc[y].head,
                   NEW i \in 1..Len(loc[y].temp)
            PROVE  loc[y].temp[i] = runq'[v][Slot(Plus(loc[y].head, i - 1))]
        <5>1. /\ loc[y].n <= Size(v) /\ loc[y].n \in 1..(Capacity \div 2)
              /\ loc[y].temp[i] = runq[v][Slot(Plus(loc[y].head, i - 1))]
              /\ Len(loc[y].temp) < loc[y].n \/ Len(loc[y].temp) = loc[y].n
          BY Zenon, <3>2, <4>1, <4>2 DEF Theft
        <5>2. Size(v) \in Counters /\ runqhead[v] \in Counters /\ loc[y] \in LocalsType
          BY Zenon, VpuTypes
        <5>3. Len(loc[y].temp) \in Nat
          BY <5>2 DEF LocalsType
        <5>4. Size(v) \in 0..Modulus /\ i \in 1..Size(v) /\ i - 1 < Size(v)
          BY <5>1, <5>2, <5>3, RunQueueAssumption DEF Counters
        <5>5. /\ Plus(runqhead[v], i - 1) \in Counters
              /\ Distance(Plus(runqhead[v], i - 1), runqhead[v]) = i - 1
          BY Zenon, <5>2, <5>4, NthArith
        <5> QED BY Zenon, <4>2, <5>1, <5>4, <5>5
      <4>3. pc[y] \in {"copy", "grabCAS"} /\ runqhead[v] = loc[y].head =>
              \A i \in 1..Len(loc[y].temp) :
                loc[y].temp[i] = runq'[v][Slot(Plus(loc[y].head, i - 1))]
        BY Zenon, <4>2
      <4>4. v = loc[y].victim /\ runqhead'[v] = runqhead[v] /\ runqtail'[v] = runqtail[v]
        BY Zenon, <1>1, <3>2
      <4> HIDE DEF u
      <4> QED BY SMT, <1>1, <2>1, <4>1, <4>3, <4>4, TheftKept
    <3> QED BY Zenon, <3>1, <3>2
  <2> QED BY Zenon, <1>7, <2>3, <2>4 DEF VpuInv
<1>9. QueuedExactlyOnce'
  <2>1. ASSUME NEW t \in Tasks
        PROVE  (At(t) => At(t)') /\ (Nowhere(t) => Nowhere(t)')
    <3>1. InRings(t)' = InRings(t)
      <4>1. ASSUME NEW x \in Vpus \X Counters
            PROVE  x \in InRings(t)' <=> x \in InRings(t)
        <5>1. x[1] \in Vpus /\ x[2] \in Counters
          OBVIOUS
        <5>2. Size(x[1])' = Size(x[1])
          BY Zenon, <1>5, <5>1
        <5>3. x \in InRings(t)' <=> Distance(x[2], runqhead[x[1]]) < Size(x[1]) /\ runq'[x[1]][Slot(x[2])] = t
          BY Zenon, <1>1, <5>2 DEF InRings, Counters
        <5>4. x \in InRings(t) <=> Distance(x[2], runqhead[x[1]]) < Size(x[1]) /\ runq[x[1]][Slot(x[2])] = t
          BY Zenon DEF InRings, Counters
        <5> QED BY Zenon, <1>6, <5>1, <5>3, <5>4
      <4>2. InRings(t)' \subseteq Vpus \X Counters /\ InRings(t) \subseteq Vpus \X Counters
        BY Zenon DEF InRings, Counters
      <4> QED BY Zenon, <4>1, <4>2
    <3>2. InGlobal(t)' = InGlobal(t) /\ AsTask(t)' = AsTask(t) /\ AsCandidate(t)' = AsCandidate(t)
      BY Zenon, <1>1, <1>3 DEF InGlobal, AsTask, AsCandidate
    <3>3. InTemps(t)' = InTemps(t)
      <4>1. \A x \in Vpus \X (1..Capacity) : x[1] \in Vpus
        OBVIOUS
      <4>2. \A y \in Vpus : (pc[y] \in Holding <=> pc'[y] \in Holding) /\ loc'[y].temp = loc[y].temp
        BY Zenon, <1>3
      <4> QED BY Zenon, <1>1, <4>1, <4>2 DEF InTemps
    <3> QED BY Zenon, <3>1, <3>2, <3>3 DEF At, Nowhere
  <2> QED BY Zenon, <1>1, <2>1, QInvIs, OnceKept
<1>10. \A x, y \in Vpus : current'[x] = current'[y] /\ current'[x] # NULL => x = y
  BY Zenon, <1>1, QInvIs
<1>11. VpuInv(v)'
  BY Zenon, <1>7 DEF VpuInv
<1> QED BY Zenon, <1>4, <1>8, <1>9, <1>10, <1>11 DEF QInv

\* A tail moves on by m, and does not reach the head from behind.
LEMMA TailArith ==
  ASSUME NEW h \in Counters, NEW t \in Counters, NEW m \in 0..Modulus,
         Distance(t, h) + m < Modulus
  PROVE  Plus(t, m) \in Counters /\ Distance(Plus(t, m), h) = Distance(t, h) + m
<1> DEFINE g == Plus(t, m)
<1>0. /\ Modulus \in Nat /\ h \in Int /\ t \in Int /\ 0 <= h /\ h < Modulus
      /\ 0 <= t /\ t < Modulus /\ m \in Int /\ 0 <= m
  BY RunQueueAssumption DEF Counters
<1>1. Distance(t, h) = IF h <= t THEN t - h ELSE t - h + Modulus
  BY Zenon, DistanceIs
<1>2. g \in Counters /\ g = IF t + m < Modulus THEN t + m ELSE t + m - Modulus
  BY Zenon, PlusIs
<1> HIDE DEF g
<1>3. Distance(g, h) = IF h <= g THEN g - h ELSE g - h + Modulus
  BY Zenon, <1>2, DistanceIs
<1>4. g \in Int /\ 0 <= g /\ g < Modulus
  BY <1>0, <1>2 DEF Counters
<1>5. Distance(g, h) = Distance(t, h) + m
  BY <1>0, <1>1, <1>2, <1>3, <1>4
<1> QED BY Zenon, <1>2, <1>5 DEF g

\* The places that a ring gains when its tail moves.
LEMMA TailPlaces ==
  ASSUME NEW h \in Counters, NEW t \in Counters, NEW m \in 0..Modulus,
         Distance(t, h) + m < Modulus, NEW c \in Counters
  PROVE  Distance(c, h) < Distance(t, h) + m <=>
           Distance(c, h) < Distance(t, h) \/ \E i \in 1..m : c = Plus(t, i - 1)
<1>0. /\ Modulus \in Nat /\ m \in Int /\ 0 <= m
      /\ Distance(t, h) \in Int /\ 0 <= Distance(t, h)
      /\ Distance(c, h) \in Int /\ 0 <= Distance(c, h)
  <2>1. Distance(t, h) \in Counters /\ Distance(c, h) \in Counters
    BY Zenon, DistanceIs
  <2> QED BY <2>1, RunQueueAssumption DEF Counters
<1>1. ASSUME NEW i \in 1..m, c = Plus(t, i - 1)
      PROVE  Distance(c, h) < Distance(t, h) + m
  <2>1. i - 1 \in 0..Modulus /\ Distance(t, h) + (i - 1) < Modulus /\ i - 1 < m /\ i - 1 \in Int
    BY <1>0
  <2>2. Distance(c, h) = Distance(t, h) + (i - 1)
    BY Zenon, <1>1, <2>1, TailArith
  <2> QED BY <1>0, <2>1, <2>2
<1>2. ASSUME Distance(c, h) < Distance(t, h) + m, ~(Distance(c, h) < Distance(t, h))
      PROVE  \E i \in 1..m : c = Plus(t, i - 1)
  <2> DEFINE j == Distance(c, h) - Distance(t, h)
  <2>1. /\ j \in 0..Modulus /\ Distance(t, h) + j < Modulus /\ j + 1 \in 1..m /\ (j + 1) - 1 = j
        /\ Distance(t, h) + j = Distance(c, h)
    BY <1>0, <1>2
  <2> HIDE DEF j
  <2>2. Plus(t, j) \in Counters /\ Distance(Plus(t, j), h) = Distance(c, h)
    BY Zenon, <2>1, TailArith
  <2>3. PICK d \in Counters : d = Plus(t, j)
    BY Zenon, <2>2
  <2>4. /\ Distance(d, h) = IF h <= d THEN d - h ELSE d - h + Modulus
        /\ Distance(c, h) = IF h <= c THEN c - h ELSE c - h + Modulus
    BY Zenon, DistanceIs
  <2>5. Distance(d, h) = Distance(c, h)
    BY Zenon, <2>2, <2>3
  <2>6. /\ Modulus \in Nat /\ c \in 0..(Modulus - 1) /\ d \in 0..(Modulus - 1)
        /\ h \in 0..(Modulus - 1)
    BY Zenon, RunQueueAssumption DEF Counters
  <2>7. c = d
    BY <2>4, <2>5, <2>6
  <2> QED BY Zenon, <2>1, <2>3, <2>7
<1>3. Distance(c, h) < Distance(t, h) => Distance(c, h) < Distance(t, h) + m
  BY <1>0
<1> QED BY Zenon, <1>1, <1>2, <1>3

\* The slots after the tail hold none of the ring's coroutines.
LEMMA FreeSlot ==
  ASSUME QInv, NEW v \in Vpus, NEW i \in 0..(Capacity - 1), Size(v) + i < Capacity,
         NEW c \in Counters, Distance(c, runqhead[v]) < Size(v)
  PROVE  Slot(c) # Slot(Plus(runqtail[v], i))
<1>1. /\ shape \in Shapes /\ runqhead[v] \in Counters /\ runqtail[v] \in Counters
      /\ Size(v) \in Counters
  BY Zenon, VpuTypes
<1>2. /\ i \in 0..Modulus /\ Size(v) + i < Modulus /\ Distance(c, runqhead[v]) < Capacity
      /\ Distance(c, runqhead[v]) # Size(v) + i
  <2>1. Distance(c, runqhead[v]) \in Counters
    BY Zenon, <1>1, DistanceIs
  <2> QED BY <1>1, <2>1, CapacityIs DEF Counters
<1>3. /\ Plus(runqtail[v], i) \in Counters
      /\ Distance(Plus(runqtail[v], i), runqhead[v]) = Size(v) + i
  BY Zenon, <1>1, <1>2, TailArith DEF Size
<1> QED BY Zenon, <1>1, <1>2, <1>3, SlotsDiffer

\* __runqput writes the slot at its tail.
LEMMA PutWriteQInv ==
  ASSUME QInv, NEW v \in Vpus, PutWrite(v)
  PROVE  QInv'
<1> DEFINE k == "publish"
           l == loc[v]
<1>1. /\ pc[v] = "write" /\ pc' = [pc EXCEPT ![v] = k] /\ loc' = [loc EXCEPT ![v] = l]
      /\ runq' = [runq EXCEPT ![v][Slot(runqtail[v])] = loc[v].task]
      /\ UNCHANGED <<shape, runqhead, runqtail, global, coroutines>>
  BY Zenon DEF PutWrite, Move
<1>2. /\ l \in LocalsType /\ l.task \in Tasks /\ l.task # NULL /\ l.ret \in {"run", "poll", "fetch"}
      /\ l.candidate # NULL => Fetching(v)
      /\ shape \in Shapes /\ runqtail[v] \in Counters /\ runqtail[v] \in Int /\ runqhead[v] \in Counters
      /\ Size(v) \in Counters
  <2>1. /\ l \in LocalsType /\ l.task \in Tasks /\ l.ret \in {"run", "poll", "fetch"}
        /\ l.candidate # NULL => Fetching(v)
    BY Zenon, <1>1, PutIs
  <2>2. /\ shape \in Shapes /\ runqtail[v] \in Counters /\ NULL \notin Tasks /\ runqhead[v] \in Counters
        /\ Size(v) \in Counters
    BY Zenon, VpuTypes
  <2>3. runqtail[v] \in Int
    BY <2>2, RunQueueAssumption DEF Counters
  <2> QED BY Zenon, <2>1, <2>2, <2>3
<1>3. pc'[v] = k /\ loc'[v] = l
  BY Zenon, <1>1, QInvIs DEF TypeOK
<1>4. /\ shape' = shape /\ runqhead' = runqhead /\ runqtail' = runqtail
      /\ gq' = gq /\ glock' = glock /\ current' = current /\ status' = status
      /\ Size(v)' = Size(v) /\ Capacity' = Capacity
  BY Zenon, <1>1 DEF global, coroutines, Size, Capacity
<1>5. Slot(runqtail[v]) \in 0..(Capacity - 1)
  BY Zenon, <1>2, SlotIn
<1>6. runq \in [Vpus -> [0..(Capacity - 1) -> Tasks \cup {NULL}]]
  BY Zenon, QInvIs DEF TypeOK
<1>7. /\ runq' \in [Vpus -> [0..(Capacity - 1) -> Tasks \cup {NULL}]]
      /\ runq'[v][Slot(runqtail[v])] = loc[v].task
      /\ \A x \in Vpus : x # v => runq'[x] = runq[x]
      /\ \A s \in 0..(Capacity - 1) : s # Slot(runqtail[v]) => runq'[v][s] = runq[v][s]
  BY Zenon, <1>1, <1>2, <1>5, <1>6
<1>8. ASSUME NEW c \in Counters, Distance(c, runqhead[v]) < Size(v)
      PROVE  runq'[v][Slot(c)] = runq[v][Slot(c)]
  <2>1. Size(v) < Capacity
    BY Zenon, <1>1, QInvIs DEF Owned
  <2>2. 0 \in 0..(Capacity - 1) /\ Size(v) + 0 < Capacity /\ c \in Int
    BY <1>2, <2>1, CapacityIs, RunQueueAssumption DEF Counters
  <2>3. Plus(runqtail[v], 0) = runqtail[v]
    <3>1. runqtail[v] \in 0..(Modulus - 1) /\ Modulus \in Nat
      BY Zenon, <1>2, RunQueueAssumption DEF Counters
    <3>2. PICK t \in 0..(Modulus - 1) : t = runqtail[v]
      BY Zenon, <3>1
    <3>3. (t + 0) % Modulus = t
      BY <3>1
    <3> QED BY Zenon, <3>2, <3>3 DEF Plus
  <2>4. Slot(c) # Slot(runqtail[v])
    BY Zenon, <1>8, <2>2, <2>3, FreeSlot
  <2>5. Slot(c) \in 0..(Capacity - 1)
    BY Zenon, <1>2, <2>2, SlotIn
  <2> QED BY Zenon, <1>7, <2>4, <2>5
<1>9. /\ k \in Locations /\ k \in Putting /\ k # "slowAdd" /\ k \notin Holding /\ k \notin Emptied
      /\ k \notin {"found", "own", "ownTail"} /\ k # "fetch" /\ k # "run" /\ k # "ownTail"
      /\ k \notin {"get", "getCAS"} /\ k # "getCAS" /\ k # "slow" /\ k \notin {"slow", "slowAdd"}
      /\ k \notin {"global", "trylock"} /\ k \notin Stealing /\ k \notin {"copy", "grabCAS"}
      /\ pc[v] \notin Holding /\ pc[v] \in Putting /\ pc[v] # "fetch" /\ pc[v] # "run"
      /\ pc[v] \in {"write", "publish"}
  BY <1>1 DEF Locations, Putting, Holding, Emptied, Stealing
<1> HIDE DEF k, l
<1>l. l = loc[v]
  BY Zenon DEF l
<1>10. (Fetching(v)' <=> Fetching(v)) /\ (Running(v)' <=> Running(v))
  BY Zenon, <1>3, <1>9, <1>l DEF Fetching, Running
<1>11. Locals(v)'
  <2>1. l.ret # "global"
    BY Zenon, <1>2
  <2> QED BY Zenon, <1>2, <1>3, <1>9, <1>10, <2>1 DEF Locals
<1>12. Owned(v)'
  <2>1. Size(v) < Capacity
    BY Zenon, <1>9, QInvIs DEF Owned
  <2>2. runq'[v][Slot(runqtail[v])'] = loc'[v].task
    <3>1. Slot(runqtail[v])' = Slot(runqtail[v])
      BY Zenon, <1>4 DEF Slot
    <3> QED BY Zenon, <1>3, <1>7, <1>l, <3>1
  <2> QED BY Zenon, <1>3, <1>4, <1>9, <2>1, <2>2 DEF Owned
<1>13. Fetch(v)'
  <2>1. Fetch(v)
    BY Zenon, QInvIs
  <2> QED BY Zenon, <1>3, <1>4, <1>9, <1>10, <1>l, <2>1 DEF Fetch
<1>14. Runner(v)'
  <2>1. Runner(v)
    BY Zenon, QInvIs
  <2> QED BY Zenon, <1>4, <1>10, <2>1 DEF Runner
<1>15. Theft(v)'
  BY Zenon, <1>3, <1>9 DEF Theft, Stealing
<1>16. l.task = loc[v].task /\ l.candidate = loc[v].candidate /\ l.temp = loc[v].temp
  BY Zenon, <1>l
<1> QED BY Zenon, <1>1, <1>2, <1>7, <1>8, <1>9, <1>11, <1>12, <1>13, <1>14, <1>15, <1>16,
           WriteStep

\* What a thief that moves its loot to its own ring may rely on.
LEMMA OwnIs ==
  ASSUME QInv, NEW v \in Vpus, pc[v] \in {"own", "ownTail"}
  PROVE  /\ loc[v] \in LocalsType /\ loc[v].task = NULL /\ loc[v].candidate \in Tasks
         /\ glock # v /\ current[v] = NULL /\ Size(v) = 0 /\ pc[v] \in Holding
         /\ Len(loc[v].temp) \in 0..(Capacity - 1) /\ Len(loc[v].temp) \in Nat
         /\ \A i \in 1..Len(loc[v].temp) : loc[v].temp[i] \in Tasks /\ loc[v].temp[i] # NULL
<1>1. /\ pc[v] \in Emptied /\ pc[v] \notin Putting /\ pc[v] # "fetch" /\ pc[v] # "run"
      /\ pc[v] \in Holding /\ pc[v] \in {"found", "own", "ownTail"}
  BY DEF Emptied, Putting, Holding
<1>2. loc[v] \in LocalsType /\ shape \in Shapes
  BY Zenon, VpuTypes
<1>3. loc[v].temp \in Seq(Tasks \cup {NULL}) /\ loc[v].candidate \in Tasks \cup {NULL}
  BY <1>2 DEF LocalsType
<1>4. ~Fetching(v) /\ ~Running(v)
  BY Zenon, <1>1 DEF Fetching, Running
<1>5. loc[v].task = NULL /\ loc[v].candidate # NULL
  BY Zenon, <1>1, QInvIs DEF Locals
<1>6. glock # v /\ current[v] = NULL /\ Size(v) = 0
  BY Zenon, <1>1, <1>4, QInvIs DEF Fetch, Runner, Ring
<1>7. Len(loc[v].temp) < Capacity /\ \A i \in 1..Len(loc[v].temp) : loc[v].temp[i] # NULL
  BY Zenon, <1>1, QInvIs DEF Locals
<1>8. Len(loc[v].temp) \in 0..(Capacity - 1) /\ Len(loc[v].temp) \in Nat
  BY <1>2, <1>3, <1>7, CapacityIs
<1>9. \A i \in 1..Len(loc[v].temp) : loc[v].temp[i] \in Tasks \cup {NULL}
  BY <1>3
<1> QED BY Zenon, <1>1, <1>2, <1>3, <1>5, <1>6, <1>7, <1>8, <1>9

\* A thief writes its loot to the slots behind its own tail.
LEMMA StealOwnQInv ==
  ASSUME QInv, NEW v \in Vpus, StealOwn(v)
  PROVE  QInv'
<1> DEFINE k == "ownTail"
           l == [loc[v] EXCEPT !.head = runqhead[v]]
           m == Len(loc[v].temp)
           D(s) == Distance(s, runqtail[v]) % Capacity
           r == [s \in DOMAIN runq[v] |-> IF D(s) < m THEN loc[v].temp[D(s) + 1] ELSE runq[v][s]]
<1>1. /\ pc[v] = "own" /\ pc' = [pc EXCEPT ![v] = k] /\ loc' = [loc EXCEPT ![v] = l]
      /\ runq' = [runq EXCEPT ![v] = r]
      /\ UNCHANGED <<shape, runqhead, runqtail, global, coroutines>>
  BY Zenon DEF StealOwn, Move
<1>2. /\ loc[v] \in LocalsType /\ loc[v].task = NULL /\ loc[v].candidate \in Tasks
      /\ glock # v /\ current[v] = NULL /\ Size(v) = 0 /\ pc[v] \in Holding
      /\ m \in 0..(Capacity - 1) /\ m \in Nat
      /\ \A i \in 1..m : loc[v].temp[i] \in Tasks /\ loc[v].temp[i] # NULL
  BY Zenon, <1>1, OwnIs
<1>3. /\ shape \in Shapes /\ runqtail[v] \in Counters /\ NULL \notin Tasks
      /\ runqhead[v] \in Counters
      /\ runq \in [Vpus -> [0..(Capacity - 1) -> Tasks \cup {NULL}]]
  BY Zenon, VpuTypes, QInvIs DEF TypeOK
<1>4. /\ l \in LocalsType /\ l.task = loc[v].task /\ l.candidate = loc[v].candidate
      /\ l.temp = loc[v].temp
  BY <1>2, <1>3 DEF LocalsType, Counters
<1>5. /\ Capacity \in Nat /\ Capacity > 0 /\ \A s \in 0..(Capacity - 1) : s \in Int
  BY <1>3, CapacityIs
<1>6. ASSUME NEW s \in 0..(Capacity - 1)
      PROVE  r[s] \in Tasks \cup {NULL}
  <2>1. DOMAIN runq[v] = 0..(Capacity - 1) /\ runq[v][s] \in Tasks \cup {NULL}
    BY Zenon, <1>3
  <2>2. r[s] = IF D(s) < m THEN loc[v].temp[D(s) + 1] ELSE runq[v][s]
    BY Zenon, <2>1
  <2>3. D(s) \in Nat
    <3>1. Distance(s, runqtail[v]) \in Int
      BY <1>3, <1>5, RunQueueAssumption DEF Distance, Counters
    <3> QED BY <1>5, <3>1
  <2> HIDE DEF D
  <2>4. D(s) < m => D(s) + 1 \in 1..m
    BY <1>2, <2>3
  <2> HIDE DEF r, m
  <2> QED BY Zenon, <1>2, <2>1, <2>2, <2>4
<1>7. r \in [0..(Capacity - 1) -> Tasks \cup {NULL}]
  <2>1. DOMAIN runq[v] = 0..(Capacity - 1)
    BY Zenon, <1>3
  <2> HIDE DEF D, m
  <2> QED BY Zenon, <1>6, <2>1
<1>8. ASSUME NEW i \in 1..m
      PROVE  r[Slot(Plus(runqtail[v], i - 1))] = loc[v].temp[i]
  <2>1. i - 1 \in 0..(Capacity - 1) /\ i - 1 < m /\ (i - 1) + 1 = i /\ i - 1 \in 0..Modulus
    BY <1>2, <1>3, <1>5, CapacityIs
  <2>2. Plus(runqtail[v], i - 1) \in Int
    BY <1>3, <2>1, RunQueueAssumption DEF Plus, Counters
  <2>3. Slot(Plus(runqtail[v], i - 1)) \in 0..(Capacity - 1)
    BY Zenon, <1>3, <2>2, SlotIn
  <2>4. D(Slot(Plus(runqtail[v], i - 1))) = i - 1
    BY Zenon, <1>3, <2>1, OwnSlot
  <2>5. DOMAIN runq[v] = 0..(Capacity - 1)
    BY Zenon, <1>3
  <2> HIDE DEF D, m
  <2> QED BY Zenon, <2>1, <2>3, <2>4, <2>5
<1> HIDE DEF r, l, k
<1>9. /\ pc'[v] = k /\ loc'[v] = l /\ runq'[v] = r
      /\ runq' \in [Vpus -> [0..(Capacity - 1) -> Tasks \cup {NULL}]]
      /\ \A x \in Vpus : x # v => runq'[x] = runq[x]
  BY Zenon, <1>1, <1>3, <1>7, QInvIs DEF TypeOK
<1>10. \A c \in Counters : ~(Distance(c, runqhead[v]) < Size(v))
  <2>1. ASSUME NEW c \in Counters
        PROVE  ~(Distance(c, runqhead[v]) < Size(v))
    <3>1. Distance(c, runqhead[v]) \in Counters
      BY Zenon, <1>3, DistanceIs
    <3> QED BY <1>2, <3>1 DEF Counters
  <2> QED BY Zenon, <2>1
<1>11. /\ shape' = shape /\ runqhead' = runqhead /\ runqtail' = runqtail
       /\ gq' = gq /\ glock' = glock /\ current' = current /\ status' = status
       /\ Capacity' = Capacity
  BY Zenon, <1>1 DEF global, coroutines, Capacity
<1>12. /\ k \in Locations /\ k \notin Putting /\ k \in Holding /\ k \in {"found", "own", "ownTail"}
       /\ k # "fetch" /\ k # "run" /\ k \notin {"get", "getCAS"} /\ k # "getCAS" /\ k # "slow"
       /\ k # "publish" /\ k \notin {"write", "publish"} /\ k \notin {"global", "trylock"}
       /\ k \notin {"grab", "grabTail", "copy", "grabCAS"} /\ k \notin {"copy", "grabCAS"}
  BY DEF Locations, Putting, Holding, k
<1>13. ~Fetching(v)' /\ ~Running(v)'
  BY Zenon, <1>9, <1>12 DEF Fetching, Running
<1>14. Locals(v)'
  <2>1. Len(loc[v].temp) < Capacity /\ Len(loc[v].temp) <= Capacity
    BY <1>2, <1>5
  <2> QED BY Zenon, <1>2, <1>3, <1>4, <1>9, <1>11, <1>12, <2>1 DEF Locals
<1>15. Owned(v)'
  <2>1. ASSUME NEW i \in 1..m
        PROVE  runq'[v][Slot(Plus(runqtail[v], i - 1))'] = loc[v].temp[i]
    <3>1. Slot(Plus(runqtail[v], i - 1))' = Slot(Plus(runqtail[v], i - 1))
      BY Zenon, <1>11 DEF Slot
    <3> QED BY Zenon, <1>8, <1>9, <3>1
  <2>2. Len(loc'[v].temp) = m /\ loc'[v].temp = loc[v].temp
    BY Zenon, <1>4, <1>9
  <2> HIDE DEF m
  <2> QED BY Zenon, <1>9, <1>11, <1>12, <2>1, <2>2 DEF Owned
<1>16. Fetch(v)' /\ Runner(v)' /\ Theft(v)'
  BY Zenon, <1>2, <1>9, <1>11, <1>12, <1>13 DEF Fetch, Runner, Theft
<1> QED BY Zenon, <1>1, <1>2, <1>4, <1>9, <1>10, <1>12, <1>14, <1>15, <1>16, WriteStep
-----------------------------------------------------------------------------
(* Steps that move a tail *)

\* The owner of a ring adds m coroutines to it: it has written them to the slots behind
\* its tail.
Added(v, m) ==
  /\ runqtail' = [runqtail EXCEPT ![v] = Plus(@, m)]
  /\ Size(v) + m <= Capacity
  /\ \A i \in 1..m : runq[v][Slot(Plus(runqtail[v], i - 1))] # NULL
  /\ UNCHANGED <<shape, runqhead, runq>>

\* The ring grows by m.
LEMMA AddedIs ==
  ASSUME QInv, NEW v \in Vpus, NEW m \in 0..Capacity, Added(v, m)
  PROVE  /\ runqtail' \in [Vpus -> Counters] /\ Size(v)' = Size(v) + m
         /\ \A y \in Vpus : y # v => runqtail'[y] = runqtail[y] /\ Size(y)' = Size(y)
         /\ Distance(runqtail[v], runqhead[v]) + m < Modulus
         /\ m \in 0..Modulus
<1>1. /\ runqtail' = [runqtail EXCEPT ![v] = Plus(runqtail[v], m)] /\ Size(v) + m <= Capacity
      /\ runqhead' = runqhead
  BY Zenon DEF Added
<1>2. /\ shape \in Shapes /\ runqtail[v] \in Counters /\ runqhead[v] \in Counters
      /\ Size(v) \in Counters /\ runqtail \in [Vpus -> Counters]
  BY Zenon, VpuTypes, QInvIs DEF TypeOK, Counters
<1>3. Size(v) + m < Modulus /\ m \in 0..Modulus
  BY <1>1, <1>2, CapacityIs DEF Counters
<1>4. Distance(runqtail[v], runqhead[v]) + m < Modulus
  BY Zenon, <1>3 DEF Size
<1>5. /\ Plus(runqtail[v], m) \in Counters
      /\ Distance(Plus(runqtail[v], m), runqhead[v]) = Distance(runqtail[v], runqhead[v]) + m
  BY Zenon, <1>2, <1>3, <1>4, TailArith
<1>6. /\ runqtail'[v] = Plus(runqtail[v], m) /\ \A y \in Vpus : y # v => runqtail'[y] = runqtail[y]
      /\ runqtail' \in [Vpus -> Counters]
  BY Zenon, <1>1, <1>2, <1>5
<1>7. Size(v)' = Size(v) + m /\ \A y \in Vpus : y # v => Size(y)' = Size(y)
  BY Zenon, <1>1, <1>5, <1>6 DEF Size
<1> QED BY Zenon, <1>3, <1>4, <1>6, <1>7

\* Which coroutines are in the rings then.
LEMMA AddedPlaces ==
  ASSUME QInv, NEW v \in Vpus, NEW m \in 0..Capacity, Added(v, m), NEW t
  PROVE  InRings(t)' = InRings(t) \cup
           {<<v, Plus(runqtail[v], i - 1)>> :
              i \in {j \in 1..m : runq[v][Slot(Plus(runqtail[v], j - 1))] = t}}
<1> DEFINE p(i) == Plus(runqtail[v], i - 1)
           N == {j \in 1..m : runq[v][Slot(p(j))] = t}
<1>1. runq' = runq /\ runqhead' = runqhead /\ \A c : Slot(c)' = Slot(c)
  BY Zenon DEF Added, Slot, Capacity
<1>2. /\ Size(v)' = Size(v) + m /\ \A y \in Vpus : y # v => Size(y)' = Size(y)
      /\ Distance(runqtail[v], runqhead[v]) + m < Modulus
      /\ m \in 0..Modulus
  BY Zenon, AddedIs
<1>3. runqtail[v] \in Counters /\ runqhead[v] \in Counters
  BY Zenon, VpuTypes
<1>4. \A c \in Counters :
        Distance(c, runqhead[v]) < Size(v)' <=>
          Distance(c, runqhead[v]) < Size(v) \/ \E i \in 1..m : c = p(i)
  <2>1. \A c \in Counters :
          Distance(c, runqhead[v]) < Distance(runqtail[v], runqhead[v]) + m <=>
            \/ Distance(c, runqhead[v]) < Distance(runqtail[v], runqhead[v])
            \/ \E i \in 1..m : c = p(i)
    BY Zenon, <1>2, <1>3, TailPlaces
  <2>2. Size(v)' = Distance(runqtail[v], runqhead[v]) + m /\ Size(v) = Distance(runqtail[v], runqhead[v])
    BY Zenon, <1>2 DEF Size
  <2> HIDE DEF p
  <2> QED BY Zenon, <2>1, <2>2
<1>5. \A i \in 1..m : p(i) \in Counters
  <2>1. ASSUME NEW i \in 1..m
        PROVE  p(i) \in Counters
    BY <1>2, <1>3, RunQueueAssumption DEF Plus, Counters
  <2> QED BY Zenon, <2>1
<1> HIDE DEF p
<1>6. ASSUME NEW x \in Vpus \X Counters
      PROVE  x \in InRings(t)' <=> x \in InRings(t) \/ \E i \in N : x = <<v, p(i)>>
  <2>1. x[1] \in Vpus /\ x[2] \in Counters /\ x = <<x[1], x[2]>>
    OBVIOUS
  <2>2. x \in InRings(t)' <=> Distance(x[2], runqhead[x[1]]) < Size(x[1])' /\ runq[x[1]][Slot(x[2])] = t
    BY Zenon, <1>1 DEF InRings, Counters
  <2>3. x \in InRings(t) <=> Distance(x[2], runqhead[x[1]]) < Size(x[1]) /\ runq[x[1]][Slot(x[2])] = t
    BY Zenon DEF InRings, Counters
  <2>4. (\E i \in N : x = <<v, p(i)>>)
          <=> x[1] = v /\ runq[v][Slot(x[2])] = t /\ \E i \in 1..m : x[2] = p(i)
    <3>1. \A i : x = <<v, p(i)>> <=> x[1] = v /\ x[2] = p(i)
      BY <2>1
    <3> QED BY Zenon, <3>1
  <2>5. CASE x[1] # v
    BY Zenon, <1>2, <2>1, <2>2, <2>3, <2>4, <2>5
  <2>6. CASE x[1] = v
    <3>1. Distance(x[2], runqhead[v]) < Size(v)' <=>
            Distance(x[2], runqhead[v]) < Size(v) \/ \E i \in 1..m : x[2] = p(i)
      BY Zenon, <1>4, <2>1
    <3>2. x \in InRings(t)' <=> Distance(x[2], runqhead[v]) < Size(v)' /\ runq[v][Slot(x[2])] = t
      BY Zenon, <1>1, <2>6 DEF InRings, Counters
    <3> QED BY Zenon, <2>3, <2>4, <2>6, <3>1, <3>2
  <2> QED BY Zenon, <2>5, <2>6
<1>7. InRings(t)' \subseteq Vpus \X Counters /\ InRings(t) \subseteq Vpus \X Counters
  BY Zenon DEF InRings, Counters
<1>8. \A i \in N : <<v, p(i)>> \in Vpus \X Counters
  BY <1>5
<1>9. InRings(t)' = InRings(t) \cup {<<v, p(i)>> : i \in N}
  BY Zenon, <1>6, <1>7, <1>8
<1> QED BY Zenon, <1>9 DEF p

\* The ring stays sound.
LEMMA AddedRing ==
  ASSUME QInv, NEW v \in Vpus, NEW m \in 0..Capacity, Added(v, m), pc'[v] \notin Emptied
  PROVE  Ring(v)'
<1>1. /\ runq' = runq /\ runqhead' = runqhead /\ shape' = shape /\ Capacity' = Capacity
      /\ Size(v) + m <= Capacity
      /\ \A i \in 1..m : runq[v][Slot(Plus(runqtail[v], i - 1))] # NULL
  BY Zenon DEF Added, Capacity
<1>2. /\ Size(v)' = Size(v) + m /\ m \in 0..Modulus
      /\ Distance(runqtail[v], runqhead[v]) + m < Modulus
  BY Zenon, AddedIs
<1>3. runqtail[v] \in Counters /\ runqhead[v] \in Counters
  BY Zenon, VpuTypes
<1>4. ASSUME NEW c \in Counters, Distance(c, runqhead[v]) < Size(v)'
      PROVE  runq[v][Slot(c)] # NULL
  <2>1. Distance(c, runqhead[v]) < Distance(runqtail[v], runqhead[v]) + m
    <3>1. Size(v) = Distance(runqtail[v], runqhead[v])
      BY Zenon DEF Size
    <3> QED BY Zenon, <1>2, <1>4, <3>1
  <2>2. \/ Distance(c, runqhead[v]) < Size(v)
        \/ \E i \in 1..m : c = Plus(runqtail[v], i - 1)
    BY <1>2, <1>3, <2>1, TailPlaces DEF Size
  <2>3. Distance(c, runqhead[v]) < Size(v) => runq[v][Slot(c)] # NULL
    BY Zenon, QInvIs DEF Ring, Counters
  <2> QED BY Zenon, <1>1, <2>2, <2>3
<1>5. \A c : Slot(c)' = Slot(c)
  BY Zenon, <1>1 DEF Slot
<1> QED BY Zenon, <1>1, <1>2, <1>4, <1>5 DEF Ring, Counters

\* What a thief has copied stays where it was, and the ring only grows.
LEMMA AddedTheft ==
  ASSUME QInv, NEW v \in Vpus, NEW m \in 0..Capacity, Added(v, m), NEW y \in Vpus,
         pc'[y] = pc[y], loc'[y] = loc[y]
  PROVE  Theft(y)'
<1>1. runq' = runq /\ runqhead' = runqhead /\ shape' = shape
  BY Zenon DEF Added
<1>2. Theft(y) /\ loc[y] \in LocalsType
  BY Zenon, QInvIs, VpuTypes
<1>3. CASE pc[y] \notin {"grab", "grabTail", "copy", "grabCAS"}
  BY Zenon, <1>3 DEF Theft
<1>4. CASE pc[y] \in {"grab", "grabTail", "copy", "grabCAS"}
  <2>1. PICK w \in Vpus : w = loc[y].victim
    BY Zenon, <1>2, <1>4 DEF Theft
  <2>2. ASSUME NEW n \in Nat, n <= Size(w)
        PROVE  n <= Size(w)'
    <3>1. Size(w)' = Size(w) \/ Size(w)' = Size(w) + m
      BY Zenon, AddedIs
    <3>2. Size(w) \in Counters /\ shape \in Shapes
      BY Zenon, VpuTypes
    <3>3. Capacity \in Nat
      BY Zenon, <3>2, CapacityIs
    <3> QED BY <2>2, <3>1, <3>2, <3>3 DEF Counters
  <2>3. loc[y].n \in Nat
    BY <1>2 DEF LocalsType
  <2>4. loc[y].n <= Size(w) => loc[y].n <= Size(w)'
    BY Zenon, <2>2, <2>3
  <2>5. Size(loc[y].victim)' = Size(w)'
    BY Zenon, <2>1 DEF Size
  <2> QED BY <1>1, <1>2, <2>1, <2>4, <2>5 DEF Theft, Slot, Capacity
<1> QED BY Zenon, <1>3, <1>4

\* A step of v that moves its tail keeps the invariant if v's part of it holds, and the
\* coroutines it adds to its ring were queued elsewhere.
LEMMA TailStep ==
  ASSUME QInv, NEW v \in Vpus, NEW m \in 0..Capacity, Added(v, m),
         NEW k \in Locations, NEW l \in LocalsType,
         pc' = [pc EXCEPT ![v] = k], loc' = [loc EXCEPT ![v] = l],
         UNCHANGED <<global, coroutines>>, k \notin Emptied,
         Locals(v)' /\ Owned(v)' /\ Fetch(v)' /\ Theft(v)' /\ Runner(v)',
         QueuedExactlyOnce'
  PROVE  QInv'
<1>1. /\ shape' = shape /\ runqhead' = runqhead /\ runq' = runq
      /\ gq' = gq /\ glock' = glock /\ status' = status /\ current' = current /\ budget' = budget
  BY Zenon DEF Added, global, coroutines
<1>2. pc \in [Vpus -> Locations] /\ loc \in [Vpus -> LocalsType]
  BY Zenon, QInvIs DEF TypeOK
<1>3. pc'[v] = k /\ \A y \in Vpus : y # v => pc'[y] = pc[y] /\ loc'[y] = loc[y]
  BY Zenon, <1>2
<1>4. TypeOK'
  <2>1. pc' \in [Vpus -> Locations] /\ loc' \in [Vpus -> LocalsType]
    BY Zenon, <1>2
  <2>2. runqtail' \in [Vpus -> 0..(Modulus - 1)]
    BY Zenon, AddedIs DEF Counters
  <2> QED BY Zenon, <1>1, <2>1, <2>2, QInvIs DEF TypeOK, Capacity
<1>5. ASSUME NEW y \in Vpus, y # v
      PROVE  VpuInv(y)'
  <2>1. pc'[y] = pc[y] /\ loc'[y] = loc[y]
    BY Zenon, <1>3, <1>5
  <2>2. Locals(y)' /\ Runner(y)' /\ Theft(y)'
    BY Zenon, <1>1, <2>1, QInvIs, LocalsFrame, RunnerFrame, AddedTheft
  <2>3. runqtail'[y] = runqtail[y] /\ Size(y)' = Size(y)
    BY Zenon, <1>5, AddedIs
  <2>4. pc[y] \in {"write", "publish"} => Size(y)' < Capacity
    BY Zenon, <2>3, QInvIs DEF Owned
  <2>5. Ring(y)'
    BY Zenon, <1>1, <2>1, <2>3, QInvIs, RingFrame
  <2>6. Owned(y)' /\ Fetch(y)'
    BY Zenon, <1>1, <2>1, <2>3, <2>4, QInvIs, OwnedFrame, FetchFrame
  <2> QED BY Zenon, <2>2, <2>5, <2>6 DEF VpuInv
<1>6. \A x, y \in Vpus : current'[x] = current'[y] /\ current'[x] # NULL => x = y
  BY Zenon, <1>1, QInvIs
<1>7. VpuInv(v)'
  <2>1. Ring(v)'
    BY Zenon, <1>3, AddedRing
  <2> QED BY Zenon, <2>1 DEF VpuInv
<1> QED BY Zenon, <1>4, <1>5, <1>6, <1>7 DEF QInv

\* __runqput returns to its caller.
LEMMA PutReturn ==
  ASSUME QInv, NEW v \in Vpus, NEW k \in {"run", "poll", "fetch"}, NEW l \in LocalsType,
         pc[v] \in Putting, k = loc[v].ret, pc'[v] = k, loc'[v] = l,
         l.task = NULL, l.candidate = loc[v].candidate, l.candidate # NULL => Fetching(v),
         current' = current, status' = status
  PROVE  /\ k \in Locations /\ k \notin Emptied /\ k \notin Holding
         /\ Locals(v)' /\ Owned(v)' /\ Theft(v)' /\ Runner(v)'
         /\ Fetching(v)' <=> Fetching(v)
         /\ Fetching(v)' <=> k = "fetch"
<1>1. /\ k \in Locations /\ k \notin Emptied /\ k \notin Holding /\ k \notin Putting
      /\ k \notin {"found", "own", "ownTail"} /\ k \notin {"own", "ownTail"}
      /\ k # "ownTail" /\ k # "publish" /\ k \notin {"write", "publish"} /\ k # "slow"
      /\ k \notin {"get", "getCAS"} /\ k # "getCAS" /\ k \notin Stealing
      /\ k \notin {"global", "trylock"} /\ k \notin {"copy", "grabCAS"}
  BY DEF Locations, Emptied, Holding, Putting, Stealing
<1>2. pc[v] # "fetch" /\ pc[v] # "run"
  BY DEF Putting
<1>3. (Fetching(v)' <=> k = "fetch") /\ (Running(v)' <=> k = "run")
  BY Zenon, <1>1 DEF Fetching, Running
<1>4. (Fetching(v) <=> k = "fetch") /\ (Running(v) <=> k = "run")
  BY Zenon, <1>2 DEF Fetching, Running
<1>5. Locals(v)'
  <2>1. l.candidate # NULL => Fetching(v)'
    BY Zenon, <1>3, <1>4
  <2> QED BY Zenon, <1>1, <2>1 DEF Locals
<1>6. Owned(v)' /\ Theft(v)'
  BY Zenon, <1>1 DEF Owned, Theft, Stealing
<1>7. Runner(v)'
  <2>1. Runner(v) /\ (Running(v)' <=> Running(v))
    BY Zenon, <1>3, <1>4, QInvIs
  <2> QED BY Zenon, <2>1 DEF Runner
<1> QED BY Zenon, <1>1, <1>3, <1>4, <1>5, <1>6, <1>7

\* __runqput publishes the coroutine it has written.
LEMMA PutPublishQInv ==
  ASSUME QInv, NEW v \in Vpus, PutPublish(v)
  PROVE  QInv'
<1> DEFINE k == loc[v].ret
           l == [loc[v] EXCEPT !.head = 0, !.task = NULL]
           c == loc[v].task
           h == runqtail[v]
<1>1. /\ pc[v] = "publish" /\ pc' = [pc EXCEPT ![v] = k] /\ loc' = [loc EXCEPT ![v] = l]
      /\ runqtail' = [runqtail EXCEPT ![v] = Plus(@, 1)]
      /\ UNCHANGED <<shape, runqhead, runq>> /\ UNCHANGED <<global, coroutines>>
  BY Zenon DEF PutPublish, Move
<1>2. /\ loc[v] \in LocalsType /\ c \in Tasks /\ k \in {"run", "poll", "fetch"}
      /\ Fetching(v) <=> k = "fetch"
      /\ loc[v].candidate # NULL <=> Fetching(v)
      /\ Fetching(v) => Size(v) + loc[v].n + 1 <= Capacity - 2
      /\ pc[v] \notin Holding
  BY Zenon, <1>1, PutIs
<1>3. Size(v) < Capacity /\ runq[v][Slot(h)] = c
  BY Zenon, <1>1, QInvIs DEF Owned
<1>4. /\ shape \in Shapes /\ h \in Counters /\ NULL \notin Tasks /\ Size(v) \in Counters
      /\ runqhead[v] \in Counters
  BY Zenon, VpuTypes
<1>5. l \in LocalsType /\ l.task = NULL /\ l.candidate = loc[v].candidate /\ l.n = loc[v].n
  <2>1. 0 \in 0..(Modulus - 1)
    BY RunQueueAssumption
  <2> QED BY Zenon, <1>2, <2>1 DEF LocalsType
<1>6. /\ pc'[v] = k /\ loc'[v] = l
      /\ \A y \in Vpus : y # v => pc'[y] = pc[y] /\ loc'[y] = loc[y]
  BY Zenon, <1>1, QInvIs DEF TypeOK
<1>7. /\ gq' = gq /\ glock' = glock /\ current' = current /\ status' = status
      /\ shape' = shape /\ Capacity' = Capacity
  BY Zenon, <1>1 DEF global, coroutines, Capacity
<1>8. Plus(h, 0) = h /\ Plus(h, 1 - 1) = h /\ \A i \in 1..1 : i = 1
  <2>1. h \in 0..(Modulus - 1) /\ Modulus \in Nat
    BY Zenon, <1>4, RunQueueAssumption DEF Counters
  <2>2. PICK t \in 0..(Modulus - 1) : t = h
    BY Zenon, <2>1
  <2>3. (t + 0) % Modulus = t /\ 1 - 1 = 0 /\ \A i \in 1..1 : i = 1
    BY <2>1
  <2> QED BY Zenon, <2>2, <2>3 DEF Plus
<1>9. 1 \in 0..Capacity /\ Size(v) + 1 <= Capacity
  BY <1>3, <1>4, CapacityIs DEF Counters
<1>10. Added(v, 1)
  <2>1. \A i \in 1..1 : runq[v][Slot(Plus(runqtail[v], i - 1))] # NULL
    BY Zenon, <1>2, <1>3, <1>4, <1>8
  <2> QED BY Zenon, <1>1, <1>9, <2>1 DEF Added
<1> HIDE DEF l, k, c
<1>11. /\ k \in Locations /\ k \notin Emptied /\ k \notin Holding
       /\ Locals(v)' /\ Owned(v)' /\ Theft(v)' /\ Runner(v)'
       /\ Fetching(v)' <=> Fetching(v)
       /\ Fetching(v)' <=> k = "fetch"
  <2>1. pc[v] \in Putting
    BY <1>1 DEF Putting
  <2>2. k = loc[v].ret
    BY Zenon DEF k
  <2> QED BY Zenon, <1>2, <1>5, <1>6, <1>7, <2>1, <2>2, PutReturn
<1>12. Size(v)' = Size(v) + 1
  BY Zenon, <1>9, <1>10, AddedIs
<1>13. Fetch(v)'
  <2>1. Fetch(v)
    BY Zenon, QInvIs
  <2>2. Fetching(v) => loc[v].n <= Len(gq)
    BY Zenon, <2>1 DEF Fetch
  <2>3. Fetching(v) => Size(v)' + loc[v].n + 0 <= Capacity - 2
    <3>1. loc[v].n \in Nat
      BY <1>2 DEF LocalsType
    <3>2. Size(v)' + loc[v].n + 0 = Size(v) + loc[v].n + 1
      BY <1>4, <1>12, <3>1 DEF Counters
    <3> QED BY Zenon, <1>2, <3>2
  <2>4. k = "fetch" => k \notin {"slow", "slowAdd"}
    OBVIOUS
  <2>5. glock = v <=> Fetching(v)
    BY Zenon, <2>1 DEF Fetch
  <2> QED BY Zenon, <1>2, <1>5, <1>6, <1>7, <1>11, <2>2, <2>3, <2>4, <2>5 DEF Fetch
<1>14. ASSUME NEW t \in Tasks
       PROVE  (At(t) => At(t)') /\ (Nowhere(t) => Nowhere(t)')
  <2> DEFINE N == {j \in 1..1 : runq[v][Slot(Plus(runqtail[v], j - 1))] = t}
  <2>1. InRings(t)' = InRings(t) \cup {<<v, Plus(runqtail[v], i - 1)>> : i \in N}
    BY SMT, <1>9, <1>10, AddedPlaces
  <2>2. N = IF t = c THEN {1} ELSE {}
    <3>1. 1 \in 1..1
      OBVIOUS
    <3> QED BY Zenon, <1>3, <1>8, <3>1
  <2> HIDE DEF N
  <2>3. InRings(t)' = IF t = c THEN InRings(t) \cup {<<v, h>>} ELSE InRings(t)
    BY Zenon, <1>8, <2>1, <2>2
  <2>4. AsTask(t)' = AsTask(t) \ {v} /\ (v \in AsTask(t) <=> t = c)
    BY Zenon, <1>4, <1>5, <1>6 DEF AsTask, c
  <2>5. InGlobal(t)' = InGlobal(t) /\ AsCandidate(t)' = AsCandidate(t)
    BY Zenon, <1>5, <1>6, <1>7 DEF InGlobal, AsCandidate
  <2>6. InTemps(t)' = InTemps(t)
    BY Zenon, <1>2, <1>6, <1>7, <1>11, TempsKept
  <2>7. CASE t = c
    <3>1. InRings(t)' = InRings(t) \cup {<<v, h>>} /\ v \in AsTask(t)
      BY Zenon, <2>3, <2>4, <2>7
    <3>2. ~Nowhere(t)
      BY Zenon, <3>1 DEF Nowhere
    <3>3. ASSUME At(t)
          PROVE  /\ InRings(t)' = {<<v, h>>} /\ AsTask(t)' = {}
                 /\ InGlobal(t) = {} /\ AsCandidate(t) = {} /\ InTemps(t) = {}
      BY Zenon, <2>4, <3>1, <3>3 DEF At, OneOf
    <3> QED BY Zenon, <2>5, <2>6, <3>2, <3>3 DEF At, OneOf
  <2>8. CASE t # c
    <3>1. InRings(t)' = InRings(t) /\ AsTask(t)' = AsTask(t)
      BY Zenon, <2>3, <2>4, <2>8
    <3> QED BY Zenon, <2>5, <2>6, <3>1 DEF At, Nowhere
  <2> QED BY Zenon, <2>7, <2>8
<1>15. QueuedExactlyOnce'
  BY Zenon, <1>7, <1>14, QInvIs, OnceKept
<1> QED BY Zenon, <1>1, <1>5, <1>9, <1>10, <1>11, <1>13, <1>15, TailStep

\* What the VPUs hold in temp, when v ends to.
LEMMA TempsLeft ==
  ASSUME shape' = shape, NEW t, NEW v \in Vpus, pc[v] \in Holding, pc'[v] \notin Holding,
         \A y \in Vpus : y # v => pc'[y] = pc[y] /\ loc'[y] = loc[y],
         Capacity \in Nat, Len(loc[v].temp) \in 0..Capacity
  PROVE  /\ InTemps(t)' = {x \in InTemps(t) : x[1] # v}
         /\ \A i : <<v, i>> \in InTemps(t) <=> i \in 1..Len(loc[v].temp) /\ loc[v].temp[i] = t
         /\ \A x \in InTemps(t) : x[1] = v => \E i \in 1..Len(loc[v].temp) : x = <<v, i>>
<1>1. \A x \in Vpus \X (1..Capacity) : x[1] \in Vpus /\ x[2] \in 1..Capacity /\ x = <<x[1], x[2]>>
  OBVIOUS
<1>2. \A i : /\ <<v, i>> \in Vpus \X (1..Capacity) <=> i \in 1..Capacity
             /\ <<v, i>>[1] = v /\ <<v, i>>[2] = i
  OBVIOUS
<1>3. \A i : i \in 1..Len(loc[v].temp) <=> i \in 1..Capacity /\ i <= Len(loc[v].temp)
  OBVIOUS
<1>4. Capacity' = Capacity
  BY Zenon DEF Capacity
<1>5. InTemps(t)' = {x \in InTemps(t) : x[1] # v}
  BY Zenon, <1>1, <1>4 DEF InTemps
<1>6. \A i : <<v, i>> \in InTemps(t) <=> i \in 1..Len(loc[v].temp) /\ loc[v].temp[i] = t
  BY Zenon, <1>2, <1>3 DEF InTemps
<1>7. \A x \in InTemps(t) : x[1] = v => \E i \in 1..Len(loc[v].temp) : x = <<v, i>>
  <2>1. ASSUME NEW x \in InTemps(t), x[1] = v
        PROVE  \E i \in 1..Len(loc[v].temp) : x = <<v, i>>
    <3>1. x \in Vpus \X (1..Capacity) /\ x[2] <= Len(loc[x[1]].temp)
      BY Zenon DEF InTemps
    <3>2. x[2] \in 1..Len(loc[v].temp) /\ x = <<v, x[2]>>
      BY Zenon, <1>1, <1>3, <2>1, <3>1
    <3> QED BY Zenon, <3>2
  <2> QED BY Zenon, <2>1
<1> QED BY Zenon, <1>5, <1>6, <1>7

\* A thief publishes its loot.
LEMMA StealOwnTailQInv ==
  ASSUME QInv, NEW v \in Vpus, StealOwnTail(v)
  PROVE  QInv'
<1> DEFINE k == "found"
           l == [NoLocals EXCEPT !.candidate = loc[v].candidate]
           s == loc[v].temp
           m == Len(s)
           p(i) == Plus(runqtail[v], i - 1)
<1>1. /\ pc[v] = "ownTail" /\ pc' = [pc EXCEPT ![v] = k] /\ loc' = [loc EXCEPT ![v] = l]
      /\ runqtail' = [runqtail EXCEPT ![v] = Plus(@, m)]
      /\ UNCHANGED <<shape, runqhead, runq>> /\ UNCHANGED <<global, coroutines>>
  BY Zenon DEF StealOwnTail, Move
<1>2. /\ loc[v].task = NULL /\ loc[v].candidate \in Tasks
      /\ glock # v /\ current[v] = NULL /\ Size(v) = 0 /\ pc[v] \in Holding
      /\ m \in 0..(Capacity - 1) /\ m \in Nat
      /\ \A i \in 1..m : s[i] \in Tasks /\ s[i] # NULL
  BY Zenon, <1>1, OwnIs
<1>3. \A i \in 1..m : runq[v][Slot(p(i))] = s[i]
  BY Zenon, <1>1, QInvIs DEF Owned
<1>4. l \in LocalsType /\ l.task = NULL /\ l.candidate = loc[v].candidate
  BY <1>2, NoLocalsIs DEF LocalsType
<1>5. shape \in Shapes /\ NULL \notin Tasks
  BY Zenon, VpuTypes
<1>6. /\ Capacity \in Nat /\ m \in 0..Capacity /\ Size(v) + m <= Capacity
      /\ m \in 0..Modulus
  <2>1. Capacity \in Nat /\ Modulus >= 2 * Capacity /\ Modulus \in Nat
    BY Zenon, <1>5, CapacityIs
  <2> QED BY <1>2, <2>1
<1> HIDE DEF l, k, s
<1>7. Added(v, m)
  <2>1. \A i \in 1..m : runq[v][Slot(Plus(runqtail[v], i - 1))] # NULL
    BY Zenon, <1>2, <1>3
  <2> HIDE DEF m
  <2> QED BY Zenon, <1>1, <1>6, <2>1 DEF Added
<1>8. /\ pc'[v] = k /\ loc'[v] = l
      /\ \A y \in Vpus : y # v => pc'[y] = pc[y] /\ loc'[y] = loc[y]
  BY Zenon, <1>1, QInvIs DEF TypeOK
<1>9. /\ gq' = gq /\ glock' = glock /\ current' = current /\ status' = status
      /\ shape' = shape /\ Capacity' = Capacity
  BY Zenon, <1>1 DEF global, coroutines, Capacity
<1>10. /\ k \in Locations /\ k \notin Emptied /\ k \notin Holding /\ k \notin Putting
       /\ k \in {"found", "own", "ownTail"} /\ k \notin {"own", "ownTail"} /\ k # "fetch" /\ k # "run"
       /\ k # "ownTail" /\ k # "publish" /\ k \notin {"write", "publish"} /\ k # "slow"
       /\ k \notin {"get", "getCAS"} /\ k # "getCAS" /\ k \notin Stealing
       /\ k \notin {"global", "trylock"} /\ k \notin {"copy", "grabCAS"}
  BY DEF Locations, Emptied, Holding, Putting, Stealing, k
<1>11. ~Fetching(v)' /\ ~Running(v)'
  BY Zenon, <1>8, <1>10 DEF Fetching, Running
<1>12. Locals(v)'
  BY Zenon, <1>2, <1>4, <1>5, <1>8, <1>10 DEF Locals
<1>13. Owned(v)' /\ Theft(v)'
  BY Zenon, <1>8, <1>10 DEF Owned, Theft, Stealing
<1>14. Fetch(v)' /\ Runner(v)'
  BY Zenon, <1>2, <1>9, <1>11 DEF Fetch, Runner
<1>15. ASSUME NEW t \in Tasks
       PROVE  (At(t) => At(t)') /\ (Nowhere(t) => Nowhere(t)')
  <2> DEFINE N == {j \in 1..m : runq[v][Slot(p(j))] = t}
  <2>1. InRings(t)' = InRings(t) \cup {<<v, p(i)>> : i \in N}
    <3> HIDE DEF m
    <3> QED BY SMT, <1>6, <1>7, AddedPlaces
  <2>2. /\ InTemps(t)' = {x \in InTemps(t) : x[1] # v}
        /\ \A i : <<v, i>> \in InTemps(t) <=> i \in 1..m /\ s[i] = t
        /\ \A x \in InTemps(t) : x[1] = v => \E i \in 1..m : x = <<v, i>>
    <3>1. pc'[v] \notin Holding
      BY Zenon, <1>8, <1>10
    <3>2. Len(loc[v].temp) \in 0..Capacity /\ s = loc[v].temp
      BY Zenon, <1>6 DEF s
    <3>3. \A y \in Vpus : y # v => pc'[y] = pc[y] /\ loc'[y] = loc[y]
      BY Zenon, <1>8
    <3>4. /\ InTemps(t)' = {x \in InTemps(t) : x[1] # v}
          /\ \A i : <<v, i>> \in InTemps(t) <=> i \in 1..Len(loc[v].temp) /\ loc[v].temp[i] = t
          /\ \A x \in InTemps(t) : x[1] = v => \E i \in 1..Len(loc[v].temp) : x = <<v, i>>
      BY SMT, <1>2, <1>6, <1>9, <3>1, <3>2, <3>3, TempsLeft
    <3> QED BY Zenon, <3>2, <3>4
  <2>3. AsTask(t)' = AsTask(t) /\ InGlobal(t)' = InGlobal(t) /\ AsCandidate(t)' = AsCandidate(t)
    <3>0. \A y \in Vpus : loc'[y].task = loc[y].task /\ loc'[y].candidate = loc[y].candidate
      BY Zenon, <1>2, <1>4, <1>8
    <3>1. AsTask(t)' = AsTask(t)
      BY Zenon, <3>0 DEF AsTask
    <3>2. AsCandidate(t)' = AsCandidate(t)
      BY Zenon, <3>0 DEF AsCandidate
    <3>3. InGlobal(t)' = InGlobal(t)
      BY Zenon, <1>9 DEF InGlobal
    <3> QED BY Zenon, <3>1, <3>2, <3>3
  <2>4. \A i : i \in N <=> i \in 1..m /\ s[i] = t
    BY Zenon, <1>3
  <2> HIDE DEF N, p, m
  <2>5. CASE N = {}
    <3>1. InTemps(t)' = InTemps(t) /\ InRings(t)' = InRings(t)
      BY Zenon, <2>1, <2>2, <2>4, <2>5
    <3> QED BY Zenon, <2>3, <3>1 DEF At, Nowhere
  <2>6. CASE N # {}
    <3>1. PICK i \in N : TRUE
      BY Zenon, <2>6
    <3>2. <<v, i>> \in InTemps(t)
      BY Zenon, <2>2, <2>4, <3>1
    <3>3. ~Nowhere(t)
      BY Zenon, <3>2 DEF Nowhere
    <3>4. ASSUME At(t)
          PROVE  At(t)'
      <4>1. /\ InTemps(t) = {<<v, i>>} /\ InRings(t) = {} /\ InGlobal(t) = {} /\ AsTask(t) = {}
            /\ AsCandidate(t) = {}
        BY Zenon, <3>2, <3>4 DEF At, OneOf
      <4>2. \A j \in N : j = i
        <5>1. ASSUME NEW j \in N
              PROVE  j = i
          <6>1. <<v, j>> = <<v, i>>
            BY Zenon, <2>2, <2>4, <4>1
          <6> QED BY <6>1
        <5> QED BY Zenon, <5>1
      <4>3. InRings(t)' = {<<v, p(i)>>}
        BY Zenon, <2>1, <3>1, <4>1, <4>2
      <4>4. InTemps(t)' = {}
        <5>1. <<v, i>>[1] = v
          OBVIOUS
        <5> QED BY Zenon, <2>2, <4>1, <5>1
      <4> QED BY Zenon, <2>3, <4>1, <4>3, <4>4 DEF At, OneOf
    <3> QED BY Zenon, <3>3, <3>4
  <2> QED BY Zenon, <2>5, <2>6
<1>16. QueuedExactlyOnce'
  BY Zenon, <1>9, <1>15, QInvIs, OnceKept
<1> QED BY Zenon, <1>1, <1>4, <1>6, <1>7, <1>10, <1>12, <1>13, <1>14, <1>16, TailStep
-----------------------------------------------------------------------------
(* Steps on the global queue and on the coroutines *)

\* Where a coroutine is in a queue.
In(q, t) == {i \in DOMAIN q : q[i] = t}

\* A coroutine joins a queue at its end.
LEMMA AppendIs ==
  ASSUME NEW q \in Seq(Tasks), NEW c \in Tasks
  PROVE  /\ Append(q, c) \in Seq(Tasks)
         /\ In(Append(q, c), c) = In(q, c) \cup {Len(q) + 1}
         /\ \A t \in Tasks : t # c => In(Append(q, c), t) = In(q, t)
<1>1. /\ Append(q, c) \in Seq(Tasks) /\ DOMAIN Append(q, c) = 1..(Len(q) + 1)
      /\ \A i \in 1..Len(q) : Append(q, c)[i] = q[i]
      /\ Append(q, c)[Len(q) + 1] = c
      /\ DOMAIN q = 1..Len(q) /\ Len(q) \in Nat
  OBVIOUS
<1>2. \A i : i \in 1..(Len(q) + 1) <=> i \in 1..Len(q) \/ i = Len(q) + 1
  BY <1>1
<1> QED BY Zenon, <1>1, <1>2 DEF In

\* The coroutine at the head leaves a queue.
LEMMA TailIs ==
  ASSUME NEW q \in Seq(Tasks), q # <<>>
  PROVE  /\ Tail(q) \in Seq(Tasks) /\ Head(q) \in Tasks /\ Len(Tail(q)) = Len(q) - 1
         /\ 1 \in In(q, Head(q))
         /\ \A t : /\ \A i \in In(Tail(q), t) : i + 1 \in In(q, t) /\ i + 1 # 1 /\ i \in Int
                   /\ \A i \in In(q, t) : i # 1 => i - 1 \in In(Tail(q), t) /\ i \in Int
                   /\ 1 \in In(q, t) => t = Head(q)
<1>1. /\ Tail(q) \in Seq(Tasks) /\ Head(q) \in Tasks /\ Len(Tail(q)) = Len(q) - 1
      /\ DOMAIN q = 1..Len(q) /\ Len(q) \in Nat /\ Len(q) > 0 /\ q[1] = Head(q)
      /\ DOMAIN Tail(q) = 1..(Len(q) - 1)
      /\ \A i \in 1..(Len(q) - 1) : Tail(q)[i] = q[i + 1]
  OBVIOUS
<1>2. /\ \A i \in 1..(Len(q) - 1) : i + 1 \in 1..Len(q) /\ i + 1 # 1 /\ i \in Int
      /\ \A i \in 1..Len(q) : i # 1 => i - 1 \in 1..(Len(q) - 1) /\ (i - 1) + 1 = i /\ i \in Int
      /\ 1 \in 1..Len(q)
  BY <1>1
<1> QED BY Zenon, <1>1, <1>2 DEF In

\* What is queued once stays so when another coroutine leaves; the coroutine at the
\* head is gone when it leaves.
LEMMA TailOnce ==
  ASSUME NEW q \in Seq(Tasks), q # <<>>, NEW t
  PROVE  /\ t # Head(q) /\ In(q, t) = {} => In(Tail(q), t) = {}
         /\ t # Head(q) /\ (\E x : In(q, t) = {x}) => \E x : In(Tail(q), t) = {x}
         /\ t = Head(q) /\ (\E x : In(q, t) = {x}) => In(Tail(q), t) = {}
         /\ t = Head(q) => In(q, t) # {}
<1>1. /\ 1 \in In(q, Head(q))
      /\ \A i \in In(Tail(q), t) : i + 1 \in In(q, t) /\ i + 1 # 1 /\ i \in Int
      /\ \A i \in In(q, t) : i # 1 => i - 1 \in In(Tail(q), t) /\ i \in Int
      /\ 1 \in In(q, t) => t = Head(q)
  BY Zenon, TailIs
<1>2. t # Head(q) /\ In(q, t) = {} => In(Tail(q), t) = {}
  BY Zenon, <1>1
<1>3. ASSUME t # Head(q), NEW x, In(q, t) = {x}
      PROVE  In(Tail(q), t) = {x - 1}
  <2>1. x # 1
    BY Zenon, <1>1, <1>3
  <2>2. x - 1 \in In(Tail(q), t) /\ x \in Int
    BY Zenon, <1>1, <1>3, <2>1
  <2>3. ASSUME NEW i \in In(Tail(q), t)
        PROVE  i = x - 1
    <3>1. i + 1 = x /\ i \in Int
      BY Zenon, <1>1, <1>3
    <3> QED BY <3>1
  <2> QED BY Zenon, <2>2, <2>3
<1>4. ASSUME t = Head(q), NEW x, In(q, t) = {x}
      PROVE  In(Tail(q), t) = {}
  <2>1. x = 1
    BY Zenon, <1>1, <1>4
  <2> QED BY Zenon, <1>1, <1>4, <2>1
<1>5. t = Head(q) => In(q, t) # {}
  BY Zenon, <1>1
<1>6. t # Head(q) /\ (\E x : In(q, t) = {x}) => \E x : In(Tail(q), t) = {x}
  BY Zenon, <1>3
<1>7. t = Head(q) /\ (\E x : In(q, t) = {x}) => In(Tail(q), t) = {}
  BY Zenon, <1>4
<1> QED BY Zenon, <1>2, <1>5, <1>6, <1>7

\* A range joins a queue.
LEMMA RangeIs ==
  ASSUME NEW q \in Seq(Tasks), NEW s \in Seq(Tasks), NEW t
  PROVE  /\ q \o s \in Seq(Tasks)
         /\ In(q \o s, t) = In(q, t) \cup {Len(q) + i : i \in In(s, t)}
<1>1. /\ q \o s \in Seq(Tasks) /\ DOMAIN (q \o s) = 1..(Len(q) + Len(s))
      /\ \A i \in 1..Len(q) : (q \o s)[i] = q[i]
      /\ \A i \in 1..Len(s) : (q \o s)[Len(q) + i] = s[i]
      /\ DOMAIN q = 1..Len(q) /\ Len(q) \in Nat /\ DOMAIN s = 1..Len(s) /\ Len(s) \in Nat
  OBVIOUS
<1>2. /\ \A i \in 1..Len(q) : i \in 1..(Len(q) + Len(s))
      /\ \A i \in 1..Len(s) : Len(q) + i \in 1..(Len(q) + Len(s))
      /\ \A i \in 1..(Len(q) + Len(s)) :
           i \in 1..Len(q) \/ (i - Len(q) \in 1..Len(s) /\ i = Len(q) + (i - Len(q)))
  BY <1>1
<1>3. ASSUME NEW i \in In(q \o s, t), i \notin In(q, t)
      PROVE  \E j \in In(s, t) : i = Len(q) + j
  <2>1. i \in 1..(Len(q) + Len(s)) /\ (q \o s)[i] = t
    BY Zenon, <1>1 DEF In
  <2>2. i \notin 1..Len(q)
    BY Zenon, <1>1, <1>3, <2>1 DEF In
  <2>3. i - Len(q) \in 1..Len(s) /\ i = Len(q) + (i - Len(q))
    BY Zenon, <1>2, <2>1, <2>2
  <2>4. i - Len(q) \in In(s, t)
    BY Zenon, <1>1, <2>1, <2>3 DEF In
  <2> QED BY Zenon, <2>3, <2>4
<1>4. \A i \in In(q, t) : i \in In(q \o s, t)
  BY Zenon, <1>1, <1>2 DEF In
<1>5. \A j \in In(s, t) : Len(q) + j \in In(q \o s, t)
  BY Zenon, <1>1, <1>2 DEF In
<1> QED BY Zenon, <1>1, <1>3, <1>4, <1>5

\* A VPU that a step on the global queue or on a coroutine does not concern.
Apart(y) ==
  /\ pc'[y] = pc[y] /\ loc'[y] = loc[y] /\ current'[y] = current[y]
  /\ current[y] # NULL => status'[current[y]] = status[current[y]]
  /\ \/ glock # y /\ glock' # y
     \/ gq' = gq /\ glock' = glock

\* A step that leaves the rings alone keeps the invariant if it keeps the part of every VPU
\* it concerns, and where the coroutines are.
LEMMA GlobalStep ==
  ASSUME QInv, UNCHANGED <<shape, ring>>,
         pc' \in [Vpus -> Locations], loc' \in [Vpus -> LocalsType],
         gq' \in Seq(Tasks), glock' \in Vpus \cup {NULL},
         status' \in [Tasks -> {"WAIT", "READY", "RUNNING"}],
         current' \in [Vpus -> Tasks \cup {NULL}], budget' \in [Tasks -> Nat],
         \A y \in Vpus :
           \/ Apart(y)
           \/ /\ pc'[y] \in Emptied => Size(y) = 0
              /\ Locals(y)' /\ Owned(y)' /\ Fetch(y)' /\ Theft(y)' /\ Runner(y)',
         \A x, y \in Vpus : current'[x] = current'[y] /\ current'[x] # NULL => x = y,
         QueuedExactlyOnce'
  PROVE  QInv'
<1>1. shape' = shape /\ runqhead' = runqhead /\ runqtail' = runqtail /\ runq' = runq
  BY Zenon DEF ring
<1>2. TypeOK'
  BY Zenon, <1>1, QInvIs DEF TypeOK, Capacity
<1>3. ASSUME NEW y \in Vpus
      PROVE  VpuInv(y)'
  <2>1. CASE /\ pc'[y] \in Emptied => Size(y) = 0
             /\ Locals(y)' /\ Owned(y)' /\ Fetch(y)' /\ Theft(y)' /\ Runner(y)'
    <3>1. Ring(y)'
      BY Zenon, <1>1, <2>1, QInvIs, RingMove
    <3> QED BY Zenon, <2>1, <3>1 DEF VpuInv
  <2>2. CASE Apart(y)
    <3>1. /\ pc'[y] = pc[y] /\ loc'[y] = loc[y] /\ current'[y] = current[y]
          /\ current[y] # NULL => status'[current[y]] = status[current[y]]
          /\ \/ glock # y /\ glock' # y
             \/ gq' = gq /\ glock' = glock
      BY Zenon, <2>2 DEF Apart
    <3>2. Size(y)' = Size(y)
      BY Zenon, <1>1 DEF Size
    <3>3. Ring(y)' /\ Locals(y)'
      BY Zenon, <1>1, <3>1, QInvIs, RingFrame, LocalsFrame
    <3>4. pc[y] \in {"write", "publish"} => Size(y)' < Capacity
      BY Zenon, <3>2, QInvIs DEF Owned
    <3>5. Owned(y)'
      BY Zenon, <1>1, <3>1, <3>4, QInvIs, OwnedFrame
    <3>6. Fetch(y)'
      BY Zenon, <1>1, <3>1, <3>2, QInvIs, FetchFrame, FetchFree
    <3>7. Theft(y)' /\ Runner(y)'
      BY Zenon, <1>1, <3>1, QInvIs, TheftFrame, RunnerFrame
    <3> QED BY Zenon, <3>3, <3>5, <3>6, <3>7 DEF VpuInv
  <2> QED BY Zenon, <2>1, <2>2
<1> QED BY Zenon, <1>2, <1>3 DEF QInv

\* The types of what such a step leaves alone.
LEMMA OtherTypes ==
  ASSUME QInv
  PROVE  /\ pc \in [Vpus -> Locations] /\ loc \in [Vpus -> LocalsType]
         /\ gq \in Seq(Tasks) /\ glock \in Vpus \cup {NULL}
         /\ status \in [Tasks -> {"WAIT", "READY", "RUNNING"}]
         /\ current \in [Vpus -> Tasks \cup {NULL}] /\ budget \in [Tasks -> Nat]
         /\ shape \in Shapes /\ NULL \notin Vpus /\ NULL \notin Tasks
BY Zenon, QInvIs, RunQueueAssumption DEF TypeOK

\* A coroutine is queued once if it is READY, and nowhere if it is not.
LEMMA WhereIs ==
  ASSUME QInv, NEW t \in Tasks
  PROVE  (status[t] = "READY" => At(t)) /\ (status[t] # "READY" => Nowhere(t))
BY Zenon, QInvIs, OnceIs

\* The current coroutine of a VPU is RUNNING.
LEMMA CurrentIs ==
  ASSUME QInv, NEW y \in Vpus, current[y] # NULL
  PROVE  current[y] \in Tasks /\ status[current[y]] = "RUNNING" /\ Running(y)
<1>1. Runner(y) /\ current[y] \in Tasks \cup {NULL}
  BY Zenon, QInvIs, OtherTypes
<1> QED BY Zenon, <1>1 DEF Runner

\* The rings hold what they held.
LEMMA RingsKept ==
  ASSUME UNCHANGED <<shape, ring>>, NEW t
  PROVE  InRings(t)' = InRings(t)
<1>1. shape' = shape /\ runqhead' = runqhead /\ runqtail' = runqtail /\ runq' = runq
  BY Zenon DEF ring
<1> QED BY Zenon, <1>1 DEF InRings, Size, Slot, Capacity

\* The VPUs hold what they held.
LEMMA HeldKept ==
  ASSUME NEW t,
         \A y \in Vpus : loc'[y].task = loc[y].task /\ loc'[y].candidate = loc[y].candidate
  PROVE  AsTask(t)' = AsTask(t) /\ AsCandidate(t)' = AsCandidate(t)
BY Zenon DEF AsTask, AsCandidate

\* The global queue as a place.
LEMMA GlobalIs ==
  ASSUME NEW t
  PROVE  InGlobal(t) = In(gq, t) /\ InGlobal(t)' = In(gq', t)
BY Zenon DEF InGlobal, In

\* vpu_ready of a thread of the asynchronous pool: the coroutine goes to the global queue.
LEMMA AsyncReadyQInv ==
  ASSUME QInv, NEW c \in Tasks, AsyncReady(c)
  PROVE  QInv'
<1>1. /\ status[c] = "WAIT" /\ budget[c] > 0 /\ status' = [status EXCEPT ![c] = "READY"]
      /\ budget' = [budget EXCEPT ![c] = @ - 1]
      /\ glock = NULL /\ gq' = Append(gq, c) /\ glock' = glock /\ current' = current
      /\ pc' = pc /\ loc' = loc /\ UNCHANGED <<shape, ring>>
  BY Zenon DEF AsyncReady, MayReady, MakeReady
<1>2. /\ gq \in Seq(Tasks) /\ status \in [Tasks -> {"WAIT", "READY", "RUNNING"}]
      /\ budget \in [Tasks -> Nat] /\ NULL \notin Vpus
  BY Zenon, OtherTypes
<1>3. /\ status' \in [Tasks -> {"WAIT", "READY", "RUNNING"}] /\ status'[c] = "READY"
      /\ \A t \in Tasks : t # c => status'[t] = status[t]
  BY Zenon, <1>1, <1>2
<1>4. budget' \in [Tasks -> Nat]
  BY <1>1, <1>2
<1>5. /\ gq' \in Seq(Tasks) /\ In(gq', c) = In(gq, c) \cup {Len(gq) + 1}
      /\ \A t \in Tasks : t # c => In(gq', t) = In(gq, t)
  BY Zenon, <1>1, <1>2, AppendIs
<1>6. ASSUME NEW y \in Vpus
      PROVE  Apart(y)
  <2>1. current[y] # NULL => current[y] \in Tasks /\ current[y] # c
    BY Zenon, <1>1, CurrentIs
  <2> QED BY Zenon, <1>1, <1>2, <1>3, <2>1 DEF Apart
<1>7. QueuedExactlyOnce'
  <2>1. ASSUME NEW t \in Tasks
        PROVE  IF status'[t] = "READY" THEN At(t)' ELSE Nowhere(t)'
    <3>1. InRings(t)' = InRings(t) /\ InTemps(t)' = InTemps(t)
      BY Zenon, <1>1, RingsKept, TempsKept
    <3>2. AsTask(t)' = AsTask(t) /\ AsCandidate(t)' = AsCandidate(t)
      BY Zenon, <1>1 DEF AsTask, AsCandidate
    <3>3. CASE t # c
      <4>1. InGlobal(t)' = InGlobal(t)
        BY Zenon, <1>5, <3>3, GlobalIs
      <4> QED BY Zenon, <1>3, <3>1, <3>2, <3>3, <4>1, WhereIs DEF At, Nowhere
    <3>4. CASE t = c
      <4>1. Nowhere(t)
        BY Zenon, <1>1, <3>4, WhereIs
      <4>2. InGlobal(t)' = {Len(gq) + 1}
        <5>1. InGlobal(t) = {} /\ InGlobal(t) = In(gq, c) /\ InGlobal(t)' = In(gq', c)
          BY Zenon, <3>4, <4>1, GlobalIs DEF Nowhere
        <5> QED BY Zenon, <1>5, <5>1
      <4> QED BY Zenon, <1>3, <3>1, <3>2, <3>4, <4>1, <4>2 DEF At, Nowhere, OneOf
    <3> QED BY Zenon, <3>3, <3>4
  <2> QED BY Zenon, <2>1, OnceIs
<1>8. \A x, y \in Vpus : current'[x] = current'[y] /\ current'[x] # NULL => x = y
  BY Zenon, <1>1, QInvIs
<1> QED BY Zenon, <1>1, <1>3, <1>4, <1>5, <1>6, <1>7, <1>8, OtherTypes, GlobalStep

\* What a VPU knows when it begins to look for a coroutine, has found one or runs it.
LEMMA FreshIs ==
  ASSUME NEW v \in Vpus, NEW k \in {"get", "run", "found", "steal"}, pc'[v] = k,
         loc'[v].task = NULL, loc'[v].candidate # NULL <=> k = "found",
         k = "get" => loc'[v].ret \in {"poll", "global"}
  PROVE  /\ k \in Locations /\ k \notin Holding
         /\ k \in Emptied => k = "steal"
         /\ Locals(v)' /\ Owned(v)' /\ Theft(v)'
         /\ ~Fetching(v)' /\ (Running(v)' <=> k = "run")
<1>1. /\ k \in Locations /\ k \notin Holding
      /\ k \in Emptied => k = "steal"
      /\ k \notin Putting /\ k \notin {"own", "ownTail"} /\ k # "fetch"
      /\ k \in {"found", "own", "ownTail"} => k = "found"
      /\ k = "found" => k \in {"found", "own", "ownTail"}
      /\ k # "ownTail" /\ k # "publish" /\ k \notin {"write", "publish"} /\ k # "slow"
  BY DEF Locations, Holding, Emptied, Putting
<1>2. /\ k # "getCAS" /\ k \notin Stealing /\ k \notin {"global", "trylock"}
      /\ k \notin {"copy", "grabCAS"}
      /\ k \in {"get", "getCAS"} => k = "get"
  BY DEF Stealing
<1>3. ~Fetching(v)' /\ (Running(v)' <=> k = "run")
  BY Zenon, <1>1 DEF Fetching, Running
<1>4. Locals(v)'
  BY Zenon, <1>1, <1>2 DEF Locals
<1>5. Owned(v)' /\ Theft(v)'
  BY Zenon, <1>1, <1>2 DEF Owned, Theft, Stealing
<1> QED BY Zenon, <1>1, <1>3, <1>4, <1>5

\* No two VPUs run the same coroutine after v has begun to run c, or nothing.
LEMMA CurrentOne ==
  ASSUME QInv, NEW v \in Vpus, NEW c, current'[v] = c,
         \A y \in Vpus : y # v => current'[y] = current[y],
         c = NULL \/ \A y \in Vpus : y # v => current[y] # c
  PROVE  \A x, y \in Vpus : current'[x] = current'[y] /\ current'[x] # NULL => x = y
<1>1. ASSUME NEW x \in Vpus, NEW y \in Vpus, current'[x] = current'[y], current'[x] # NULL, x # y
      PROVE  FALSE
  <2>1. CASE x = v
    BY Zenon, <1>1, <2>1
  <2>2. CASE y = v
    BY Zenon, <1>1, <2>2
  <2>3. CASE x # v /\ y # v
    <3>1. current[x] = current[y] /\ current[x] # NULL
      BY Zenon, <1>1, <2>3
    <3> QED BY Zenon, <1>1, <3>1, QInvIs
  <2> QED BY Zenon, <2>1, <2>2, <2>3
<1> QED BY Zenon, <1>1

\* core_sched runs its candidate.
LEMMA DispatchQInv ==
  ASSUME QInv, NEW v \in Vpus, Dispatch(v)
  PROVE  QInv'
<1> DEFINE c == loc[v].candidate
<1>1. /\ pc[v] = "found" /\ pc' = [pc EXCEPT ![v] = "run"] /\ loc' = [loc EXCEPT ![v] = NoLocals]
      /\ status' = [status EXCEPT ![c] = "RUNNING"] /\ current' = [current EXCEPT ![v] = c]
      /\ UNCHANGED <<shape, ring>> /\ gq' = gq /\ glock' = glock /\ budget' = budget
  BY Zenon DEF Dispatch, Move, global
<1>2. /\ pc \in [Vpus -> Locations] /\ loc \in [Vpus -> LocalsType]
      /\ status \in [Tasks -> {"WAIT", "READY", "RUNNING"}]
      /\ current \in [Vpus -> Tasks \cup {NULL}] /\ NULL \notin Tasks
  BY Zenon, OtherTypes
<1>3. c \in Tasks /\ loc[v].task = NULL /\ ~Fetching(v) /\ pc[v] \notin Holding
  <2>1. /\ pc[v] \in {"found", "own", "ownTail"} /\ pc[v] \notin Putting /\ pc[v] # "fetch"
        /\ pc[v] \notin Holding
    BY <1>1 DEF Putting, Holding
  <2>2. c # NULL /\ loc[v].task = NULL
    BY Zenon, <2>1, QInvIs DEF Locals
  <2>3. c \in Tasks \cup {NULL}
    <3>1. loc[v] \in LocalsType
      BY Zenon, <1>2
    <3> QED BY <3>1 DEF LocalsType
  <2> QED BY Zenon, <2>1, <2>2, <2>3 DEF Fetching
<1>4. At(c) /\ v \in AsCandidate(c) /\ status[c] = "READY"
  <2>1. v \in AsCandidate(c)
    BY Zenon DEF AsCandidate
  <2>2. ~Nowhere(c)
    BY Zenon, <2>1 DEF Nowhere
  <2> QED BY Zenon, <1>3, <2>1, <2>2, WhereIs
<1> HIDE DEF c
<1>5. /\ pc'[v] = "run" /\ loc'[v] = NoLocals /\ current'[v] = c /\ status'[c] = "RUNNING"
      /\ \A y \in Vpus : y # v => pc'[y] = pc[y] /\ loc'[y] = loc[y] /\ current'[y] = current[y]
      /\ \A t \in Tasks : t # c => status'[t] = status[t]
  BY Zenon, <1>1, <1>2, <1>3
<1>6. /\ "run" \in Locations /\ "run" \notin Holding /\ "run" \notin Emptied
      /\ Locals(v)' /\ Owned(v)' /\ Theft(v)' /\ ~Fetching(v)' /\ Running(v)'
  <2>1. "run" \in {"get", "run", "found", "steal"} /\ "run" # "found" /\ "run" # "get" /\ "run" # "steal"
    OBVIOUS
  <2>2. loc'[v].task = NULL /\ loc'[v].candidate = NULL
    BY Zenon, <1>5, NoLocalsIs
  <2> QED BY SMT, <1>5, <2>1, <2>2, FreshIs
<1>7. /\ pc' \in [Vpus -> Locations] /\ loc' \in [Vpus -> LocalsType]
      /\ status' \in [Tasks -> {"WAIT", "READY", "RUNNING"}]
      /\ current' \in [Vpus -> Tasks \cup {NULL}]
  <2>1. pc' \in [Vpus -> Locations] /\ loc' \in [Vpus -> LocalsType]
    BY Zenon, <1>1, <1>2, <1>6, NoLocalsIs
  <2>2. "RUNNING" \in {"WAIT", "READY", "RUNNING"} /\ c \in Tasks \cup {NULL}
    BY Zenon, <1>3
  <2> QED BY Zenon, <1>1, <1>2, <2>1, <2>2
<1>8. Fetch(v)' /\ Runner(v)'
  <2>1. glock # v
    BY Zenon, <1>3, QInvIs DEF Fetch
  <2> QED BY Zenon, <1>1, <1>2, <1>3, <1>5, <1>6, <2>1 DEF Fetch, Runner
<1>9. \A y \in Vpus : current[y] # NULL => current[y] \in Tasks /\ current[y] # c
  BY Zenon, <1>4, CurrentIs
<1>10. ASSUME NEW y \in Vpus, y # v
       PROVE  Apart(y)
  BY Zenon, <1>1, <1>5, <1>9, <1>10 DEF Apart
<1>11. \A x, y \in Vpus : current'[x] = current'[y] /\ current'[x] # NULL => x = y
  <2>1. \A y \in Vpus : y # v => current[y] # c
    BY Zenon, <1>2, <1>3, <1>9
  <2>2. \A y \in Vpus : y # v => current'[y] = current[y]
    BY Zenon, <1>5
  <2> QED BY SMT, <1>5, <2>1, <2>2, CurrentOne
<1>12. QueuedExactlyOnce'
  <2>1. ASSUME NEW t \in Tasks
        PROVE  IF status'[t] = "READY" THEN At(t)' ELSE Nowhere(t)'
    <3>1. InRings(t)' = InRings(t)
      BY Zenon, <1>1, RingsKept
    <3>2. InTemps(t)' = InTemps(t)
      BY Zenon, <1>1, <1>3, <1>5, <1>6, TempsKept
    <3>3. AsTask(t)' = AsTask(t)
      <4>1. \A y \in Vpus : loc'[y].task = loc[y].task
        BY Zenon, <1>3, <1>5, NoLocalsIs
      <4> QED BY Zenon, <4>1 DEF AsTask
    <3>4. AsCandidate(t)' = AsCandidate(t) \ {v} /\ (t # c => v \notin AsCandidate(t))
      <4>1. /\ loc'[v].candidate # t /\ loc[v].candidate = c
            /\ \A y \in Vpus : y # v => loc'[y].candidate = loc[y].candidate
        BY Zenon, <1>2, <1>5, NoLocalsIs DEF c
      <4> QED BY Zenon, <4>1 DEF AsCandidate
    <3>5. InGlobal(t)' = InGlobal(t)
      BY Zenon, <1>1 DEF InGlobal
    <3>6. CASE t # c
      <4>1. AsCandidate(t)' = AsCandidate(t)
        BY Zenon, <3>4, <3>6
      <4> QED BY Zenon, <1>5, <3>1, <3>2, <3>3, <3>5, <3>6, <4>1, WhereIs DEF At, Nowhere
    <3>7. CASE t = c
      <4>1. /\ AsCandidate(t) \ {v} = {} /\ InRings(t) = {} /\ InGlobal(t) = {} /\ AsTask(t) = {}
            /\ InTemps(t) = {}
        BY Zenon, <1>4, <3>7 DEF At, OneOf
      <4>2. Nowhere(t)'
        BY Zenon, <3>1, <3>2, <3>3, <3>4, <3>5, <4>1 DEF Nowhere
      <4>3. status'[t] # "READY"
        BY <1>5, <3>7
      <4> QED BY Zenon, <4>2, <4>3
    <3> QED BY Zenon, <3>6, <3>7
  <2> QED BY Zenon, <2>1, OnceIs
<1>13. budget' \in [Tasks -> Nat] /\ gq' \in Seq(Tasks) /\ glock' \in Vpus \cup {NULL}
  BY Zenon, <1>1, OtherTypes
<1>14. \A y \in Vpus :
         \/ Apart(y)
         \/ /\ pc'[y] \in Emptied => Size(y) = 0
            /\ Locals(y)' /\ Owned(y)' /\ Fetch(y)' /\ Theft(y)' /\ Runner(y)'
  BY Zenon, <1>5, <1>6, <1>8, <1>10
<1> QED BY Zenon, <1>1, <1>7, <1>11, <1>12, <1>13, <1>14, GlobalStep

\* What a VPU may rely on that runs a coroutine or polls.
LEMMA RunIs ==
  ASSUME QInv, NEW v \in Vpus, pc[v] \in {"run", "poll"}
  PROVE  /\ loc[v].task = NULL /\ loc[v].candidate = NULL /\ glock # v /\ pc[v] \notin Holding
         /\ Running(v) <=> pc[v] = "run"
<1>1. /\ pc[v] \notin Putting /\ pc[v] # "fetch" /\ pc[v] \notin Holding
      /\ pc[v] \notin {"found", "own", "ownTail"}
  BY DEF Putting, Holding
<1>2. ~Fetching(v) /\ (Running(v) <=> pc[v] = "run")
  BY Zenon, <1>1 DEF Fetching, Running
<1>3. loc[v].task = NULL /\ loc[v].candidate = NULL
  BY Zenon, <1>1, <1>2, QInvIs DEF Locals
<1>4. glock # v
  BY Zenon, <1>2, QInvIs DEF Fetch
<1> QED BY Zenon, <1>1, <1>2, <1>3, <1>4

\* A coroutine leaves its VPU, and is queued or waits.
LEMMA LeaveQInv ==
  ASSUME QInv, NEW v \in Vpus, NEW c \in Tasks, NEW st \in {"WAIT", "READY"},
         pc[v] = "run", c = current[v], pc' = [pc EXCEPT ![v] = "get"],
         loc' = [loc EXCEPT ![v] = NoLocals], status' = [status EXCEPT ![c] = st],
         current' = [current EXCEPT ![v] = NULL], UNCHANGED <<shape, ring, glock>>,
         budget' \in [Tasks -> Nat],
         IF st = "READY" THEN glock = NULL /\ gq' = Append(gq, c) ELSE gq' = gq
  PROVE  QInv'
<1>1. UNCHANGED <<shape, ring>> /\ glock' = glock /\ shape' = shape
  BY Zenon
<1>2. /\ pc \in [Vpus -> Locations] /\ loc \in [Vpus -> LocalsType]
      /\ status \in [Tasks -> {"WAIT", "READY", "RUNNING"}] /\ gq \in Seq(Tasks)
      /\ current \in [Vpus -> Tasks \cup {NULL}] /\ NULL \notin Tasks /\ NULL \notin Vpus
  BY Zenon, OtherTypes
<1>3. /\ loc[v].task = NULL /\ loc[v].candidate = NULL /\ glock # v /\ pc[v] \notin Holding
  BY Zenon, RunIs
<1>4. Nowhere(c) /\ c # NULL /\ status[c] = "RUNNING"
  <2>1. current[v] # NULL
    BY Zenon, <1>2
  <2>2. status[c] = "RUNNING"
    BY Zenon, <2>1, CurrentIs
  <2>3. status[c] # "READY"
    BY <2>2
  <2> QED BY Zenon, <1>2, <2>2, <2>3, WhereIs
<1>5. /\ pc'[v] = "get" /\ loc'[v] = NoLocals /\ current'[v] = NULL /\ status'[c] = st
      /\ \A y \in Vpus : y # v => pc'[y] = pc[y] /\ loc'[y] = loc[y] /\ current'[y] = current[y]
      /\ \A t \in Tasks : t # c => status'[t] = status[t]
  BY Zenon, <1>2
<1>6. /\ "get" \in Locations /\ "get" \notin Holding /\ "get" \notin Emptied
      /\ Locals(v)' /\ Owned(v)' /\ Theft(v)' /\ ~Fetching(v)' /\ ~Running(v)'
  <2>1. "get" \in {"get", "run", "found", "steal"} /\ "get" # "found" /\ "get" # "run" /\ "get" # "steal"
    OBVIOUS
  <2>2. loc'[v].task = NULL /\ loc'[v].candidate = NULL /\ loc'[v].ret \in {"poll", "global"}
    BY Zenon, <1>5, NoLocalsIs
  <2> QED BY SMT, <1>5, <2>1, <2>2, FreshIs
<1>7. /\ pc' \in [Vpus -> Locations] /\ loc' \in [Vpus -> LocalsType]
      /\ status' \in [Tasks -> {"WAIT", "READY", "RUNNING"}]
      /\ current' \in [Vpus -> Tasks \cup {NULL}]
  <2>1. pc' \in [Vpus -> Locations] /\ loc' \in [Vpus -> LocalsType]
    BY Zenon, <1>2, <1>6, NoLocalsIs
  <2>2. st \in {"WAIT", "READY", "RUNNING"}
    BY Zenon
  <2>3. status' \in [Tasks -> {"WAIT", "READY", "RUNNING"}]
    BY Zenon, <1>2, <2>2
  <2> QED BY Zenon, <1>2, <2>1, <2>3
<1>8. Fetch(v)' /\ Runner(v)'
  BY Zenon, <1>1, <1>3, <1>5, <1>6 DEF Fetch, Runner
<1>9. ASSUME NEW y \in Vpus, y # v
      PROVE  Apart(y)
  <2>1. current[y] # NULL => current[y] \in Tasks /\ current[y] # c
    BY Zenon, <1>9, CurrentIs, QInvIs
  <2>2. \/ glock # y /\ glock' # y
        \/ gq' = gq /\ glock' = glock
    BY Zenon, <1>1, <1>2
  <2> QED BY Zenon, <1>5, <1>9, <2>1, <2>2 DEF Apart
<1>10. \A x, y \in Vpus : current'[x] = current'[y] /\ current'[x] # NULL => x = y
  <2>1. \A y \in Vpus : y # v => current'[y] = current[y]
    BY Zenon, <1>5
  <2> QED BY SMT, <1>5, <2>1, CurrentOne
<1>11. /\ gq' \in Seq(Tasks)
       /\ \A t \in Tasks : t # c => In(gq', t) = In(gq, t)
       /\ st = "READY" => In(gq', c) = In(gq, c) \cup {Len(gq) + 1}
       /\ st # "READY" => In(gq', c) = In(gq, c)
  <2>1. CASE st = "READY"
    <3>1. gq' = Append(gq, c)
      BY Zenon, <2>1
    <3> DEFINE q == Append(gq, c)
    <3>2. /\ q \in Seq(Tasks) /\ In(q, c) = In(gq, c) \cup {Len(gq) + 1}
          /\ \A t \in Tasks : t # c => In(q, t) = In(gq, t)
      BY Zenon, <1>2, AppendIs
    <3>3. gq' = q
      BY Zenon, <3>1
    <3> HIDE DEF q
    <3> QED BY Zenon, <2>1, <3>2, <3>3
  <2>2. CASE st # "READY"
    <3>1. gq' = gq
      BY Zenon, <2>2
    <3> QED BY Zenon, <1>2, <2>2, <3>1
  <2> QED BY Zenon, <2>1, <2>2
<1>12. QueuedExactlyOnce'
  <2>1. ASSUME NEW t \in Tasks
        PROVE  IF status'[t] = "READY" THEN At(t)' ELSE Nowhere(t)'
    <3>1. InRings(t)' = InRings(t)
      BY Zenon, <1>1, RingsKept
    <3>2. InTemps(t)' = InTemps(t)
      <4>1. \A y \in Vpus : /\ pc[y] \in Holding <=> pc'[y] \in Holding
                            /\ pc[y] \in Holding => loc'[y] = loc[y]
        BY Zenon, <1>3, <1>5, <1>6
      <4> QED BY Zenon, <1>1, <4>1, TempsKept
    <3>3. AsTask(t)' = AsTask(t) /\ AsCandidate(t)' = AsCandidate(t)
      <4>1. \A y \in Vpus : loc'[y].task = loc[y].task /\ loc'[y].candidate = loc[y].candidate
        BY Zenon, <1>3, <1>5, NoLocalsIs
      <4> QED BY Zenon, <4>1, HeldKept
    <3>4. CASE t # c
      <4>1. InGlobal(t)' = InGlobal(t) /\ status'[t] = status[t]
        <5>1. In(gq', t) = In(gq, t) /\ status'[t] = status[t]
          BY Zenon, <1>5, <1>11, <3>4
        <5> QED BY Zenon, <5>1, GlobalIs
      <4> QED BY Zenon, <3>1, <3>2, <3>3, <4>1, WhereIs DEF At, Nowhere
    <3>5. CASE t = c
      <4>1. /\ InRings(c)' = {} /\ InTemps(c)' = {} /\ AsTask(c)' = {} /\ AsCandidate(c)' = {}
            /\ In(gq, c) = {}
        BY Zenon, <1>4, <3>1, <3>2, <3>3, <3>5, GlobalIs DEF Nowhere
      <4>2. CASE st = "READY"
        <5>1. InGlobal(c)' = {Len(gq) + 1}
          BY Zenon, <1>11, <4>1, <4>2, GlobalIs
        <5>2. At(c)'
          BY Zenon, <4>1, <5>1 DEF At, OneOf
        <5> QED BY Zenon, <1>5, <3>5, <4>2, <5>2
      <4>3. CASE st # "READY"
        <5>1. InGlobal(c)' = {}
          BY Zenon, <1>11, <4>1, <4>3, GlobalIs
        <5>2. Nowhere(c)'
          BY Zenon, <4>1, <5>1 DEF Nowhere
        <5> QED BY Zenon, <1>5, <3>5, <4>3, <5>2
      <4> QED BY Zenon, <4>2, <4>3
    <3> QED BY Zenon, <3>4, <3>5
  <2> QED BY Zenon, <2>1, OnceIs
<1>13. glock' \in Vpus \cup {NULL}
  BY Zenon, <1>1, OtherTypes
<1>14. \A y \in Vpus :
         \/ Apart(y)
         \/ /\ pc'[y] \in Emptied => Size(y) = 0
            /\ Locals(y)' /\ Owned(y)' /\ Fetch(y)' /\ Theft(y)' /\ Runner(y)'
  BY Zenon, <1>5, <1>6, <1>8, <1>9
<1> QED BY Zenon, <1>1, <1>7, <1>10, <1>11, <1>12, <1>13, <1>14, GlobalStep

\* A running coroutine yields or waits.
LEMMA CoreQInv ==
  ASSUME QInv, NEW v \in Vpus, CoreYield(v) \/ CoreWait(v)
  PROVE  QInv'
<1>1. pc[v] = "run"
  BY Zenon DEF CoreYield, CoreWait, Move
<1>2. current[v] \in Tasks
  <2>1. Runner(v) /\ Running(v) /\ current[v] \in Tasks \cup {NULL}
    <3>1. pc[v] \in {"run", "poll"}
      BY Zenon, <1>1
    <3> QED BY Zenon, <1>1, <3>1, RunIs, QInvIs, OtherTypes
  <2> QED BY Zenon, <2>1 DEF Runner
<1>3. budget \in [Tasks -> Nat]
  BY Zenon, OtherTypes
<1>4. CASE CoreYield(v)
  <2>1. /\ budget[current[v]] > 0 /\ budget' = [budget EXCEPT ![current[v]] = @ - 1]
    BY Zenon, <1>4 DEF CoreYield, MakeReady
  <2>2. budget' \in [Tasks -> Nat]
    BY <1>2, <1>3, <2>1
  <2>3. /\ pc' = [pc EXCEPT ![v] = "get"] /\ loc' = [loc EXCEPT ![v] = NoLocals]
        /\ status' = [status EXCEPT ![current[v]] = "READY"]
        /\ current' = [current EXCEPT ![v] = NULL] /\ UNCHANGED <<shape, ring, glock>>
        /\ glock = NULL /\ gq' = Append(gq, current[v])
    BY Zenon, <1>4 DEF CoreYield, Move, MakeReady
  <2> QED BY Zenon, <1>1, <1>2, <2>2, <2>3, LeaveQInv
<1>5. CASE CoreWait(v)
  <2>1. /\ pc' = [pc EXCEPT ![v] = "get"] /\ loc' = [loc EXCEPT ![v] = NoLocals]
        /\ status' = [status EXCEPT ![current[v]] = "WAIT"]
        /\ current' = [current EXCEPT ![v] = NULL] /\ UNCHANGED <<shape, ring, glock>>
        /\ gq' = gq /\ budget' \in [Tasks -> Nat]
    BY Zenon, <1>3, <1>5 DEF CoreWait, Move, global
  <2>2. "WAIT" # "READY"
    OBVIOUS
  <2> QED BY Zenon, <1>1, <1>2, <2>1, <2>2, LeaveQInv
<1> QED BY Zenon, <1>4, <1>5

\* What a VPU knows when it calls __runqput.
LEMMA CallIs ==
  ASSUME NEW v \in Vpus, pc'[v] = "put", loc'[v].task # NULL, loc'[v].ret # "global",
         loc'[v].candidate # NULL => loc'[v].ret = "fetch"
  PROVE  /\ Locals(v)' /\ Owned(v)' /\ Theft(v)'
         /\ Fetching(v)' <=> loc'[v].ret = "fetch"
         /\ Running(v)' <=> loc'[v].ret = "run"
<1> DEFINE k == "put"
<1>1. /\ k \in Putting /\ k # "slowAdd" /\ k \notin Holding /\ k \notin Stealing
      /\ k \notin {"found", "own", "ownTail"} /\ k \notin {"own", "ownTail"} /\ k # "fetch"
      /\ k # "run" /\ k # "ownTail" /\ k # "publish" /\ k \notin {"write", "publish"}
      /\ k # "slow" /\ k # "getCAS" /\ k \notin {"get", "getCAS"}
      /\ k \notin {"global", "trylock"} /\ k \notin {"copy", "grabCAS"}
  BY DEF Putting, Holding, Stealing
<1>2. pc'[v] = k
  OBVIOUS
<1> HIDE DEF k
<1>3. /\ Fetching(v)' <=> loc'[v].ret = "fetch"
      /\ Running(v)' <=> loc'[v].ret = "run"
  BY Zenon, <1>1, <1>2 DEF Fetching, Running
<1>4. Locals(v)'
  BY Zenon, <1>1, <1>2, <1>3 DEF Locals
<1>5. Owned(v)' /\ Theft(v)'
  BY Zenon, <1>1, <1>2 DEF Owned, Theft, Stealing
<1> QED BY Zenon, <1>3, <1>4, <1>5

\* vpu_ready on a VPU: the coroutine goes to the own ring.
LEMMA VpuReadyQInv ==
  ASSUME QInv, NEW v \in Vpus, NEW c \in Tasks, VpuReady(v, c)
  PROVE  QInv'
<1> DEFINE l == [NoLocals EXCEPT !.task = c, !.ret = pc[v]]
<1>1. /\ status[c] = "WAIT" /\ budget[c] > 0 /\ status' = [status EXCEPT ![c] = "READY"]
      /\ budget' = [budget EXCEPT ![c] = @ - 1] /\ pc[v] \in {"run", "poll"}
      /\ pc' = [pc EXCEPT ![v] = "put"] /\ loc' = [loc EXCEPT ![v] = l]
      /\ UNCHANGED <<shape, ring>> /\ shape' = shape
      /\ gq' = gq /\ glock' = glock /\ current' = current
  BY Zenon DEF VpuReady, MayReady, MakeReady, Move, global
<1>2. /\ pc \in [Vpus -> Locations] /\ loc \in [Vpus -> LocalsType]
      /\ status \in [Tasks -> {"WAIT", "READY", "RUNNING"}] /\ budget \in [Tasks -> Nat]
      /\ NULL \notin Tasks
  BY Zenon, OtherTypes
<1>3. /\ loc[v].task = NULL /\ loc[v].candidate = NULL /\ glock # v /\ pc[v] \notin Holding
      /\ Running(v) <=> pc[v] = "run"
  BY Zenon, <1>1, RunIs
<1>4. l \in LocalsType /\ l.task = c /\ l.candidate = NULL /\ l.ret = pc[v]
  BY Zenon, <1>1, NoLocalsIs DEF LocalsType, NoLocals
<1>5. Nowhere(c) /\ \A y \in Vpus : current[y] # NULL => current[y] \in Tasks /\ current[y] # c
  <2>1. status[c] # "READY" /\ status[c] # "RUNNING"
    BY <1>1
  <2> QED BY Zenon, <2>1, WhereIs, CurrentIs
<1> HIDE DEF l
<1>6. /\ pc'[v] = "put" /\ loc'[v] = l /\ status'[c] = "READY"
      /\ \A y \in Vpus : y # v => pc'[y] = pc[y] /\ loc'[y] = loc[y]
      /\ \A t \in Tasks : t # c => status'[t] = status[t]
  BY Zenon, <1>1, <1>2
<1>7. "put" \in Locations /\ "put" \notin Holding /\ "put" \notin Emptied
  BY DEF Locations, Holding, Emptied
<1>8. /\ Locals(v)' /\ Owned(v)' /\ Theft(v)' /\ ~Fetching(v)'
      /\ Running(v)' <=> Running(v)
  <2>1. /\ loc'[v].task # NULL /\ loc'[v].ret # "global" /\ loc'[v].ret # "fetch"
        /\ loc'[v].candidate = NULL /\ loc'[v].ret = pc[v]
    BY <1>1, <1>2, <1>4, <1>6
  <2> QED BY Zenon, <1>3, <1>6, <2>1, CallIs
<1>9. /\ pc' \in [Vpus -> Locations] /\ loc' \in [Vpus -> LocalsType]
      /\ status' \in [Tasks -> {"WAIT", "READY", "RUNNING"}]
  BY Zenon, <1>1, <1>2, <1>4, <1>7
<1>10. budget' \in [Tasks -> Nat]
  BY <1>1, <1>2
<1>11. Fetch(v)' /\ Runner(v)'
  <2>1. Runner(v) /\ (current[v] # NULL => status'[current[v]] = status[current[v]])
    BY Zenon, <1>5, <1>6, QInvIs
  <2>2. Runner(v)'
    BY Zenon, <1>1, <1>8, <2>1 DEF Runner
  <2>3. Fetch(v)'
    BY Zenon, <1>1, <1>3, <1>8 DEF Fetch
  <2> QED BY Zenon, <2>2, <2>3
<1>12. ASSUME NEW y \in Vpus, y # v
       PROVE  Apart(y)
  BY Zenon, <1>1, <1>5, <1>6, <1>12 DEF Apart
<1>13. QueuedExactlyOnce'
  <2>1. ASSUME NEW t \in Tasks
        PROVE  IF status'[t] = "READY" THEN At(t)' ELSE Nowhere(t)'
    <3>1. InRings(t)' = InRings(t)
      BY Zenon, <1>1, RingsKept
    <3>2. InTemps(t)' = InTemps(t)
      <4>1. \A y \in Vpus : /\ pc[y] \in Holding <=> pc'[y] \in Holding
                            /\ pc[y] \in Holding => loc'[y] = loc[y]
        BY Zenon, <1>3, <1>6, <1>7
      <4> QED BY Zenon, <1>1, <4>1, TempsKept
    <3>3. AsCandidate(t)' = AsCandidate(t)
      <4>1. \A y \in Vpus : loc'[y].candidate = loc[y].candidate
        BY Zenon, <1>3, <1>4, <1>6
      <4> QED BY Zenon, <4>1 DEF AsCandidate
    <3>4. AsTask(t)' = IF t = c THEN AsTask(t) \cup {v} ELSE AsTask(t)
      <4>1. /\ loc'[v].task = c /\ loc[v].task # t
            /\ \A y \in Vpus : y # v => loc'[y].task = loc[y].task
        BY Zenon, <1>2, <1>3, <1>4, <1>6
      <4> QED BY Zenon, <4>1 DEF AsTask
    <3>5. InGlobal(t)' = InGlobal(t)
      BY Zenon, <1>1 DEF InGlobal
    <3>6. CASE t # c
      <4>1. AsTask(t)' = AsTask(t) /\ status'[t] = status[t]
        BY Zenon, <1>6, <3>4, <3>6
      <4> QED BY Zenon, <3>1, <3>2, <3>3, <3>5, <4>1, WhereIs DEF At, Nowhere
    <3>7. CASE t = c
      <4>1. /\ InRings(t)' = {} /\ InTemps(t)' = {} /\ InGlobal(t)' = {} /\ AsCandidate(t)' = {}
            /\ AsTask(t)' = {v}
        BY Zenon, <1>5, <3>1, <3>2, <3>3, <3>4, <3>5, <3>7 DEF Nowhere
      <4>2. At(t)'
        BY Zenon, <4>1 DEF At, OneOf
      <4> QED BY Zenon, <1>6, <3>7, <4>2
    <3> QED BY Zenon, <3>6, <3>7
  <2> QED BY Zenon, <2>1, OnceIs
<1>14. /\ gq' \in Seq(Tasks) /\ glock' \in Vpus \cup {NULL}
       /\ current' \in [Vpus -> Tasks \cup {NULL}]
       /\ \A x, y \in Vpus : current'[x] = current'[y] /\ current'[x] # NULL => x = y
  BY Zenon, <1>1, OtherTypes, QInvIs
<1>15. \A y \in Vpus :
         \/ Apart(y)
         \/ /\ pc'[y] \in Emptied => Size(y) = 0
            /\ Locals(y)' /\ Owned(y)' /\ Fetch(y)' /\ Theft(y)' /\ Runner(y)'
  BY Zenon, <1>6, <1>7, <1>8, <1>11, <1>12
<1> QED BY Zenon, <1>1, <1>9, <1>10, <1>13, <1>14, <1>15, GlobalStep

\* What the VPU in the fetch loop of core_elect may rely on.
LEMMA FetchIs ==
  ASSUME QInv, NEW v \in Vpus, pc[v] = "fetch"
  PROVE  /\ loc[v] \in LocalsType /\ loc[v].task = NULL /\ loc[v].n \in Nat /\ glock = v
         /\ current[v] = NULL /\ loc[v].n <= Len(gq) /\ Size(v) + loc[v].n <= Capacity - 2
         /\ loc[v].candidate = NULL => loc[v].n = 0 /\ Size(v) = 0
         /\ pc[v] \notin Holding /\ Capacity \in Nat /\ Size(v) \in Nat
<1>1. Fetching(v)
  BY Zenon DEF Fetching
<1>2. pc[v] \notin Putting /\ pc[v] # "run" /\ pc[v] \notin Holding
  BY DEF Putting, Holding
<1>3. loc[v] \in LocalsType /\ shape \in Shapes /\ Size(v) \in Counters
  BY Zenon, VpuTypes
<1>4. loc[v].n \in Nat
  BY <1>3 DEF LocalsType
<1>5. Capacity \in Nat /\ Size(v) \in Nat
  BY <1>3, CapacityIs DEF Counters
<1>6. loc[v].task = NULL
  BY Zenon, <1>2, QInvIs DEF Locals
<1>7. current[v] = NULL
  <2>1. ~Running(v)
    BY Zenon, <1>2 DEF Running
  <2> QED BY Zenon, <2>1, QInvIs DEF Runner
<1>8. /\ glock = v /\ loc[v].n <= Len(gq) /\ Size(v) + loc[v].n + 0 <= Capacity - 2
      /\ loc[v].candidate = NULL => loc[v].n = 0 /\ Size(v) = 0
  BY Zenon, <1>1, QInvIs DEF Fetch
<1>9. Size(v) + loc[v].n <= Capacity - 2
  BY <1>4, <1>5, <1>8
<1> QED BY Zenon, <1>2, <1>3, <1>4, <1>5, <1>6, <1>7, <1>8, <1>9

\* A step of the VPU v that leaves the coroutines as they are, and touches the global
\* queue: it had the lock, has it now, or nobody has.
LEMMA LockStep ==
  ASSUME QInv, NEW v \in Vpus, NEW k \in Locations, NEW l \in LocalsType,
         pc' = [pc EXCEPT ![v] = k], loc' = [loc EXCEPT ![v] = l],
         UNCHANGED <<shape, ring, coroutines>>, gq' \in Seq(Tasks),
         glock \in {v, NULL}, glock' \in {v, NULL}, k \in Emptied => Size(v) = 0,
         Locals(v)' /\ Owned(v)' /\ Fetch(v)' /\ Theft(v)' /\ Runner(v)',
         \A t \in Tasks : (At(t) => At(t)') /\ (Nowhere(t) => Nowhere(t)')
  PROVE  QInv'
<1>1. /\ UNCHANGED <<shape, ring>> /\ status' = status /\ current' = current /\ budget' = budget
  BY Zenon DEF coroutines
<1>2. pc \in [Vpus -> Locations] /\ loc \in [Vpus -> LocalsType] /\ NULL \notin Vpus
  BY Zenon, OtherTypes
<1>3. /\ pc'[v] = k /\ \A y \in Vpus : y # v => pc'[y] = pc[y] /\ loc'[y] = loc[y]
      /\ pc' \in [Vpus -> Locations] /\ loc' \in [Vpus -> LocalsType]
  BY Zenon, <1>2
<1>4. ASSUME NEW y \in Vpus, y # v
      PROVE  Apart(y)
  <2>1. glock \in {v, NULL} /\ glock' \in {v, NULL}
    OBVIOUS
  <2>2. y # NULL
    BY Zenon, <1>2
  <2>3. glock # y /\ glock' # y
    BY Zenon, <1>4, <2>1, <2>2
  <2>4. /\ pc'[y] = pc[y] /\ loc'[y] = loc[y] /\ current'[y] = current[y]
        /\ status'[current[y]] = status[current[y]]
    BY Zenon, <1>1, <1>3, <1>4
  <2> QED BY Zenon, <2>3, <2>4 DEF Apart
<1>5. \A y \in Vpus :
        \/ Apart(y)
        \/ /\ pc'[y] \in Emptied => Size(y) = 0
           /\ Locals(y)' /\ Owned(y)' /\ Fetch(y)' /\ Theft(y)' /\ Runner(y)'
  BY Zenon, <1>3, <1>4
<1>6. QueuedExactlyOnce'
  BY Zenon, <1>1, QInvIs, OnceKept
<1>7. /\ status' \in [Tasks -> {"WAIT", "READY", "RUNNING"}]
      /\ current' \in [Vpus -> Tasks \cup {NULL}] /\ budget' \in [Tasks -> Nat]
      /\ glock' \in Vpus \cup {NULL}
      /\ \A x, y \in Vpus : current'[x] = current'[y] /\ current'[x] # NULL => x = y
  BY Zenon, <1>1, OtherTypes, QInvIs
<1> QED BY Zenon, <1>1, <1>3, <1>5, <1>6, <1>7, GlobalStep

\* The fetch loop ends.
LEMMA ElectUnlockQInv ==
  ASSUME QInv, NEW v \in Vpus, ElectUnlock(v)
  PROVE  QInv'
<1> DEFINE c == loc[v].candidate
           k == IF c = NULL THEN "steal" ELSE "found"
           l == [NoLocals EXCEPT !.candidate = c]
<1>1. /\ pc[v] = "fetch" /\ pc' = [pc EXCEPT ![v] = k] /\ loc' = [loc EXCEPT ![v] = l]
      /\ UNCHANGED <<shape, ring, coroutines>> /\ glock' = NULL /\ gq' = gq
  BY Zenon DEF ElectUnlock, Move
<1>2. /\ loc[v] \in LocalsType /\ loc[v].task = NULL /\ glock = v /\ current[v] = NULL
      /\ c = NULL => Size(v) = 0
      /\ pc[v] \notin Holding
  BY Zenon, <1>1, FetchIs
<1>3. l \in LocalsType /\ l.task = NULL /\ l.candidate = c
  <2>1. c \in Tasks \cup {NULL}
    BY <1>2 DEF LocalsType
  <2> HIDE DEF c
  <2> QED BY <2>1, NoLocalsIs DEF LocalsType
<1>4. /\ k \in {"get", "run", "found", "steal"} /\ (c # NULL <=> k = "found") /\ k # "get" /\ k # "run"
      /\ k = "steal" => c = NULL
  OBVIOUS
<1> HIDE DEF c, k, l
<1>5. /\ pc'[v] = k /\ loc'[v] = l
      /\ \A y \in Vpus : y # v => pc'[y] = pc[y] /\ loc'[y] = loc[y]
  BY Zenon, <1>1, QInvIs DEF TypeOK
<1>6. /\ k \in Locations /\ k \notin Holding
      /\ k \in Emptied => k = "steal"
      /\ Locals(v)' /\ Owned(v)' /\ Theft(v)' /\ ~Fetching(v)' /\ ~Running(v)'
  <2>1. loc'[v].task = NULL /\ loc'[v].candidate = c
    BY Zenon, <1>3, <1>5
  <2> QED BY SMT, <1>4, <1>5, <2>1, FreshIs
<1>7. Fetch(v)' /\ Runner(v)'
  <2>1. glock' # v /\ current'[v] = NULL
    BY Zenon, <1>1, <1>2, OtherTypes DEF coroutines
  <2> QED BY Zenon, <1>6, <2>1 DEF Fetch, Runner
<1>8. ASSUME NEW t \in Tasks
      PROVE  (At(t) => At(t)') /\ (Nowhere(t) => Nowhere(t)')
  <2>1. InRings(t)' = InRings(t) /\ InGlobal(t)' = InGlobal(t)
    BY Zenon, <1>1, RingsKept DEF InGlobal
  <2>2. InTemps(t)' = InTemps(t)
    <3>1. \A y \in Vpus : /\ pc[y] \in Holding <=> pc'[y] \in Holding
                          /\ pc[y] \in Holding => loc'[y] = loc[y]
      BY Zenon, <1>2, <1>5, <1>6
    <3> QED BY Zenon, <1>1, <3>1, TempsKept
  <2>3. AsTask(t)' = AsTask(t) /\ AsCandidate(t)' = AsCandidate(t)
    <3>1. \A y \in Vpus : loc'[y].task = loc[y].task /\ loc'[y].candidate = loc[y].candidate
      BY Zenon, <1>2, <1>3, <1>5 DEF c
    <3> QED BY Zenon, <3>1, HeldKept
  <2> QED BY Zenon, <2>1, <2>2, <2>3 DEF At, Nowhere
<1>9. /\ k \in Emptied => Size(v) = 0
      /\ glock \in {v, NULL} /\ glock' \in {v, NULL} /\ gq' \in Seq(Tasks)
  BY Zenon, <1>1, <1>2, <1>4, <1>6, OtherTypes
<1> QED BY Zenon, <1>1, <1>3, <1>6, <1>7, <1>8, <1>9, LockStep

\* The head of a queue moves to one of two other places of coroutines, X: what was
\* queued once, or nowhere, still is.
LEMMA HeadMoved ==
  ASSUME NEW q \in Seq(Tasks), q # <<>>, NEW t, NEW v, NEW A, NEW X, NEW Y, NEW E, NEW Z,
         Z = IF t = Head(q) THEN X \cup {v} ELSE X
  PROVE  /\ OneOf(A, In(q, t), X, Y, E) => OneOf(A, In(Tail(q), t), Z, Y, E)
         /\ OneOf(A, In(q, t), Y, X, E) => OneOf(A, In(Tail(q), t), Y, Z, E)
         /\ In(q, t) = {} /\ X = {} => In(Tail(q), t) = {} /\ Z = {}
<1> DEFINE B == In(q, t)
           T == In(Tail(q), t)
<1>1. /\ t # Head(q) /\ B = {} => T = {}
      /\ t # Head(q) /\ (\E x : B = {x}) => \E x : T = {x}
      /\ t = Head(q) /\ (\E x : B = {x}) => T = {}
      /\ t = Head(q) => B # {}
  BY Zenon, TailOnce
<1> HIDE DEF B, T
<1>2. CASE t # Head(q)
  <2>1. Z = X
    BY Zenon, <1>2
  <2>2. OneOf(A, B, X, Y, E) => OneOf(A, T, X, Y, E)
    BY Zenon, <1>1, <1>2 DEF OneOf
  <2>3. OneOf(A, B, Y, X, E) => OneOf(A, T, Y, X, E)
    BY Zenon, <1>1, <1>2 DEF OneOf
  <2> QED BY Zenon, <1>1, <1>2, <2>1, <2>2, <2>3 DEF B, T
<1>3. CASE t = Head(q)
  <2>1. Z = X \cup {v} /\ B # {}
    BY Zenon, <1>1, <1>3
  <2>2. ASSUME OneOf(A, B, X, Y, E) \/ OneOf(A, B, Y, X, E)
        PROVE  A = {} /\ (\E x : B = {x}) /\ X = {} /\ Y = {} /\ E = {}
    BY Zenon, <2>1, <2>2 DEF OneOf
  <2>3. ASSUME OneOf(A, B, X, Y, E) \/ OneOf(A, B, Y, X, E)
        PROVE  A = {} /\ T = {} /\ Z = {v} /\ Y = {} /\ E = {}
    BY Zenon, <1>1, <1>3, <2>1, <2>2, <2>3
  <2>4. ASSUME OneOf(A, B, X, Y, E) \/ OneOf(A, B, Y, X, E)
        PROVE  OneOf(A, T, Z, Y, E) /\ OneOf(A, T, Y, Z, E)
    BY Zenon, <2>3, <2>4 DEF OneOf
  <2> QED BY Zenon, <2>1, <2>4 DEF B, T
<1> QED BY Zenon, <1>2, <1>3

\* What a VPU in the fetch loop knows, with the lock.
LEMMA LoopIs ==
  ASSUME NEW v \in Vpus, pc'[v] = "fetch", loc'[v].task = NULL
  PROVE  /\ Locals(v)' /\ Owned(v)' /\ Theft(v)' /\ Fetching(v)' /\ ~Running(v)'
         /\ "fetch" \in Locations /\ "fetch" \notin Emptied /\ "fetch" \notin Holding
<1> DEFINE k == "fetch"
<1>1. /\ k \notin Putting /\ k \notin Holding /\ k \notin Stealing /\ k \notin Emptied
      /\ k \notin {"found", "own", "ownTail"} /\ k \notin {"own", "ownTail"} /\ k \in Locations
      /\ k # "run" /\ k # "ownTail" /\ k # "publish" /\ k \notin {"write", "publish"}
      /\ k # "slow" /\ k # "getCAS" /\ k \notin {"get", "getCAS"}
      /\ k \notin {"global", "trylock"} /\ k \notin {"copy", "grabCAS"}
  BY DEF Putting, Holding, Stealing, Emptied, Locations
<1>2. pc'[v] = k /\ k = "fetch"
  OBVIOUS
<1> HIDE DEF k
<1>3. Fetching(v)' /\ ~Running(v)'
  BY Zenon, <1>1, <1>2 DEF Fetching, Running
<1>4. Locals(v)'
  BY Zenon, <1>1, <1>2, <1>3 DEF Locals
<1>5. Owned(v)' /\ Theft(v)'
  BY Zenon, <1>1, <1>2 DEF Owned, Theft, Stealing
<1> QED BY Zenon, <1>1, <1>2, <1>3, <1>4, <1>5

\* core_elect locks the global queue and takes its first coroutine.
LEMMA ElectLockQInv ==
  ASSUME QInv, NEW v \in Vpus, ElectLock(v)
  PROVE  QInv'
<1> DEFINE max == IF Len(gq) < Capacity - 1 THEN Len(gq) ELSE Capacity - 1
           w == [loc[v] EXCEPT !.candidate = Head(gq), !.n = max - 1]
           l == IF gq = <<>> THEN loc[v] ELSE w
<1>1. /\ pc[v] = "trylock" /\ "trylock" \in Searching /\ "trylock" \in Emptied
      /\ "trylock" \notin Holding
  <2>1. pc[v] = "trylock"
    BY Zenon DEF ElectLock, Move
  <2> QED BY <2>1 DEF Searching, Emptied, Holding
<1>2. /\ loc[v] \in LocalsType /\ loc[v].task = NULL /\ loc[v].candidate = NULL
      /\ current[v] = NULL /\ Size(v) = 0 /\ loc[v].n = 0
  <2>1. loc[v].n = 0
    BY Zenon, <1>1, QInvIs DEF Locals
  <2> QED BY Zenon, <1>1, <2>1, SearchIs
<1>3. /\ gq \in Seq(Tasks) /\ Len(gq) \in Nat /\ shape \in Shapes /\ NULL \notin Vpus
      /\ NULL \notin Tasks
  BY Zenon, VpuTypes
<1>4. Capacity \in Nat /\ Capacity >= 2
  <2>1. Capacity \in Nat /\ Capacity > 0 /\ Capacity % 2 = 0
    BY Zenon, <1>3, CapacityIs
  <2> QED BY <2>1
<1>5. gq = <<>> <=> Len(gq) = 0
  BY <1>3
<1>6. /\ max \in Nat /\ (max = 0 <=> gq = <<>>) /\ (max > 0 <=> gq # <<>>)
      /\ gq # <<>> => max - 1 \in Nat /\ max - 1 <= Len(gq) - 1 /\ max - 1 <= Capacity - 2
  BY <1>3, <1>4, <1>5
<1> HIDE DEF max
<1>7. /\ pc' = [pc EXCEPT ![v] = "fetch"] /\ loc' = [loc EXCEPT ![v] = l]
      /\ glock = NULL /\ glock' = v /\ UNCHANGED <<shape, ring, coroutines>>
      /\ gq' = IF gq = <<>> THEN gq ELSE Tail(gq)
  <2>1. /\ glock = NULL /\ glock' = v /\ UNCHANGED <<shape, ring, coroutines>>
        /\ \/ max = 0 /\ Move(v, "trylock", "fetch", loc[v]) /\ gq' = gq
           \/ max > 0 /\ Move(v, "trylock", "fetch", w) /\ gq' = Tail(gq)
    BY Zenon DEF ElectLock, max
  <2> HIDE DEF w
  <2> QED BY Zenon, <1>6, <2>1 DEF Move
<1>8. gq # <<>> => Head(gq) \in Tasks /\ Tail(gq) \in Seq(Tasks) /\ Len(Tail(gq)) = Len(gq) - 1
  BY Zenon, <1>3, TailIs
<1>9. /\ l \in LocalsType /\ l.task = NULL
      /\ gq = <<>> => l.candidate = NULL /\ l.n = 0
      /\ gq # <<>> => l.candidate = Head(gq) /\ l.n = max - 1
  <2>1. CASE gq = <<>>
    BY Zenon, <1>2, <2>1
  <2>2. CASE gq # <<>>
    <3>1. max - 1 \in Nat /\ Head(gq) \in Tasks
      BY Zenon, <1>6, <1>8, <2>2
    <3>2. w \in LocalsType /\ w.task = NULL /\ w.candidate = Head(gq) /\ w.n = max - 1
      BY Zenon, <1>2, <3>1 DEF LocalsType
    <3> HIDE DEF w
    <3> QED BY Zenon, <2>2, <3>2
  <2> QED BY Zenon, <2>1, <2>2
<1> HIDE DEF l
<1>10. /\ pc'[v] = "fetch" /\ loc'[v] = l
       /\ \A y \in Vpus : y # v => pc'[y] = pc[y] /\ loc'[y] = loc[y]
  BY Zenon, <1>7, QInvIs DEF TypeOK
<1>11. /\ Locals(v)' /\ Owned(v)' /\ Theft(v)' /\ Fetching(v)' /\ ~Running(v)'
       /\ "fetch" \in Locations /\ "fetch" \notin Emptied /\ "fetch" \notin Holding
  BY Zenon, <1>9, <1>10, LoopIs
<1>12. /\ Capacity' = Capacity /\ Size(v)' = Size(v) /\ current' = current /\ shape' = shape
       /\ UNCHANGED <<shape, ring>>
  BY Zenon, <1>7 DEF Capacity, Size, ring, coroutines
<1>13. /\ l.n <= Len(gq') /\ Size(v) + l.n + 0 <= Capacity - 2
       /\ l.candidate = NULL => l.n = 0
       /\ gq' \in Seq(Tasks)
  <2>1. CASE gq = <<>>
    <3>1. l.n = 0 /\ gq' = gq
      BY Zenon, <1>7, <1>9, <2>1
    <3> QED BY <1>2, <1>3, <1>4, <3>1
  <2>2. CASE gq # <<>>
    <3>1. l.n = max - 1 /\ Len(gq') = Len(gq) - 1 /\ gq' \in Seq(Tasks) /\ l.candidate # NULL
      BY Zenon, <1>3, <1>7, <1>8, <1>9, <2>2
    <3>2. max - 1 \in Nat /\ max - 1 <= Len(gq) - 1 /\ max - 1 <= Capacity - 2
      BY Zenon, <1>6, <2>2
    <3> QED BY <1>2, <1>4, <3>1, <3>2
  <2> QED BY Zenon, <2>1, <2>2
<1>14. Fetch(v)' /\ Runner(v)'
  <2>1. Runner(v)'
    BY Zenon, <1>2, <1>11, <1>12 DEF Runner
  <2>2. "fetch" \notin {"slow", "slowAdd"}
    OBVIOUS
  <2> QED BY Zenon, <1>2, <1>7, <1>10, <1>11, <1>12, <1>13, <2>1, <2>2 DEF Fetch
<1>15. ASSUME NEW t \in Tasks
       PROVE  (At(t) => At(t)') /\ (Nowhere(t) => Nowhere(t)')
  <2>1. InRings(t)' = InRings(t)
    BY Zenon, <1>12, RingsKept
  <2>2. InTemps(t)' = InTemps(t)
    <3>1. \A y \in Vpus : /\ pc[y] \in Holding <=> pc'[y] \in Holding
                          /\ pc[y] \in Holding => loc'[y] = loc[y]
      BY Zenon, <1>1, <1>10, <1>11
    <3> QED BY Zenon, <1>12, <3>1, TempsKept
  <2>3. AsTask(t)' = AsTask(t)
    <3>1. \A y \in Vpus : loc'[y].task = loc[y].task
      BY Zenon, <1>2, <1>9, <1>10
    <3> QED BY Zenon, <3>1 DEF AsTask
  <2>4. CASE gq = <<>>
    <3>1. \A y \in Vpus : loc'[y].candidate = loc[y].candidate
      BY Zenon, <1>2, <1>9, <1>10, <2>4
    <3>2. AsCandidate(t)' = AsCandidate(t) /\ InGlobal(t)' = InGlobal(t)
      BY Zenon, <1>7, <2>4, <3>1 DEF AsCandidate, InGlobal
    <3> QED BY Zenon, <2>1, <2>2, <2>3, <3>2 DEF At, Nowhere
  <2>5. CASE gq # <<>>
    <3>1. /\ loc'[v].candidate = Head(gq) /\ loc[v].candidate # t
          /\ \A y \in Vpus : y # v => loc'[y].candidate = loc[y].candidate
      BY Zenon, <1>2, <1>3, <1>9, <1>10, <2>5
    <3>2. AsCandidate(t)' = IF t = Head(gq) THEN AsCandidate(t) \cup {v} ELSE AsCandidate(t)
      BY Zenon, <3>1 DEF AsCandidate
    <3>3. InGlobal(t) = In(gq, t) /\ InGlobal(t)' = In(Tail(gq), t)
      BY Zenon, <1>7, <2>5, GlobalIs
    <3>4. /\ OneOf(InRings(t), In(gq, t), AsTask(t), AsCandidate(t), InTemps(t))
               => OneOf(InRings(t), In(Tail(gq), t), AsTask(t), AsCandidate(t)', InTemps(t))
          /\ In(gq, t) = {} /\ AsCandidate(t) = {} => In(Tail(gq), t) = {} /\ AsCandidate(t)' = {}
      BY Zenon, <1>3, <2>5, <3>2, HeadMoved
    <3> QED BY Zenon, <2>1, <2>2, <2>3, <3>3, <3>4 DEF At, Nowhere
  <2> QED BY Zenon, <2>4, <2>5
<1>16. glock \in {v, NULL} /\ glock' \in {v, NULL}
  BY Zenon, <1>7
<1> QED BY Zenon, <1>7, <1>9, <1>11, <1>13, <1>14, <1>15, <1>16, LockStep

\* core_elect moves one more coroutine to its own ring.
LEMMA ElectFetchQInv ==
  ASSUME QInv, NEW v \in Vpus, ElectFetch(v)
  PROVE  QInv'
<1> DEFINE c == Head(gq)
           l == [loc[v] EXCEPT !.n = @ - 1, !.task = c, !.ret = "fetch"]
<1>1. /\ pc[v] = "fetch" /\ loc[v].n > 0 /\ pc' = [pc EXCEPT ![v] = "put"]
      /\ loc' = [loc EXCEPT ![v] = l] /\ gq' = Tail(gq) /\ glock' = glock
      /\ UNCHANGED <<shape, ring, coroutines>>
  BY Zenon DEF ElectFetch, Move
<1>2. /\ loc[v] \in LocalsType /\ loc[v].task = NULL /\ loc[v].n \in Nat /\ glock = v
      /\ current[v] = NULL /\ loc[v].n <= Len(gq) /\ Size(v) + loc[v].n <= Capacity - 2
      /\ loc[v].candidate = NULL => loc[v].n = 0 /\ Size(v) = 0
      /\ pc[v] \notin Holding /\ Capacity \in Nat /\ Size(v) \in Nat
  BY Zenon, <1>1, FetchIs
<1>3. gq \in Seq(Tasks) /\ Len(gq) \in Nat /\ NULL \notin Tasks
  BY Zenon, VpuTypes
<1>4. gq # <<>>
  BY <1>1, <1>2, <1>3
<1>5. c \in Tasks /\ Tail(gq) \in Seq(Tasks) /\ Len(Tail(gq)) = Len(gq) - 1
  BY Zenon, <1>3, <1>4, TailIs
<1> HIDE DEF c
<1>6. /\ l \in LocalsType /\ l.task = c /\ l.candidate = loc[v].candidate /\ l.ret = "fetch"
      /\ l.n = loc[v].n - 1
  <2>1. loc[v].n - 1 \in Nat
    BY <1>1, <1>2
  <2> QED BY Zenon, <1>2, <1>5, <2>1 DEF LocalsType
<1> HIDE DEF l
<1>7. /\ pc'[v] = "put" /\ loc'[v] = l
      /\ \A y \in Vpus : y # v => pc'[y] = pc[y] /\ loc'[y] = loc[y]
  BY Zenon, <1>1, QInvIs DEF TypeOK
<1>8. "put" \in Locations /\ "put" \notin Holding /\ "put" \notin Emptied
  BY DEF Locations, Holding, Emptied
<1>9. Locals(v)' /\ Owned(v)' /\ Theft(v)' /\ Fetching(v)' /\ ~Running(v)'
  <2>1. loc'[v].task # NULL /\ loc'[v].ret = "fetch" /\ "fetch" # "global" /\ "fetch" # "run"
    BY Zenon, <1>3, <1>5, <1>6, <1>7
  <2> QED BY Zenon, <1>7, <2>1, CallIs
<1>10. /\ Capacity' = Capacity /\ Size(v)' = Size(v) /\ current' = current /\ shape' = shape
       /\ UNCHANGED <<shape, ring>>
  BY Zenon, <1>1 DEF Capacity, Size, ring, coroutines
<1>11. l.n <= Len(gq') /\ Size(v) + l.n + 1 <= Capacity - 2 /\ l.candidate # NULL
  <2>1. Len(gq') = Len(gq) - 1
    BY Zenon, <1>1, <1>5
  <2> QED BY <1>1, <1>2, <1>3, <1>6, <2>1
<1>12. Fetch(v)' /\ Runner(v)'
  <2>1. "put" \notin {"slow", "slowAdd"} /\ "put" # "fetch"
    OBVIOUS
  <2>2. Runner(v)'
    BY Zenon, <1>2, <1>9, <1>10 DEF Runner
  <2> QED BY Zenon, <1>1, <1>2, <1>7, <1>9, <1>10, <1>11, <2>1, <2>2 DEF Fetch
<1>13. ASSUME NEW t \in Tasks
       PROVE  (At(t) => At(t)') /\ (Nowhere(t) => Nowhere(t)')
  <2>1. InRings(t)' = InRings(t)
    BY Zenon, <1>10, RingsKept
  <2>2. InTemps(t)' = InTemps(t)
    <3>1. \A y \in Vpus : /\ pc[y] \in Holding <=> pc'[y] \in Holding
                          /\ pc[y] \in Holding => loc'[y] = loc[y]
      BY Zenon, <1>2, <1>7, <1>8
    <3> QED BY Zenon, <1>10, <3>1, TempsKept
  <2>3. AsCandidate(t)' = AsCandidate(t)
    <3>1. \A y \in Vpus : loc'[y].candidate = loc[y].candidate
      BY Zenon, <1>6, <1>7
    <3> QED BY Zenon, <3>1 DEF AsCandidate
  <2>4. AsTask(t)' = IF t = Head(gq) THEN AsTask(t) \cup {v} ELSE AsTask(t)
    <3>1. /\ loc'[v].task = Head(gq) /\ loc[v].task # t
          /\ \A y \in Vpus : y # v => loc'[y].task = loc[y].task
      BY Zenon, <1>2, <1>3, <1>6, <1>7 DEF c
    <3> QED BY Zenon, <3>1 DEF AsTask
  <2>5. InGlobal(t) = In(gq, t) /\ InGlobal(t)' = In(Tail(gq), t)
    BY Zenon, <1>1, GlobalIs
  <2>6. /\ OneOf(InRings(t), In(gq, t), AsTask(t), AsCandidate(t), InTemps(t))
             => OneOf(InRings(t), In(Tail(gq), t), AsTask(t)', AsCandidate(t), InTemps(t))
        /\ In(gq, t) = {} /\ AsTask(t) = {} => In(Tail(gq), t) = {} /\ AsTask(t)' = {}
    BY Zenon, <1>3, <1>4, <2>4, HeadMoved
  <2> QED BY Zenon, <2>1, <2>2, <2>3, <2>5, <2>6 DEF At, Nowhere
<1>14. glock \in {v, NULL} /\ glock' \in {v, NULL} /\ gq' \in Seq(Tasks)
  BY Zenon, <1>1, <1>2, <1>5
<1> QED BY Zenon, <1>1, <1>6, <1>8, <1>9, <1>12, <1>13, <1>14, LockStep

\* __runqputslow adds its range to the global queue.
LEMMA PutSlowAddQInv ==
  ASSUME QInv, NEW v \in Vpus, PutSlowAdd(v)
  PROVE  QInv'
<1> DEFINE k == loc[v].ret
           s == loc[v].temp
           l == [loc[v] EXCEPT !.temp = <<>>]
<1>1. /\ pc[v] = "slowAdd" /\ pc' = [pc EXCEPT ![v] = k] /\ loc' = [loc EXCEPT ![v] = l]
      /\ glock = NULL /\ glock' = glock /\ gq' = gq \o s
      /\ UNCHANGED <<shape, ring, coroutines>>
  BY Zenon DEF PutSlowAdd, Move
<1>2. /\ pc[v] \in Putting /\ pc[v] \in Holding /\ pc[v] \in {"slow", "slowAdd"}
      /\ pc[v] \notin {"found", "own", "ownTail"} /\ pc[v] \notin Putting \ {"slowAdd"}
  BY <1>1 DEF Putting, Holding
<1>3. /\ loc[v] \in LocalsType /\ shape \in Shapes /\ gq \in Seq(Tasks) /\ NULL \notin Vpus
      /\ NULL \notin Tasks
  BY Zenon, VpuTypes
<1>4. /\ ~Fetching(v) /\ k # "global" /\ loc[v].task = NULL /\ loc[v].candidate = NULL
      /\ Len(s) <= Capacity
      /\ \A i \in 1..Len(s) : s[i] # NULL
  <2>1. ~Fetching(v)
    BY Zenon, <1>2, QInvIs DEF Fetch
  <2> QED BY Zenon, <1>2, <2>1, QInvIs DEF Locals
<1>5. k \in {"run", "poll", "fetch"} /\ s \in Seq(Tasks \cup {NULL})
  BY <1>3, <1>4 DEF LocalsType
<1>6. s \in Seq(Tasks) /\ Len(s) \in 0..Capacity /\ Capacity \in Nat /\ DOMAIN s = 1..Len(s)
  <2>1. Capacity \in Nat
    BY Zenon, <1>3, CapacityIs
  <2> HIDE DEF s
  <2> QED BY <1>4, <1>5, <2>1
<1>7. l \in LocalsType /\ l.task = NULL /\ l.candidate = NULL
  <2>1. <<>> \in Seq(Tasks \cup {NULL})
    OBVIOUS
  <2>2. l \in LocalsType
    BY Zenon, <1>3, <2>1 DEF LocalsType
  <2>3. l.task = loc[v].task /\ l.candidate = loc[v].candidate
    BY <1>3 DEF LocalsType
  <2> QED BY Zenon, <1>4, <2>2, <2>3
<1> HIDE DEF k, l, s
<1>8. /\ pc'[v] = k /\ loc'[v] = l
      /\ \A y \in Vpus : y # v => pc'[y] = pc[y] /\ loc'[y] = loc[y]
  BY Zenon, <1>1, QInvIs DEF TypeOK
<1>9. /\ current' = current /\ status' = status /\ shape' = shape /\ UNCHANGED <<shape, ring>>
  BY Zenon, <1>1 DEF coroutines
<1>10. /\ k \in Locations /\ k \notin Emptied /\ k \notin Holding
       /\ Locals(v)' /\ Owned(v)' /\ Theft(v)' /\ Runner(v)' /\ ~Fetching(v)'
  <2>1. k = loc[v].ret
    BY Zenon DEF k
  <2> QED BY Zenon, <1>2, <1>4, <1>5, <1>7, <1>8, <1>9, <2>1, PutReturn
<1>11. Fetch(v)'
  BY Zenon, <1>1, <1>3, <1>10 DEF Fetch
<1>12. ASSUME NEW t \in Tasks
       PROVE  (At(t) => At(t)') /\ (Nowhere(t) => Nowhere(t)')
  <2> DEFINE N == In(s, t)
  <2>1. InGlobal(t)' = InGlobal(t) \cup {Len(gq) + i : i \in N} /\ gq' \in Seq(Tasks)
    <3>1. In(gq \o s, t) = In(gq, t) \cup {Len(gq) + i : i \in N} /\ gq \o s \in Seq(Tasks)
      BY Zenon, <1>3, <1>6, RangeIs
    <3>2. InGlobal(t) = In(gq, t) /\ InGlobal(t)' = In(gq \o s, t)
      BY Zenon, <1>1, GlobalIs
    <3> QED BY Zenon, <1>1, <3>1, <3>2
  <2>2. /\ InTemps(t)' = {x \in InTemps(t) : x[1] # v}
        /\ \A i : <<v, i>> \in InTemps(t) <=> i \in 1..Len(s) /\ s[i] = t
        /\ \A x \in InTemps(t) : x[1] = v => \E i \in 1..Len(s) : x = <<v, i>>
    <3>1. pc'[v] \notin Holding
      BY Zenon, <1>8, <1>10
    <3>2. Len(loc[v].temp) \in 0..Capacity /\ s = loc[v].temp
      BY Zenon, <1>6 DEF s
    <3>3. \A y \in Vpus : y # v => pc'[y] = pc[y] /\ loc'[y] = loc[y]
      BY Zenon, <1>8
    <3>4. /\ InTemps(t)' = {x \in InTemps(t) : x[1] # v}
          /\ \A i : <<v, i>> \in InTemps(t) <=> i \in 1..Len(loc[v].temp) /\ loc[v].temp[i] = t
          /\ \A x \in InTemps(t) : x[1] = v => \E i \in 1..Len(loc[v].temp) : x = <<v, i>>
      BY SMT, <1>2, <1>6, <1>9, <3>1, <3>2, <3>3, TempsLeft
    <3> QED BY Zenon, <3>2, <3>4
  <2>3. InRings(t)' = InRings(t)
    BY Zenon, <1>9, RingsKept
  <2>4. AsTask(t)' = AsTask(t) /\ AsCandidate(t)' = AsCandidate(t)
    <3>1. \A y \in Vpus : loc'[y].task = loc[y].task /\ loc'[y].candidate = loc[y].candidate
      BY Zenon, <1>4, <1>7, <1>8
    <3> QED BY Zenon, <3>1, HeldKept
  <2>5. \A i : i \in N <=> i \in 1..Len(s) /\ s[i] = t
    BY Zenon, <1>6 DEF In
  <2> HIDE DEF N
  <2>6. CASE N = {}
    <3>1. InTemps(t)' = InTemps(t) /\ InGlobal(t)' = InGlobal(t)
      BY Zenon, <2>1, <2>2, <2>5, <2>6
    <3> QED BY Zenon, <2>3, <2>4, <3>1 DEF At, Nowhere
  <2>7. CASE N # {}
    <3>1. PICK i \in N : TRUE
      BY Zenon, <2>7
    <3>2. <<v, i>> \in InTemps(t)
      BY Zenon, <2>2, <2>5, <3>1
    <3>3. ~Nowhere(t)
      BY Zenon, <3>2 DEF Nowhere
    <3>4. ASSUME At(t)
          PROVE  At(t)'
      <4>1. /\ InTemps(t) = {<<v, i>>} /\ InRings(t) = {} /\ InGlobal(t) = {} /\ AsTask(t) = {}
            /\ AsCandidate(t) = {}
        BY Zenon, <3>2, <3>4 DEF At, OneOf
      <4>2. \A j \in N : j = i
        <5>1. ASSUME NEW j \in N
              PROVE  j = i
          <6>1. <<v, j>> = <<v, i>>
            BY Zenon, <2>2, <2>5, <4>1
          <6> QED BY <6>1
        <5> QED BY Zenon, <5>1
      <4>3. InGlobal(t)' = {Len(gq) + i}
        BY Zenon, <2>1, <3>1, <4>1, <4>2
      <4>4. InTemps(t)' = {}
        <5>1. <<v, i>>[1] = v
          OBVIOUS
        <5> QED BY Zenon, <2>2, <4>1, <5>1
      <4> QED BY Zenon, <2>3, <2>4, <4>1, <4>3, <4>4 DEF At, OneOf
    <3> QED BY Zenon, <3>3, <3>4
  <2> QED BY Zenon, <2>6, <2>7
<1>13. glock \in {v, NULL} /\ glock' \in {v, NULL} /\ gq' \in Seq(Tasks)
  BY Zenon, <1>1, <1>3, <1>6, RangeIs
<1> QED BY Zenon, <1>1, <1>7, <1>10, <1>11, <1>12, <1>13, LockStep
-----------------------------------------------------------------------------
(* The theorems *)

\* Nothing is queued at the start.
LEMMA InitQInv ==
  ASSUME Init
  PROVE  QInv
<1>1. /\ shape \in Shapes
      /\ runqhead = [v \in Vpus |-> Origin] /\ runqtail = [v \in Vpus |-> Origin]
      /\ runq = [v \in Vpus |-> [i \in 0..(Capacity - 1) |-> NULL]]
      /\ gq = <<>> /\ glock = NULL /\ status = [t \in Tasks |-> "WAIT"]
      /\ current = [v \in Vpus |-> NULL] /\ budget = MaxReady
      /\ pc = [v \in Vpus |-> "get"] /\ loc = [v \in Vpus |-> NoLocals]
  BY Zenon DEF Init
<1>2. Origin \in Counters /\ NULL \notin Vpus /\ NULL \notin Tasks /\ MaxReady \in [Tasks -> Nat]
  BY Zenon, <1>1, RunQueueAssumption DEF Counters, MaxReady
<1>3. Capacity \in Nat /\ Capacity > 0
  BY Zenon, <1>1, CapacityIs
<1>4. /\ "get" \in Locations /\ "get" \notin Emptied /\ "get" \notin Holding /\ "get" \notin Putting
      /\ "get" \notin Stealing
  BY DEF Locations, Emptied, Holding, Putting, Stealing
<1>5. TypeOK
  <2>1. runqhead \in [Vpus -> 0..(Modulus - 1)] /\ runqtail \in [Vpus -> 0..(Modulus - 1)]
    BY Zenon, <1>1, <1>2 DEF Counters
  <2>2. runq \in [Vpus -> [0..(Capacity - 1) -> Tasks \cup {NULL}]]
    BY Zenon, <1>1
  <2>3. gq \in Seq(Tasks)
    BY <1>1
  <2>4. /\ status \in [Tasks -> {"WAIT", "READY", "RUNNING"}]
        /\ current \in [Vpus -> Tasks \cup {NULL}]
    BY Zenon, <1>1
  <2>5. pc \in [Vpus -> Locations] /\ loc \in [Vpus -> LocalsType]
    BY Zenon, <1>1, <1>4, NoLocalsIs
  <2> QED BY Zenon, <1>1, <1>2, <2>1, <2>2, <2>3, <2>4, <2>5 DEF TypeOK
<1>6. \A v \in Vpus : runqhead[v] = Origin /\ runqtail[v] = Origin /\ pc[v] = "get" /\ loc[v] = NoLocals
                      /\ current[v] = NULL
  BY Zenon, <1>1
<1>7. \A v \in Vpus : Size(v) = 0
  <2>1. Distance(Origin, Origin) = 0
    BY Zenon, <1>2, DistanceZero
  <2> QED BY Zenon, <1>6, <2>1 DEF Size
<1>8. \A v \in Vpus : \A c \in Counters : ~(Distance(c, runqhead[v]) < Size(v))
  <2>1. ASSUME NEW v \in Vpus, NEW c \in Counters
        PROVE  ~(Distance(c, runqhead[v]) < Size(v))
    <3>1. Distance(c, runqhead[v]) \in Counters
      BY Zenon, <1>2, <1>6, DistanceIs
    <3> QED BY <1>7, <3>1 DEF Counters
  <2> QED BY Zenon, <2>1
<1>9. ASSUME NEW v \in Vpus
      PROVE  VpuInv(v)
  <2> DEFINE k == "get"
  <2>1. /\ k \notin {"found", "own", "ownTail"} /\ k \notin {"own", "ownTail"} /\ k # "fetch"
        /\ k # "run" /\ k # "ownTail" /\ k # "publish" /\ k \notin {"write", "publish"}
        /\ k # "slow" /\ k # "getCAS" /\ k \notin {"global", "trylock"}
        /\ k \notin {"copy", "grabCAS"} /\ k \notin Emptied /\ k \notin Holding /\ k \notin Putting
        /\ k \notin Stealing
    BY <1>4
  <2>2. pc[v] = k
    BY Zenon, <1>6
  <2> HIDE DEF k
  <2>3. ~Fetching(v) /\ ~Running(v)
    BY Zenon, <2>1, <2>2 DEF Fetching, Running
  <2>4. Ring(v)
    <3>1. Size(v) <= Capacity
      BY <1>3, <1>7
    <3> QED BY Zenon, <1>8, <2>1, <2>2, <3>1 DEF Ring, Counters
  <2>5. Locals(v)
    <3>1. loc[v].task = NULL /\ loc[v].candidate = NULL /\ loc[v].ret \in {"poll", "global"}
      BY Zenon, <1>6, NoLocalsIs
    <3> QED BY Zenon, <2>1, <2>2, <3>1 DEF Locals
  <2>6. Owned(v) /\ Theft(v)
    BY Zenon, <2>1, <2>2 DEF Owned, Theft, Stealing
  <2>7. Fetch(v) /\ Runner(v)
    BY Zenon, <1>1, <1>2, <1>6, <2>3 DEF Fetch, Runner
  <2> QED BY Zenon, <2>4, <2>5, <2>6, <2>7 DEF VpuInv
<1>10. \A u, v \in Vpus : current[u] = current[v] /\ current[u] # NULL => u = v
  BY Zenon, <1>6
<1>11. QueuedExactlyOnce
  <2>1. ASSUME NEW t \in Tasks
        PROVE  status[t] # "READY" /\ Nowhere(t)
    <3>1. status[t] # "READY"
      BY <1>1
    <3>2. InRings(t) = {}
      <4>1. \A x \in Vpus \X Counters : x[1] \in Vpus /\ x[2] \in Counters
        OBVIOUS
      <4> QED BY Zenon, <1>8, <4>1 DEF InRings, Counters
    <3>3. InGlobal(t) = {}
      <4>1. DOMAIN gq = {}
        BY <1>1
      <4> QED BY Zenon, <4>1 DEF InGlobal
    <3>4. AsTask(t) = {} /\ AsCandidate(t) = {}
      BY Zenon, <1>2, <1>6, NoLocalsIs DEF AsTask, AsCandidate
    <3>5. InTemps(t) = {}
      <4>1. \A x \in Vpus \X (1..Capacity) : x[1] \in Vpus
        OBVIOUS
      <4> QED BY Zenon, <1>4, <1>6, <4>1 DEF InTemps
    <3> QED BY Zenon, <3>1, <3>2, <3>3, <3>4, <3>5 DEF Nowhere
  <2> QED BY Zenon, <2>1, OnceIs
<1> QED BY Zenon, <1>5, <1>9, <1>10, <1>11 DEF QInv

\* Every step keeps the invariant, if no head laps a thief.
LEMMA NextQInv ==
  ASSUME QInv, Next, \A x \in Vpus : Behind(x)
  PROVE  QInv'
<1>1. ASSUME NEW v \in Vpus, Get(v) \/ GetCAS(v)
      PROVE  QInv'
  BY Zenon, <1>1, GetQInv, GetCASQInv
<1>2. ASSUME NEW v \in Vpus, Put(v) \/ PutWrite(v) \/ PutPublish(v) \/ PutSlow(v) \/ PutSlowAdd(v)
      PROVE  QInv'
  BY Zenon, <1>2, PutQInv, PutWriteQInv, PutPublishQInv, PutSlowQInv, PutSlowAddQInv
<1>3. ASSUME NEW v \in Vpus, Elect(v)
      PROVE  QInv'
  BY Zenon, <1>3, ElectGlobalQInv, ElectLockQInv, ElectBusyQInv, ElectFetchQInv, ElectUnlockQInv
     DEF Elect
<1>4. ASSUME NEW v \in Vpus, Steal(v)
      PROVE  QInv'
  BY Zenon, <1>4, StealFromQInv, StealGiveUpQInv, GrabQInv, GrabTailQInv, GrabCopyQInv,
     GrabCASQInv,
     StealOwnQInv, StealOwnTailQInv DEF Steal
<1>5. ASSUME NEW v \in Vpus, Dispatch(v) \/ PollEnd(v) \/ CoreYield(v) \/ CoreWait(v)
      PROVE  QInv'
  BY Zenon, <1>5, DispatchQInv, PollEndQInv, CoreQInv
<1>6. ASSUME NEW v \in Vpus, NEW t \in Tasks, VpuReady(v, t)
      PROVE  QInv'
  BY Zenon, <1>6, VpuReadyQInv
<1>7. ASSUME NEW t \in Tasks, AsyncReady(t)
      PROVE  QInv'
  BY Zenon, <1>7, AsyncReadyQInv
<1> QED BY Zenon, <1>1, <1>2, <1>3, <1>4, <1>5, <1>6, <1>7 DEF Next

\* A step that changes nothing keeps it, too.
LEMMA StillQInv ==
  ASSUME QInv, UNCHANGED vars
  PROVE  QInv'
<1>1. /\ shape' = shape /\ runqhead' = runqhead /\ runqtail' = runqtail /\ runq' = runq
      /\ gq' = gq /\ glock' = glock /\ status' = status /\ current' = current /\ budget' = budget
      /\ pc' = pc /\ loc' = loc /\ UNCHANGED <<shape, ring>>
  BY Zenon DEF vars, ring, global, coroutines
<1>2. ASSUME NEW y \in Vpus
      PROVE  Apart(y)
  BY Zenon, <1>1 DEF Apart
<1>3. QueuedExactlyOnce'
  <2>1. ASSUME NEW t \in Tasks
        PROVE  (At(t) => At(t)') /\ (Nowhere(t) => Nowhere(t)')
    <3>1. InRings(t)' = InRings(t) /\ InGlobal(t)' = InGlobal(t)
      BY Zenon, <1>1, RingsKept DEF InGlobal
    <3>2. InTemps(t)' = InTemps(t)
      BY Zenon, <1>1, TempsKept
    <3>3. AsTask(t)' = AsTask(t) /\ AsCandidate(t)' = AsCandidate(t)
      BY Zenon, <1>1, HeldKept
    <3> QED BY Zenon, <3>1, <3>2, <3>3 DEF At, Nowhere
  <2> QED BY Zenon, <1>1, <2>1, QInvIs, OnceKept
<1>4. \A x, y \in Vpus : current'[x] = current'[y] /\ current'[x] # NULL => x = y
  BY Zenon, <1>1, QInvIs
<1> QED BY Zenon, <1>1, <1>2, <1>3, <1>4, OtherTypes, GlobalStep

\* The inductive invariant holds in every state.
LEMMA Inductive == Spec /\ NoLap => []QInv
<1>1. Init => QInv
  BY Zenon, InitQInv
<1>2. QInv /\ [Next]_vars /\ [\A v \in Vpus : Behind(v)]_vars => QInv'
  BY Zenon, NextQInv, StillQInv
<1> QED BY <1>1, <1>2, PTL DEF Spec, NoLap

\* The invariant is strong enough for the bounds of the rings.
LEMMA BoundsHold ==
  ASSUME QInv
  PROVE  RingBounds
<1> SUFFICES ASSUME NEW v \in Vpus
             PROVE  /\ Size(v) <= Capacity
                    /\ pc[v] = "slow" =>
                         Distance(runqtail[v], loc[v].head) \div 2 = Capacity \div 2
                    /\ pc[v] = "own" => Size(v) + Len(loc[v].temp) < Capacity
                    /\ pc[v] \in {"copy", "grabCAS"} => Len(loc[v].temp) <= Capacity \div 2
                    /\ pc[v] \in {"slow", "slowAdd"} => glock # v
  BY Zenon DEF RingBounds
<1>1. Ring(v) /\ Locals(v) /\ Owned(v) /\ Fetch(v) /\ Theft(v)
  BY Zenon, QInvIs
<1>2. Size(v) <= Capacity
  BY Zenon, <1>1 DEF Ring
<1>3. pc[v] = "slow" => Distance(runqtail[v], loc[v].head) \div 2 = Capacity \div 2
  <2>1. pc[v] = "slow" => Distance(runqtail[v], loc[v].head) = Capacity
    BY Zenon, <1>1 DEF Owned
  <2> QED BY Zenon, <2>1
<1>4. pc[v] = "own" => Size(v) + Len(loc[v].temp) < Capacity
  <2> SUFFICES ASSUME pc[v] = "own"
               PROVE  Size(v) + Len(loc[v].temp) < Capacity
    BY Zenon
  <2>1. Size(v) = 0 /\ Len(loc[v].temp) \in 0..(Capacity - 1) /\ shape \in Shapes
    BY Zenon, OwnIs, OtherTypes
  <2> QED BY <2>1, CapacityIs
<1>5. pc[v] \in {"copy", "grabCAS"} => Len(loc[v].temp) <= Capacity \div 2
  <2> SUFFICES ASSUME pc[v] \in {"copy", "grabCAS"}
               PROVE  Len(loc[v].temp) <= Capacity \div 2
    BY Zenon
  <2>1. loc[v].n \in 1..(Capacity \div 2)
    BY Zenon, <1>1 DEF Theft
  <2>2. Len(loc[v].temp) < loc[v].n \/ Len(loc[v].temp) = loc[v].n
    BY Zenon, <1>1 DEF Theft
  <2>3. Capacity \in Nat /\ Len(loc[v].temp) \in Nat
    <3>1. shape \in Shapes /\ loc[v] \in LocalsType
      BY Zenon, VpuTypes
    <3>2. loc[v].temp \in Seq(Tasks \cup {NULL})
      BY <3>1 DEF LocalsType
    <3> QED BY <3>1, <3>2, CapacityIs
  <2> QED BY <2>1, <2>2, <2>3
<1>6. pc[v] \in {"slow", "slowAdd"} => glock # v
  BY Zenon, <1>1 DEF Fetch
<1> QED BY Zenon, <1>2, <1>3, <1>4, <1>5, <1>6

\* Whatever the number of VPUs, coroutines and slots: no interleaving of the owners,
\* the thieves and the overflow to the global queue loses a READY coroutine or
\* queues it twice, as long as no head goes all the way round while a thief
\* that has read it is between its load and its compare-and-swap.
THEOREM RunQueuesLoseNothing == Spec /\ NoLap => []QueuedExactlyOnce
<1>1. QInv => QueuedExactlyOnce
  BY Zenon, QInvIs
<1> QED BY <1>1, Inductive, PTL

\* Under the same condition the assertions of vpu.c hold, no array is overrun, and
\* __runqputslow never asks for the global lock that its caller has.
THEOREM RunQueueBounds == Spec /\ NoLap => []RingBounds
<1>1. QInv => RingBounds
  BY Zenon, BoundsHold
<1> QED BY <1>1, Inductive, PTL

\* Under the same condition all the queues together are one pool: a coroutine that is made
\* ready is dispatched by one VPU only, which ran nothing, and runs there until it
\* yields or waits.
THEOREM RunQueuesArePool == Spec /\ NoLap => ImplementsReadyPool
<1>1. Init => Pool!Init
  BY Zenon DEF Init, Pool!Init
<1>2. ASSUME QInv, Next
      PROVE  Pool!Next \/ UNCHANGED Pool!vars
  <2>1. CASE UNCHANGED <<status, current>>
    BY Zenon, <2>1 DEF Pool!vars
  <2>2. ASSUME NEW t \in Tasks, MayReady(t), MakeReady(t), current' = current
        PROVE  Pool!Next
    BY Zenon, <2>2 DEF MayReady, MakeReady, Pool!Next, Pool!Ready
  <2>3. ASSUME NEW v \in Vpus, Dispatch(v)
        PROVE  Pool!Next
    <3>1. pc[v] = "found" /\ pc[v] \in {"found", "own", "ownTail"} /\ "found" \notin Putting
      BY <2>3 DEF Dispatch, Move, Putting
    <3>2. loc[v].candidate # NULL /\ loc[v].candidate \in Tasks
      <4>1. loc[v].candidate # NULL
        BY Zenon, <1>2, <3>1, QInvIs DEF Locals
      <4>2. loc[v] \in LocalsType
        BY Zenon, <1>2, VpuTypes
      <4> QED BY <4>1, <4>2 DEF LocalsType
    <3>3. current[v] = NULL
      <4>1. ~Running(v)
        BY <3>1 DEF Running
      <4> QED BY Zenon, <1>2, <4>1, QInvIs DEF Runner
    <3>4. status[loc[v].candidate] = "READY"
      <4>1. ~Nowhere(loc[v].candidate)
        BY Zenon DEF Nowhere, AsCandidate
      <4> QED BY Zenon, <1>2, <3>2, <4>1, WhereIs
    <3>5. Pool!Dispatch(v, loc[v].candidate)
      BY Zenon, <2>3, <3>3, <3>4 DEF Dispatch, Pool!Dispatch
    <3> QED BY Zenon, <3>2, <3>5 DEF Pool!Next
  <2>4. ASSUME NEW v \in Vpus, CoreYield(v) \/ CoreWait(v)
        PROVE  Pool!Next
    <3>1. current[v] # NULL
      <4>1. pc[v] = "run" /\ pc[v] \in {"run", "poll"}
        BY Zenon, <2>4 DEF CoreYield, CoreWait, Move
      <4> QED BY Zenon, <1>2, <4>1, RunIs, QInvIs DEF Runner
    <3>2. Pool!Leave(v, "READY") \/ Pool!Leave(v, "WAIT")
      BY Zenon, <2>4, <3>1 DEF CoreYield, CoreWait, MakeReady, Pool!Leave
    <3> QED BY Zenon, <3>2 DEF Pool!Next
  <2>5. ASSUME NEW v \in Vpus, Get(v) \/ GetCAS(v) \/ Put(v) \/ PutWrite(v) \/ PutPublish(v)
                               \/ PutSlow(v) \/ PutSlowAdd(v) \/ PollEnd(v)
        PROVE  UNCHANGED <<status, current>>
    BY Zenon, <2>5 DEF Get, GetCAS, Put, PutWrite, PutPublish, PutSlow, PutSlowAdd, PollEnd,
       coroutines
  <2>6. ASSUME NEW v \in Vpus, Elect(v) \/ Steal(v)
        PROVE  UNCHANGED <<status, current>>
    <3>1. CASE Elect(v)
      BY Zenon, <3>1 DEF Elect, ElectGlobal, ElectLock, ElectBusy, ElectFetch, ElectUnlock,
         coroutines
    <3>2. CASE Steal(v)
      BY Zenon, <3>2 DEF Steal, StealFrom, StealGiveUp, Grab, GrabTail, GrabCopy, GrabCAS,
         StealOwn, StealOwnTail, coroutines
    <3> QED BY Zenon, <2>6, <3>1, <3>2
  <2>7. ASSUME NEW t \in Tasks, AsyncReady(t) \/ \E v \in Vpus : VpuReady(v, t)
        PROVE  MayReady(t) /\ MakeReady(t) /\ current' = current
    BY Zenon, <2>7 DEF AsyncReady, VpuReady
  <2> QED BY Zenon, <1>2, <2>1, <2>2, <2>3, <2>4, <2>5, <2>6, <2>7 DEF Next
<1>3. UNCHANGED vars => UNCHANGED Pool!vars
  BY Zenon DEF vars, coroutines, Pool!vars
<1>4. QInv /\ [Next]_vars => [Pool!Next]_(Pool!vars)
  BY Zenon, <1>2, <1>3
<1> QED BY <1>1, <1>4, Inductive, PTL DEF Spec, ImplementsReadyPool, Pool!Spec
=============================================================================
