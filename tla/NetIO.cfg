SPECIFICATION FairIO
CONSTANTS
  w1 = w1
  w2 = w2
  p1 = p1
  p2 = p2
  f1 = f1
  f2 = f2
  d1 = d1
  d2 = d2
  NULL = NULL
  Timer = Timer
  Waiters = {w1, w2}
  Pollers = {p1, p2}
  Fds = {f1, f2}
  Descs = {d1, d2}
  Bits = {"r", "w", "e"}
  Spare = {f2}
  N = 2
  MaxEdges = 2
  Programs <- MCPrograms
INVARIANTS
  
  SizeExact
  
  
  EventNotLost
  NoSocketLeak
  

  
CHECK_DEADLOCK FALSE
