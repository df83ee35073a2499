SPECIFICATION FairSpec
CONSTANTS
  NULL = NULL
  r = r
  a = a
  b = b
  m1 = m1
  m2 = m2
  m3 = m3
  h1 = h1
  h2 = h2
  Tasks = {r, a, b}
  Root = r
  Threads = {h1, h2}
  Messages = {m1, m2, m3}
  Programs <- Workloads
INVARIANTS
  LiveHandles
  ListsSound
  FifoDelivery
  ReceiverSuspended
  RequestOnStack
  NotAllAsleep

  
CHECK_DEADLOCK FALSE
