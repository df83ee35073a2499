SPECIFICATION Spec
CONSTANTS
  v1 = v1
  v2 = v2
  k1 = k1
  k2 = k2
  k3 = k3
  k4 = k4
  k5 = k5
  NULL = NULL
  Vpus <- MCVpus
  Tasks <- FiveTasks
  Modulus = 32
  Origin = 31
  Shapes <- MCShapes
SYMMETRY Symmetry
INVARIANTS
  QueuedExactlyOnce
  RingBounds
PROPERTIES
  ImplementsReadyPool
CHECK_DEADLOCK FALSE
