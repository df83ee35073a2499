SPECIFICATION Spec
CONSTANTS
  u1 = u1
  u2 = u2
  once = once
  other = other
  tick = tick
  frame = frame
  h0 = h0
  h1 = h1
  h2 = h2
  h3 = h3
  h4 = h4
  h5 = h5
  NULL = NULL
  Daemon = Daemon
  Users = {u1, u2}
  Timers <- MCTimers
  OnStack = {frame}
  Period <- MCPeriod
  Delays = {1, 2}
  Starts <- Fresh
  K = 2
  Horizon = 3
  FreedPeriods = {0}
INVARIANTS
  NoSpinDeadlock
CHECK_DEADLOCK FALSE
