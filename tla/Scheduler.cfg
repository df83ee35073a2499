SPECIFICATION Spec
CONSTANTS
  v1 = v1
  v2 = v2
  p1 = p1
  m = m
  a = a
  NULL = NULL
  Vpus = {v1, v2}
  Pool = {p1}
  Tasks = {m, a}
  Main = m
  Prios <- MCPrios
  Prio <- MCPrio
  Kinds = {"yield", "plain", "async", "net"}
  FreedReads = {TRUE, FALSE}
  MaxStops = 1
  Word = 16
SYMMETRY Symmetry
INVARIANTS
  CountersExact
  NoLostWakeup
CHECK_DEADLOCK FALSE
