SPECIFICATION FairSpec
CONSTANTS
  v1 = v1
  v2 = v2
  p1 = p1
  m = m
  a = a
  NULL = NULL
  Vpus = {v1, v2}
  Pool = {p1}
  Tasks = {m, a}
  Main = m
  Prios <- MCPriosOne
  Prio <- MCPrioOne
  Kinds = {"async", "net"}
  FreedReads = {FALSE}
  MaxStops = 1
  Word = 16
PROPERTIES
  ReadyRuns
CHECK_DEADLOCK FALSE
