\* Two connections of two processes, an alert, and limits that three records exceed.
\* A tick is a minute, so the half minute after an alert is less than one.
SPECIFICATION Spec
CONSTANTS
  p1 = p1  p2 = p2  c1 = c1  c2 = c2  None = None
  Pids = {p1, p2}
  MapOrder <- PidOrder
  Conns = {c1, c2}
  Lengths = {1, 2}
  Capacity = 2
  GlobalCapacity = 3
  Switchable = {p1}
  Alerts = {a1}
  Before = 1
  After = 0
  MaxRecords = 3
  MaxTime = 2
SYMMETRY ConnSymmetry
INVARIANTS TypeOK NothingLostBelowLimits
PROPERTIES NoHoles
CHECK_DEADLOCK FALSE
