\* Three commands and one writer at a table of two.
SPECIFICATION ExecSpec
CONSTANTS
  p1 = p1  p2 = p2  p3 = p3  i1 = i1  i2 = i2  i3 = i3  w1 = w1
  Procs = {p1, p2, p3}
  Ids = {i1, i2, i3}
  Writers = {w1}
  None = None
  Watcher = Watcher
  MaxProcesses = 2
  Protected = 0
  MaxFaults = 1
SYMMETRY Symmetry
CHECK_DEADLOCK FALSE
INVARIANTS ExecTypeOK ApprovedTerminal NoOrphan OneEndEvent EndPublished
PROPERTY EvictionOrder
