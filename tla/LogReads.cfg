SPECIFICATION Spec
CONSTANTS
  Commands = {}
  Foreign = {f1, f2}
  Reads = {r1, r2}
  Procs = {p1, p2}
  PageSize = 1
  MaxTries = 1
  MaxFaults = 1
  None = None
INVARIANTS FreshReads
SYMMETRY Symmetry
CHECK_DEADLOCK FALSE
