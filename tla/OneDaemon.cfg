SPECIFICATION Spec
CONSTANTS
  Commands = {}
  Foreign = {f1}
  Reads = {r1, r2}
  Procs = {p1, p2}
  PageSize = 1
  MaxTries = 2
  MaxFaults = 1
  None = None
INVARIANTS OneDaemon
CHECK_DEADLOCK FALSE
