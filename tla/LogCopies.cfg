SPECIFICATION Spec
CONSTANTS
  Commands = {c1}
  Foreign = {f1}
  Reads = {}
  Procs = {p1, p2}
  PageSize = 1
  MaxTries = 2
  MaxFaults = 1
  None = None

PROPERTIES ImplementsSignedLog CacheCatchesUp
CHECK_DEADLOCK FALSE
