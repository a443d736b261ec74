\* Two notices: the first on the screen passes for the second.
SPECIFICATION Spec
CONSTANTS
  w1 = w1
  w2 = w2
  n1 = n1
  n2 = n2
  Wrappers = {w1, w2}
  Notices = {n1, n2}
  Takeovers <- MCTakeovers
  MinInterval = 2
  Period = 3
  OfflineAfter = 4
  Scenarios <- MCScenarios
  Stale = Stale
  None = None
CHECK_DEADLOCK FALSE
PROPERTY EchoIsOwn
