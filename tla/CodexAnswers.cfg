\* A codex turn cut off as a slow reader: the next one gets its answer.
SPECIFICATION Spec
CONSTANTS
  c1 = c1
  c2 = c2
  r1 = r1
  reading = reading
  writing = writing
  Calls = {c1, c2}
  Runtimes = {r1}
  Configs = {reading, writing}
  None = None
  RuntimeOf <- MCRuntimes
  Setups <- MCSetups
  MaxBrokers = 2
  MaxProcesses = 3
  MaxFaults = 2
CHECK_DEADLOCK FALSE
INVARIANT AnswersAreOwn
