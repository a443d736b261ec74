\* Two prompts for one runtime, two brokers one after the other, three processes,
\* and two faults besides callers that give up.
SPECIFICATION FairSpec
CONSTANTS
  c1 = c1
  c2 = c2
  r1 = r1
  reading = reading
  writing = writing
  Calls = {c1, c2}
  Runtimes = {r1}
  Configs = {reading, writing}
  None = None
  RuntimeOf <- MCRuntimes
  Setups <- MCSetups
  MaxBrokers = 2
  MaxProcesses = 3
  MaxFaults = 2
CHECK_DEADLOCK FALSE
INVARIANTS AnswersBelong OneProcessDriven
PROPERTIES RegisteredConfig RequestsEnd
