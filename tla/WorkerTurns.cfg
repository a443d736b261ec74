\* One runtime, two requests: a worker with one failure, or two without, and one
\* decision of people.
SPECIFICATION WorkerSpec
CONSTANTS
  w1 = w1
  w2 = w2
  i1 = i1
  i2 = i2
  Principals = {owner, a}
  Agents = {a}
  Owner = owner
  Orchestrators = {}
  Invocations = {i1, i2}
  Deliveries = {}
  Runtimes = {r1}
  Endpoints = {}
  Connectors = {"PULL"}
  ConsumerModes = {"EITHER"}
  Preferable = {}
  Deadlines = {"NONE"}
  Capacities = {1, 2}
  MaxDeliveryAttempts = 1
  None = None
  Workers = {w1, w2}
  Actor = a
  Served = r1
  MinInterval = 2
  WriteInterval = 3
  ListenWait = 2
  OfflineAfter = 9
  Scenarios <- MCScenarios
CHECK_DEADLOCK FALSE
INVARIANTS NothingAbandoned ShownWhileServing
PROPERTIES OpenIsTaken TurnedAwayForCause NeverOvercommits ImplementsEngagement
