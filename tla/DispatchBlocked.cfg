\* The test has unrelated work dispatched while an expired attempt is recovered;
\* the attempt of a revoked target holds everything up.
SPECIFICATION DispatchSpec
CONSTANTS
  Principals = {owner, a, b}
  Agents = {a, b}
  Owner = owner
  Orchestrators = {}
  Invocations = {1, 2}
  Deliveries = {1, 2}
  Runtimes = {1, 2}
  Endpoints = {}
  Connectors = {"PUSH"}
  ConsumerModes = {"EITHER"}
  Preferable = {}
  Deadlines = {"NONE"}
  Capacities = {1}
  MaxDeliveryAttempts = 1
  None = None
  Dispatchers = {x1}
  Signs <- MCEverySigner
  Configured <- MCEveryConnector
  Revocable = {a}
  MaxRedeliveries = 0
  MaxInterrupts = 0
CHECK_DEADLOCK FALSE
PROPERTIES UnrelatedStillServed
