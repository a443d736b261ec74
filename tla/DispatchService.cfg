\* One dispatcher that is cut short once, two invocations, two attempts for each:
\* what is served in the end, and how retry times hold.
SPECIFICATION DispatchSpec
CONSTANTS
  Principals = {owner, a}
  Agents = {a}
  Owner = owner
  Orchestrators = {}
  Invocations = {1, 2}
  Deliveries = {1, 2, 3, 4}
  Runtimes = {1}
  Endpoints = {}
  Connectors = {"PUSH"}
  ConsumerModes = {"EITHER"}
  Preferable = {}
  Deadlines = {"NONE"}
  Capacities = {1}
  MaxDeliveryAttempts = 2
  None = None
  Dispatchers = {x1}
  Signs <- MCEverySigner
  Configured <- MCEveryConnector
  Revocable = {}
  MaxRedeliveries = 0
  MaxInterrupts = 1
CHECK_DEADLOCK FALSE
PROPERTIES RetryTimesKept AttemptsConclude PendingIsServed
