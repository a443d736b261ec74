\* The documentation has an expired attempt recorded before the retry; a dispatch
\* that saw it running retries without.
SPECIFICATION DispatchSpec
CONSTANTS
  Principals = {owner, a}
  Agents = {a}
  Owner = owner
  Orchestrators = {}
  Invocations = {1}
  Deliveries = {1, 2, 3}
  Runtimes = {1}
  Endpoints = {}
  Connectors = {"PUSH"}
  ConsumerModes = {"EITHER"}
  Preferable = {}
  Deadlines = {"NONE"}
  Capacities = {1}
  MaxDeliveryAttempts = 2
  None = None
  Dispatchers = {x1}
  Signs <- MCEverySigner
  Configured <- MCEveryConnector
  Revocable = {}
  MaxRedeliveries = 0
  MaxInterrupts = 1
CHECK_DEADLOCK FALSE
PROPERTIES LapsedClosedFirst
