\* Two dispatchers and a client that redelivers by hand, one invocation, one
\* interactive runtime: snapshots go stale in every way.
SPECIFICATION DispatchSpec
CONSTANTS
  Principals = {owner, a}
  Agents = {a}
  Owner = owner
  Orchestrators = {}
  Invocations = {1}
  Deliveries = {1, 2, 3}
  Runtimes = {1}
  Endpoints = {e1}
  Connectors = {"INTERACTIVE"}
  ConsumerModes = {"EITHER"}
  Preferable = {}
  Deadlines = {"NONE"}
  Capacities = {1}
  MaxDeliveryAttempts = 2
  None = None
  Dispatchers = {x1, x2}
  Signs <- MCEverySigner
  Configured <- MCEveryConnector
  Revocable = {}
  MaxRedeliveries = 1
  MaxInterrupts = 0
CHECK_DEADLOCK FALSE
INVARIANT DeliveriesDisjoint
