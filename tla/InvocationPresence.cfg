\* The documentation takes a runtime with an old heartbeat for offline; claims do not.
SPECIFICATION Spec
CONSTANTS
  Principals = {owner, agent}
  Agents = {agent}
  Owner = owner
  Orchestrators = {}
  Invocations = {i1}
  Deliveries = {}
  Runtimes = {r1}
  Endpoints = {e1}
  Connectors = {"PULL"}
  ConsumerModes = {"EITHER"}
  Preferable = {}
  Deadlines = {"NONE"}
  Capacities = {1}
  MaxDeliveryAttempts = 1
  None = None
CHECK_DEADLOCK FALSE
PROPERTIES ClaimsNeedPresence
