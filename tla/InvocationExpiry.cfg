\* The documentation calls four statuses terminal; invocation.expire does not.
SPECIFICATION Spec
CONSTANTS
  Principals = {owner, agent}
  Agents = {agent}
  Owner = owner
  Orchestrators = {}
  Invocations = {i1}
  Deliveries = {}
  Runtimes = {r1}
  Endpoints = {e1}
  Connectors = {"PULL"}
  ConsumerModes = {"EITHER"}
  Preferable = {}
  Deadlines = {"AHEAD"}
  Capacities = {1}
  MaxDeliveryAttempts = 1
  None = None
CHECK_DEADLOCK FALSE
PROPERTIES TerminalStatusFinal
