\* One invocation with a deadline, two runtimes, two deliveries: two instances
\* of an agent are notified and race to claim, while attempts fail, lapse, are
\* retried or redelivered by hand, and reports on either route arrive late.
SPECIFICATION Spec
CONSTANTS
  Principals = {owner, agent}
  Agents = {agent}
  Owner = owner
  Orchestrators = {}
  Invocations = {i1}
  Deliveries = {d1, d2}
  Runtimes = {r1, r2}
  Endpoints = {e1}
  Connectors = {"PUSH"}
  ConsumerModes = {"EITHER"}
  Preferable = {}
  Deadlines = {"AHEAD"}
  Capacities = {1}
  MaxDeliveryAttempts = 1
  None = None
CHECK_DEADLOCK FALSE
SYMMETRY DeliverySymmetry
INVARIANTS ExclusiveRoute NotifiedIffDelivered
