\* One worker and one change by people, at any moment.
SPECIFICATION Spec
CONSTANTS
  Workers = {w1}
  Runtimes = {r1}
  Sessions = {s1, s2}
  None = None
  Permissions = {"*", "edit"}
  HumanRules <- MCHumanRules
  AgentRules <- MCAgentRules
  MaxMarkers = 1
  MaxEdits = 1
  MaxFaults = 0
PROPERTY OutsideRulesKept
