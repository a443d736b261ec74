\* Two workers of two runtimes, one session, which exists or is to be created,
\* two markers, one change by people, and one failure or kill.
SPECIFICATION FairSpec
CONSTANTS
  Workers = {w1, w2}
  Runtimes = {r1, r2}
  Sessions = {s1}
  None = None
  Permissions = {"*", "edit"}
  HumanRules <- MCHumanRules
  AgentRules <- MCAgentRules
  MaxMarkers = 2
  MaxEdits = 1
  MaxFaults = 1
INVARIANTS MarkersAccounted RulesRecognised PromptsRestricted
PROPERTY RecoveryCompletes
