\* The documentation has takeovers recheck resource overlap; they do not.
SPECIFICATION Spec
CONSTANTS
  t1 = t1
  t2 = t2
  lead = lead
  a = a
  Principals = {lead, a}
  Leads = {lead}
  Tasks = {t1, t2}
  Blockers = {}
  Worktrees = {}
  Approvals = {1}
  ApprovalActions <- MCTakeovers
  Conflicts <- MCOverlapping
  Entitled <- MCEveryone
  HandoffTargets = {}
  Risks = {"ROUTINE"}
  RequireReview = FALSE
  None = None
CHECK_DEADLOCK FALSE
INVARIANTS OverlapNeedsException
