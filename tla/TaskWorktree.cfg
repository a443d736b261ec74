\* The documentation calls a claim a lock of its worktree; two owners hold one.
SPECIFICATION Spec
CONSTANTS
  t1 = t1
  t2 = t2
  lead = lead
  a = a
  Principals = {lead, a}
  Leads = {lead}
  Tasks = {t1, t2}
  Blockers = {}
  Worktrees = {w1}
  Approvals = {}
  ApprovalActions <- MCTakeoverOfFirst
  Conflicts <- MCNoOverlap
  Entitled <- MCEveryone
  HandoffTargets = {}
  Risks = {"ROUTINE"}
  RequireReview = FALSE
  None = None
CHECK_DEADLOCK FALSE
INVARIANTS WorktreeHeldByOne
