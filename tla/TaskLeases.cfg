\* Two overlapping tasks with an exception and a takeover, handoffs and a blocker of
\* the first: every way to a second writer, and who owns a task and why.
SPECIFICATION Spec
CONSTANTS
  t1 = t1
  t2 = t2
  lead = lead
  a = a
  Principals = {lead, a}
  Leads = {lead}
  Tasks = {t1, t2}
  Blockers = {b1}
  Worktrees = {}
  Approvals = {1}
  ApprovalActions <- MCTakeovers
  Conflicts <- MCOverlapping
  Entitled <- MCScoped
  HandoffTargets = {a}
  Risks = {"ROUTINE", "ELEVATED"}
  RequireReview = FALSE
  None = None
CONSTRAINT SecondIsPlain
CHECK_DEADLOCK FALSE
INVARIANTS OverlapIsGoverned ArchivedIsFinishedOrTaken WorkHasOwner
PROPERTY Reassignment
