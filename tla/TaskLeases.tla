----------------------------- MODULE TaskLeases -----------------------------
(***************************************************************************)
(* Tasks as write leases: who owns a task, which overlaps of resources and *)
(* worktrees a claim refuses, and the approvals, handoffs, takeovers,      *)
(* blocker messages and archive runs that move a task without its owner.   *)
(* An action is one signed event: guards from ValidateTransition           *)
(* (internal/protocol/transitions.go), effects from ApplyEvent             *)
(* (internal/projection/apply.go).  Archiving reads a snapshot first and   *)
(* submits later (internal/service/service.go), so it takes two steps.     *)
(*                                                                         *)
(* Abstractions.                                                           *)
(*  - Resource lists are reduced to which tasks overlap, scopes to which   *)
(*    tasks a principal's scopes cover.                                    *)
(*  - A lease, an approval's expiry and the seven days after a completion  *)
(*    are marks that turn in a step of their own.                          *)
(*  - Every principal is ACTIVE: no event on a principal touches a task.   *)
(*  - Offers record only that the status became OFFERED: who was offered   *)
(*    a task and until when is never consulted.                            *)
(*  - Approval tiers, texts, branches and repositories are left out.       *)
(***************************************************************************)
EXTENDS Integers, FiniteSets

CONSTANTS
  Principals,
  Leads,            \* principals whose role is OWNER or ORCHESTRATOR
  Tasks, Blockers,  \* identifiers of tasks and of BLOCKER messages
  Worktrees,        \* paths commands carry
  Approvals,        \* approval identifiers, ordered
  ApprovalActions,  \* actions approvals are requested for
  Conflicts,        \* pairs of tasks whose resources overlap
  Entitled,         \* <<p, t>>: the scopes of p cover the resources of t
  HandoffTargets,   \* principals handoffs name
  Risks,            \* risk classes of tasks created
  RequireReview,    \* the project setting
  None

Takeover(t) == <<"task.takeover", t>>
SharedWrite(t, u) == <<"shared-write", t, u>>

ASSUME TaskInputAssumption ==
  /\ Leads \subseteq Principals
  /\ HandoffTargets \subseteq Principals
  /\ Entitled \subseteq Principals \X Tasks
  /\ Conflicts \subseteq SUBSET Tasks
  /\ Risks \subseteq {"ROUTINE", "ELEVATED"}
  /\ RequireReview \in BOOLEAN
  /\ Approvals \subseteq Nat

ASSUME TaskNoneAssumption == None \notin Principals \cup Worktrees

VARIABLES
  task,      \* task[t]: State.Tasks
  approval,  \* approval[a]: State.Approvals
  blocker,   \* blocker[b]: a BLOCKER message and what its recipients answered
  scanned    \* tasks an archive run has read and not yet submitted

vars == <<task, approval, blocker, scanned>>

-----------------------------------------------------------------------------
(* State *)

Working == {"CLAIMED", "IN_PROGRESS", "BLOCKED", "REVIEW"}
Finished == {"COMPLETED", "CANCELLED"}

Task ==
  [status: {"ABSENT", "OPEN", "OFFERED"} \cup Working \cup Finished,
   owner: Principals \cup {None}, handoffTo: Principals \cup {None},
   handoffBy: Principals \cup {None},         \* history: who named handoffTo
   lease: {"NONE", "RUNNING", "LAPSED"}, worktree: Worktrees \cup {None},
   risk: {"ROUTINE", "ELEVATED"}, archived: BOOLEAN,
   completedAt: {"NEVER", "RECENT", "OLD"}]   \* OLD: more than seven days ago

AbsentTask ==
  [status |-> "ABSENT", owner |-> None, handoffTo |-> None, handoffBy |-> None,
   lease |-> "NONE", worktree |-> None, risk |-> "ROUTINE", archived |-> FALSE,
   completedAt |-> "NEVER"]

Approval ==
  [status: {"ABSENT", "PENDING", "APPROVED", "REJECTED", "CONSUMED"},
   action: ApprovalActions \cup {<<>>}, expiry: {"NONE", "AHEAD", "PASSED"}]

Blocker ==
  [task: Tasks \cup {None},
   answer: [Principals -> {"NONE", "PENDING", "ACKNOWLEDGED", "REJECTED", "RESOLVED"}]]

TypeOK ==
  /\ task \in [Tasks -> Task]
  /\ approval \in [Approvals -> Approval]
  /\ blocker \in [Blockers -> Blocker]
  /\ scanned \subseteq Tasks

Init ==
  /\ task = [t \in Tasks |-> AbsentTask]
  /\ approval = [a \in Approvals |-> [status |-> "ABSENT", action |-> <<>>, expiry |-> "NONE"]]
  /\ blocker = [b \in Blockers |-> [task |-> None, answer |-> [p \in Principals |-> "NONE"]]]
  /\ scanned = {}

-----------------------------------------------------------------------------
(* Helpers of the validator *)

Exists(t) == task[t].status # "ABSENT"

EligibleApprovalsOfAnyAge(action) ==
  {a \in Approvals : approval[a].action = action /\ approval[a].status = "APPROVED"}
EligibleApprovals(action) ==
  {a \in Approvals : /\ approval[a].action = action
                     /\ approval[a].status = "APPROVED"
                     /\ approval[a].expiry # "PASSED"}

Excepted(t, u) ==
  EligibleApprovals(SharedWrite(t, u)) \cup EligibleApprovals(SharedWrite(u, t)) # {}

\* Task u keeps its resources from others, however long ago its lease lapsed.
HoldsWhileLeased(u) ==
  /\ task[u].owner # None /\ ~task[u].archived /\ task[u].status \notin Finished
  /\ task[u].lease = "RUNNING"
Holds(u) == task[u].owner # None /\ ~task[u].archived /\ task[u].status \notin Finished

\* The worktree, unlike the resources, is kept only while the lease runs.
KeepsWorktree(u, w, p) ==
  /\ Holds(u)
  /\ task[u].worktree = w /\ task[u].owner # p /\ task[u].lease = "RUNNING"

\* The owner, a lead, or anybody while nobody owns the task.
MayMove(p, t) == task[t].owner \in {None, p} \/ p \in Leads

NeedsReview(t) == task[t].risk # "ROUTINE" \/ RequireReview

-----------------------------------------------------------------------------
(* Task events *)

Create(t, worktree, risk) ==
  /\ ~Exists(t)
  /\ task' = [task EXCEPT ![t] = [AbsentTask EXCEPT
       !.status = "OPEN", !.worktree = worktree, !.risk = risk]]
  /\ UNCHANGED <<approval, blocker, scanned>>

\* task.offer is not validated: any principal, any status, owned or not.
Offer(t) ==
  /\ Exists(t)
  /\ task' = [task EXCEPT ![t].status = "OFFERED"]
  /\ UNCHANGED <<approval, blocker, scanned>>

Claim(p, t, worktree) ==
  LET tree == IF worktree = None THEN task[t].worktree ELSE worktree IN
  /\ task[t].owner = None /\ task[t].status \in {"OPEN", "OFFERED"}
  /\ <<p, t>> \in Entitled
  /\ \A u \in Tasks \ {t} : Holds(u) /\ {t, u} \in Conflicts => Excepted(t, u)
  /\ tree # None => \A u \in Tasks : ~KeepsWorktree(u, tree, p)
  /\ task' = [task EXCEPT ![t].status = "CLAIMED", ![t].owner = p,
                          ![t].lease = "RUNNING", ![t].worktree = tree]
  /\ UNCHANGED <<approval, blocker, scanned>>

\* A renewal looks at the owner alone: not at the status, the age of the
\* lease or what others have claimed since it lapsed.
Renew(p, t) ==
  /\ Exists(t) /\ task[t].owner = p
  /\ task' = [task EXCEPT ![t].lease = "RUNNING"]
  /\ UNCHANGED <<approval, blocker, scanned>>

Handoff(p, t, to) ==
  /\ Exists(t) /\ task[t].owner = p
  /\ task' = [task EXCEPT ![t].handoffTo = to, ![t].handoffBy = p]
  /\ UNCHANGED <<approval, blocker, scanned>>

HandoffAccept(p, t) ==
  /\ Exists(t) /\ task[t].handoffTo = p
  /\ task' = [task EXCEPT ![t].owner = p, ![t].handoffTo = None, ![t].handoffBy = None]
  /\ UNCHANGED <<approval, blocker, scanned>>

Move(p, t, from, to) ==
  /\ task[t].status \in from
  /\ MayMove(p, t)
  /\ task' = [task EXCEPT ![t].status = to]
  /\ UNCHANGED <<approval, blocker, scanned>>

StartOffered(p, t) == Move(p, t, {"OFFERED", "CLAIMED", "BLOCKED"}, "IN_PROGRESS")
Start(p, t) == Move(p, t, {"CLAIMED", "BLOCKED"}, "IN_PROGRESS")
Block(p, t) == Move(p, t, {"IN_PROGRESS"}, "BLOCKED")
Review(p, t) == Move(p, t, {"IN_PROGRESS"}, "REVIEW")
Cancel(p, t) == Move(p, t, {"OPEN", "OFFERED"} \cup Working, "CANCELLED")

Complete(p, t) ==
  /\ task[t].status \in {"IN_PROGRESS", "REVIEW"}
  /\ NeedsReview(t) => task[t].status = "REVIEW" /\ p \in Leads
  /\ MayMove(p, t)
  /\ task' = [task EXCEPT ![t].status = "COMPLETED", ![t].completedAt = "RECENT"]
  /\ UNCHANGED <<approval, blocker, scanned>>

\* A takeover spends the lowest eligible approval.  It checks neither status
\* nor overlap, and leaves a pending handoff and the completion time in place.
TakeOver(p, t) ==
  LET eligible == EligibleApprovals(Takeover(t)) IN
  /\ Exists(t)
  /\ \E a \in eligible :
       /\ \A other \in eligible : a <= other
       /\ approval' = [approval EXCEPT ![a].status = "CONSUMED"]
  /\ task' = [task EXCEPT ![t].status = "CLAIMED", ![t].owner = p, ![t].lease = "RUNNING"]
  /\ UNCHANGED <<blocker, scanned>>

-----------------------------------------------------------------------------
(* Approvals, blockers, archive *)

RequestApproval(a, action, expiry) ==
  /\ approval[a].status = "ABSENT"
  /\ approval' = [approval EXCEPT ![a] =
       [status |-> "PENDING", action |-> action, expiry |-> expiry]]
  /\ UNCHANGED <<task, blocker, scanned>>

Respond(p, a, answer) ==
  /\ p \in Leads /\ approval[a].status = "PENDING"
  /\ approval' = [approval EXCEPT ![a].status = answer]
  /\ UNCHANGED <<task, blocker, scanned>>

PostBlocker(b, t, recipients) ==
  /\ blocker[b].task = None
  /\ blocker' = [blocker EXCEPT ![b] =
       [task |-> t, answer |-> [p \in Principals |-> IF p \in recipients THEN "PENDING" ELSE "NONE"]]]
  /\ UNCHANGED <<task, approval, scanned>>

AnswerBlocker(p, b, answer) ==
  /\ blocker[b].answer[p] = "PENDING"
  /\ blocker' = [blocker EXCEPT ![b].answer[p] = answer]
  /\ UNCHANGED <<task, approval, scanned>>

\* Any one recipient reopens the blocked task; its owner and lease stay.
ResolveBlocker(p, b) ==
  /\ blocker[b].answer[p] = "ACKNOWLEDGED"
  /\ blocker' = [blocker EXCEPT ![b].answer[p] = "RESOLVED"]
  /\ task' = [t \in Tasks |->
       IF t = blocker[b].task /\ task[t].status = "BLOCKED"
       THEN [task[t] EXCEPT !.status = "OPEN"] ELSE task[t]]
  /\ UNCHANGED <<approval, scanned>>

ArchiveScanUnfinished ==
  /\ scanned = {}
  /\ scanned' = {t \in Tasks : task[t].completedAt # "RECENT" /\ ~task[t].archived}
  /\ UNCHANGED <<task, approval, blocker>>
ArchiveScan ==
  /\ scanned = {}
  /\ scanned' = {t \in Tasks : task[t].completedAt = "OLD" /\ ~task[t].archived}
  /\ UNCHANGED <<task, approval, blocker>>

ArchiveRun ==
  /\ scanned # {}
  /\ task' = [t \in Tasks |->
       IF t \in scanned THEN [task[t] EXCEPT !.archived = TRUE] ELSE task[t]]
  /\ scanned' = {}
  /\ UNCHANGED <<approval, blocker>>

-----------------------------------------------------------------------------
(* The passage of time *)

LeaseLapses(t) ==
  /\ task[t].lease = "RUNNING"
  /\ task' = [task EXCEPT ![t].lease = "LAPSED"]
  /\ UNCHANGED <<approval, blocker, scanned>>

CompletionGrowsOld(t) ==
  /\ task[t].completedAt = "RECENT"
  /\ task' = [task EXCEPT ![t].completedAt = "OLD"]
  /\ UNCHANGED <<approval, blocker, scanned>>

ExpiryPasses(a) ==
  /\ approval[a].expiry = "AHEAD"
  /\ approval' = [approval EXCEPT ![a].expiry = "PASSED"]
  /\ UNCHANGED <<task, blocker, scanned>>

-----------------------------------------------------------------------------

TaskStep(p, t) ==
  \/ \E worktree \in Worktrees \cup {None} : Claim(p, t, worktree)
  \/ Renew(p, t)
  \/ \E to \in HandoffTargets : Handoff(p, t, to)
  \/ HandoffAccept(p, t)
  \/ Start(p, t)
  \/ Block(p, t)
  \/ Review(p, t)
  \/ Cancel(p, t)
  \/ Complete(p, t)
  \/ TakeOver(p, t)

\* Steps any principal may take.
SharedStep(t) ==
  \/ \E worktree \in Worktrees \cup {None}, risk \in Risks : Create(t, worktree, risk)
  \/ Offer(t)
  \/ LeaseLapses(t)
  \/ CompletionGrowsOld(t)

ApprovalStep(a) ==
  \/ \E action \in ApprovalActions, expiry \in {"NONE", "AHEAD"} : RequestApproval(a, action, expiry)
  \/ \E p \in Principals, answer \in {"APPROVED", "REJECTED"} : Respond(p, a, answer)
  \/ ExpiryPasses(a)

BlockerStep(b) ==
  \/ \E t \in Tasks, recipients \in SUBSET Principals \ {{}} : PostBlocker(b, t, recipients)
  \/ \E p \in Principals, answer \in {"ACKNOWLEDGED", "REJECTED"} : AnswerBlocker(p, b, answer)
  \/ \E p \in Principals : ResolveBlocker(p, b)

Next ==
  \/ \E p \in Principals, t \in Tasks : TaskStep(p, t)
  \/ \E t \in Tasks : SharedStep(t)
  \/ \E a \in Approvals : ApprovalStep(a)
  \/ \E b \in Blockers : BlockerStep(b)
  \/ ArchiveScan
  \/ ArchiveRun

Spec == Init /\ [][Next]_vars

-----------------------------------------------------------------------------
(* Safety *)

Spent(a) == approval[a].status = "CONSUMED"
Approved(a) == approval[a].status = "APPROVED"

\* Nobody works on a task that nobody owns, whatever offers, handoffs,
\* takeovers and blockers did to it in between.
WorkHasOwner ==
  \A t \in Tasks : task[t].status \in Working =>
    task[t].owner # None /\ task[t].lease # "NONE"

\* Two tasks with overlapping resources are worked on at once only under an
\* approved shared write, or after a takeover of one of them: lapsed leases,
\* renewals, handoffs, offers and blockers never let a second writer in.
OverlapIsGoverned ==
  \A t, u \in Tasks :
    /\ t # u /\ {t, u} \in Conflicts
    /\ task[t].status \in Working /\ task[u].status \in Working
    => \E a \in Approvals :
         \/ Approved(a) /\ approval[a].action \in {SharedWrite(t, u), SharedWrite(u, t)}
         \/ Spent(a) /\ approval[a].action \in {Takeover(t), Takeover(u)}

\* Archived work is finished work, unless a takeover reopened it.
ArchivedIsFinishedOrTaken ==
  \A t \in Tasks : task[t].archived /\ task[t].status \in Working =>
    \E a \in Approvals : Spent(a) /\ approval[a].action = Takeover(t)

\* A pending handoff is the present owner's: only a takeover leaves one behind
\* that an earlier owner offered, and that its target can still accept.
HandoffIsOwnersOrStale ==
  \A t \in Tasks : task[t].handoffTo # None /\ task[t].handoffBy # task[t].owner =>
    \E a \in Approvals : Spent(a) /\ approval[a].action = Takeover(t)

(* What a step may never do *)

\* An owned task changes hands by an accepted handoff, which cannot be accepted
\* twice, or by a takeover that spends an approval still in force for it.
Reassignment ==
  [][\A t \in Tasks :
       task[t].owner # None /\ task'[t].owner # task[t].owner =>
         \/ task[t].handoffTo = task'[t].owner /\ task'[t].handoffTo = None
         \/ \E a \in Approvals :
              /\ Approved(a) /\ Spent(a)' /\ approval[a].expiry # "PASSED"
              /\ approval[a].action = Takeover(t)]_vars

\* A spent or refused approval never authorizes anything again.
ApprovalsAreFinal ==
  [][\A a \in Approvals :
       approval[a].status \in {"CONSUMED", "REJECTED"} => approval'[a] = [approval[a] EXCEPT
         !.expiry = approval'[a].expiry]]_vars

-----------------------------------------------------------------------------
(* What the documentation says and the code does not do *)

\* docs/governance.md: overlapping write resources are rejected unless a
\* governed shared-write exception exists; docs/site/guide/work.md says that
\* the authority rechecks resource overlap on a takeover.
OverlapNeedsException ==
  \A t, u \in Tasks :
    /\ t # u /\ {t, u} \in Conflicts
    /\ task[t].status \in Working /\ task[u].status \in Working
    => \E a \in Approvals :
         Approved(a) /\ approval[a].action \in {SharedWrite(t, u), SharedWrite(u, t)}

\* docs/agent-comms-feedback-2026-08-06.md: a claim with a worktree acquires a
\* time-boxed lock with real conflict detection; so while two leases on one
\* worktree run, the work under them has one owner.
WorktreeHeldByOne ==
  \A t, u \in Tasks, w \in Worktrees :
    /\ task[t].worktree = w /\ task[u].worktree = w
    /\ task[t].status \in Working /\ task[u].status \in Working
    /\ task[t].lease = "RUNNING" /\ task[u].lease = "RUNNING"
    => task[t].owner = task[u].owner

=============================================================================
