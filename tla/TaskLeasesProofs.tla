-------------------------- MODULE TaskLeasesProofs --------------------------
(***************************************************************************)
(* The safety properties of TaskLeases hold for every set of tasks,        *)
(* principals, approvals and blockers.  Who may work on a task depends on  *)
(* the history of its completion, of its handoffs and of the approvals     *)
(* spent on it; the inductive invariant ties the three together.           *)
(***************************************************************************)
EXTENDS TaskLeases, TLAPS

-----------------------------------------------------------------------------
(* The inductive invariant *)

\* A takeover of t has spent an approval.
Taken(t) == \E a \in Approvals : Spent(a) /\ approval[a].action = Takeover(t)

Shared(t, u) ==
  \E a \in Approvals : Approved(a) /\ approval[a].action \in {SharedWrite(t, u), SharedWrite(u, t)}

\* What is not there yet has no history.
AbsentIsFresh ==
  \A t \in Tasks : task[t].status = "ABSENT" => task[t].owner = None /\ task[t].completedAt = "NEVER"

\* Owners are handed over, never removed, so what was offered or completed once
\* cannot be claimed again.
HistoryHasOwner ==
  \A t \in Tasks : task[t].handoffTo # None \/ task[t].completedAt # "NEVER" => task[t].owner # None

\* Only what was completed is archived, and only a takeover brings it back.
ArchiveFollowsCompletion ==
  \A t \in Tasks :
    /\ task[t].archived \/ t \in scanned => task[t].completedAt # "NEVER"
    /\ task[t].completedAt # "NEVER" /\ task[t].status \in Working => Taken(t)

IInv ==
  /\ TypeOK /\ AbsentIsFresh /\ WorkHasOwner /\ HistoryHasOwner
  /\ ArchiveFollowsCompletion /\ HandoffIsOwnersOrStale /\ OverlapIsGoverned

-----------------------------------------------------------------------------
(* Types *)

LEMMA TaskTypes ==
  ASSUME TypeOK, NEW p \in Principals, NEW t \in Tasks, TaskStep(p, t)
  PROVE  TypeOK'
  <1> USE TaskInputAssumption DEF TypeOK
  <1>0. task[t] \in Task
    OBVIOUS
  <1>1. ASSUME NEW worktree \in Worktrees \cup {None}, Claim(p, t, worktree) PROVE TypeOK'
    <2> DEFINE tree == IF worktree = None THEN task[t].worktree ELSE worktree
               new == [task[t] EXCEPT !.status = "CLAIMED", !.owner = p,
                                      !.lease = "RUNNING", !.worktree = tree]
    <2>1. new \in Task
      BY <1>0 DEF Task, Working, Finished
    <2>2. task' = [task EXCEPT ![t] = new] /\ UNCHANGED <<approval, blocker, scanned>>
      BY <1>1 DEF Claim
    <2> QED
      BY <2>1, <2>2
  <1>2. CASE Renew(p, t)
    BY <1>0, <1>2 DEF Renew, Task
  <1>3. ASSUME NEW to \in HandoffTargets, Handoff(p, t, to) PROVE TypeOK'
    <2> DEFINE new == [task[t] EXCEPT !.handoffTo = to, !.handoffBy = p]
    <2>1. new \in Task
      BY <1>0 DEF Task, Working, Finished
    <2>2. task' = [task EXCEPT ![t] = new] /\ UNCHANGED <<approval, blocker, scanned>>
      BY <1>3 DEF Handoff
    <2> QED
      BY <2>1, <2>2
  <1>4. CASE HandoffAccept(p, t)
    <2> DEFINE new == [task[t] EXCEPT !.owner = p, !.handoffTo = None, !.handoffBy = None]
    <2>1. new \in Task
      BY <1>0 DEF Task, Working, Finished
    <2>2. task' = [task EXCEPT ![t] = new] /\ UNCHANGED <<approval, blocker, scanned>>
      BY <1>4 DEF HandoffAccept
    <2> QED
      BY <2>1, <2>2
  <1>5. CASE Start(p, t) \/ Block(p, t) \/ Review(p, t) \/ Cancel(p, t)
    BY <1>0, <1>5 DEF Start, Block, Review, Cancel, Move, Task, Working, Finished
  <1>6. CASE Complete(p, t)
    <2> DEFINE new == [task[t] EXCEPT !.status = "COMPLETED", !.completedAt = "RECENT"]
    <2>1. new \in Task
      BY <1>0 DEF Task, Working, Finished
    <2>2. task' = [task EXCEPT ![t] = new] /\ UNCHANGED <<approval, blocker, scanned>>
      BY <1>6 DEF Complete
    <2> QED
      BY <2>1, <2>2
  <1>7. CASE TakeOver(p, t)
    <2> DEFINE new == [task[t] EXCEPT !.status = "CLAIMED", !.owner = p, !.lease = "RUNNING"]
    <2>1. new \in Task
      BY <1>0 DEF Task, Working, Finished
    <2>2. task' = [task EXCEPT ![t] = new] /\ UNCHANGED <<blocker, scanned>>
      BY <1>7 DEF TakeOver
    <2>3. PICK a \in Approvals : approval' = [approval EXCEPT ![a].status = "CONSUMED"]
      BY <1>7 DEF TakeOver, EligibleApprovals
    <2>4. approval' \in [Approvals -> Approval]
      BY <2>3 DEF Approval
    <2> QED
      BY <2>1, <2>2, <2>4
  <1> QED
    BY <1>1, <1>2, <1>3, <1>4, <1>5, <1>6, <1>7 DEF TaskStep

LEMMA SharedTypes ==
  ASSUME TypeOK, NEW t \in Tasks, SharedStep(t)
  PROVE  TypeOK'
  <1> USE TaskInputAssumption DEF TypeOK
  <1>0. task[t] \in Task
    OBVIOUS
  <1>1. ASSUME NEW worktree \in Worktrees \cup {None}, NEW risk \in Risks, Create(t, worktree, risk)
        PROVE  TypeOK'
    <2> DEFINE new == [AbsentTask EXCEPT !.status = "OPEN", !.worktree = worktree, !.risk = risk]
    <2>1. new \in Task
      BY DEF AbsentTask, Task
    <2>2. task' = [task EXCEPT ![t] = new] /\ UNCHANGED <<approval, blocker, scanned>>
      BY <1>1 DEF Create
    <2> QED
      BY <2>1, <2>2
  <1>2. CASE Offer(t)
    BY <1>0, <1>2 DEF Offer, Task
  <1>3. CASE LeaseLapses(t)
    BY <1>0, <1>3 DEF LeaseLapses, Task
  <1>4. CASE CompletionGrowsOld(t)
    BY <1>0, <1>4 DEF CompletionGrowsOld, Task
  <1> QED
    BY <1>1, <1>2, <1>3, <1>4 DEF SharedStep

LEMMA ApprovalTypes ==
  ASSUME TypeOK, NEW a \in Approvals, ApprovalStep(a)
  PROVE  TypeOK'
  <1> USE DEF TypeOK, Approval
  <1>1. ASSUME NEW action \in ApprovalActions, NEW expiry \in {"NONE", "AHEAD"},
               RequestApproval(a, action, expiry)
        PROVE  TypeOK'
    BY <1>1 DEF RequestApproval
  <1>2. ASSUME NEW p \in Principals, NEW answer \in {"APPROVED", "REJECTED"}, Respond(p, a, answer)
        PROVE  TypeOK'
    BY <1>2 DEF Respond
  <1>3. CASE ExpiryPasses(a)
    BY <1>3 DEF ExpiryPasses
  <1> QED
    BY <1>1, <1>2, <1>3 DEF ApprovalStep

LEMMA BlockerTypes ==
  ASSUME TypeOK, NEW b \in Blockers, BlockerStep(b)
  PROVE  TypeOK'
  <1> USE DEF TypeOK, Blocker
  <1>1. ASSUME NEW t \in Tasks, NEW recipients \in SUBSET Principals, PostBlocker(b, t, recipients)
        PROVE  TypeOK'
    BY <1>1 DEF PostBlocker
  <1>2. ASSUME NEW p \in Principals, NEW answer \in {"ACKNOWLEDGED", "REJECTED"},
               AnswerBlocker(p, b, answer)
        PROVE  TypeOK'
    BY <1>2 DEF AnswerBlocker
  <1>3. ASSUME NEW p \in Principals, ResolveBlocker(p, b) PROVE TypeOK'
    <2>1. ASSUME NEW t \in Tasks PROVE task'[t] \in Task
      <3>1. task[t] \in Task /\ [task[t] EXCEPT !.status = "OPEN"] \in Task
        BY DEF Task
      <3> QED
        BY <1>3, <3>1 DEF ResolveBlocker
    <2>2. blocker' \in [Blockers -> Blocker]
      BY <1>3 DEF ResolveBlocker
    <2> QED
      BY <1>3, <2>1, <2>2 DEF ResolveBlocker
  <1> QED
    BY <1>1, <1>2, <1>3 DEF BlockerStep

LEMMA TypesStep == TypeOK /\ [Next]_vars => TypeOK'
  <1> SUFFICES ASSUME TypeOK, [Next]_vars PROVE TypeOK'
    OBVIOUS
  <1>1. CASE UNCHANGED vars
    BY <1>1 DEF TypeOK, vars
  <1>2. CASE ArchiveScan
    BY <1>2 DEF ArchiveScan, TypeOK
  <1>3. CASE ArchiveRun
    <2>1. ASSUME NEW t \in Tasks PROVE task'[t] \in Task
      <3>1. task[t] \in Task /\ [task[t] EXCEPT !.archived = TRUE] \in Task
        BY DEF TypeOK, Task
      <3> QED
        BY <1>3, <3>1 DEF ArchiveRun
    <2> QED
      BY <1>3, <2>1 DEF ArchiveRun, TypeOK
  <1> QED
    BY <1>1, <1>2, <1>3, TaskTypes, SharedTypes, ApprovalTypes, BlockerTypes DEF Next

-----------------------------------------------------------------------------
(* What a step may do to one task *)

Created(t) ==
  /\ task[t].status = "ABSENT"
  /\ task'[t].status = "OPEN" /\ task'[t].owner = None /\ task'[t].handoffTo = None
  /\ task'[t].completedAt = "NEVER" /\ ~task'[t].archived

Claimed(t) ==
  /\ task[t].owner = None /\ task[t].status \in {"OPEN", "OFFERED"}
  /\ \A u \in Tasks \ {t} : Holds(u) /\ {t, u} \in Conflicts => Excepted(t, u)
  /\ \A u \in Tasks \ {t} : task'[u] = task[u]
  /\ task'[t].status = "CLAIMED" /\ task'[t].owner \in Principals /\ task'[t].lease = "RUNNING"
  /\ task'[t].handoffTo = task[t].handoffTo /\ task'[t].handoffBy = task[t].handoffBy
  /\ task'[t].completedAt = task[t].completedAt /\ task'[t].archived = task[t].archived

TakenOver(t) ==
  /\ \E a \in EligibleApprovals(Takeover(t)) : approval' = [approval EXCEPT ![a].status = "CONSUMED"]
  /\ task'[t].status = "CLAIMED" /\ task'[t].owner \in Principals /\ task'[t].lease = "RUNNING"
  /\ task'[t].completedAt = task[t].completedAt /\ task'[t].archived = task[t].archived
  /\ Exists(t)

HandedOver(t) ==
  /\ Exists(t)
  /\ task[t].handoffTo # None /\ task'[t].owner = task[t].handoffTo
  /\ task'[t].handoffTo = None /\ task'[t].status = task[t].status
  /\ task'[t].lease = task[t].lease
  /\ task'[t].completedAt = task[t].completedAt /\ task'[t].archived = task[t].archived

Named(t) ==
  /\ Exists(t)
  /\ task[t].owner # None /\ task'[t].owner = task[t].owner
  /\ task'[t].handoffBy = task[t].owner
  /\ task'[t].status = task[t].status /\ task'[t].lease = task[t].lease
  /\ task'[t].completedAt = task[t].completedAt /\ task'[t].archived = task[t].archived

\* Neither the owner nor the pending handoff changes, and no work begins.
Moved(t) ==
  /\ Exists(t) => task'[t].status # "ABSENT"
  /\ ~Exists(t) => task'[t].status = "ABSENT"
  /\ task'[t].owner = task[t].owner
  /\ task'[t].handoffTo = task[t].handoffTo /\ task'[t].handoffBy = task[t].handoffBy
  /\ task'[t].status \in Working => task[t].status \in Working
  /\ task'[t].lease = "NONE" => task[t].lease = "NONE"
  /\ task'[t].completedAt = "NEVER" <=> task[t].completedAt = "NEVER"
  /\ task'[t].archived => task[t].archived \/ t \in scanned

Completed(t) ==
  /\ task[t].status \in Working /\ task'[t].status = "COMPLETED"
  /\ task'[t].owner = task[t].owner
  /\ task'[t].handoffTo = task[t].handoffTo /\ task'[t].handoffBy = task[t].handoffBy
  /\ task'[t].completedAt # "NEVER" /\ task'[t].archived = task[t].archived

Effect(t) ==
  \/ Created(t) \/ Claimed(t) \/ TakenOver(t) \/ HandedOver(t) \/ Named(t) \/ Moved(t)
  \/ Completed(t)

LEMMA TaskEffects ==
  ASSUME TypeOK, NEW p \in Principals, NEW u \in Tasks, TaskStep(p, u), NEW t \in Tasks
  PROVE  Effect(t)
  <1> USE TaskNoneAssumption DEF TypeOK
  <1>0. task[t] \in Task /\ p # None
    OBVIOUS
  <1> DEFINE Same == task'[t] = task[t]
  <1>1. Same => Moved(t)
    BY DEF Moved, Exists
  <1>2. ASSUME NEW worktree, Claim(p, u, worktree) PROVE Same \/ Claimed(t)
    BY <1>0, <1>2 DEF Claim, Claimed
  <1>3. CASE Renew(p, u)
    <2>1. Same \/ Moved(t)
      BY <1>0, <1>3 DEF Renew, Moved, Exists
    <2> QED
      BY <1>1, <2>1 DEF Effect
  <1>4. ASSUME NEW to, Handoff(p, u, to) PROVE Same \/ Named(t)
    BY <1>0, <1>4 DEF Handoff, Named, Exists
  <1>5. CASE HandoffAccept(p, u)
    <2>1. Same \/ HandedOver(t)
      BY <1>0, <1>5 DEF HandoffAccept, HandedOver, Exists
    <2> QED
      BY <1>1, <2>1 DEF Effect
  <1>6. CASE Start(p, u) \/ Block(p, u) \/ Review(p, u) \/ Cancel(p, u)
    <2>1. Same \/ Moved(t)
      BY <1>0, <1>6 DEF Start, Block, Review, Cancel, Move, Moved, Exists, Working, Task
    <2> QED
      BY <1>1, <2>1 DEF Effect
  <1>7. CASE Complete(p, u)
    <2>1. Same \/ Completed(t)
      BY <1>0, <1>7 DEF Complete, Completed, Working
    <2> QED
      BY <1>1, <2>1 DEF Effect
  <1>8. CASE TakeOver(p, u)
    <2>1. \E a \in EligibleApprovals(Takeover(u)) :
             approval' = [approval EXCEPT ![a].status = "CONSUMED"]
      BY <1>8 DEF TakeOver
    <2>2. /\ Exists(u)
          /\ task' = [task EXCEPT ![u].status = "CLAIMED", ![u].owner = p, ![u].lease = "RUNNING"]
      BY <1>8 DEF TakeOver
    <2>3. Same \/ TakenOver(t)
      <3>1. CASE u # t
        BY <2>2, <3>1
      <3>2. CASE u = t
        <4>1. task'[t] = [task[t] EXCEPT !.status = "CLAIMED", !.owner = p, !.lease = "RUNNING"]
          BY <2>2, <3>2
        <4> QED
          BY <1>0, <2>1, <2>2, <3>2, <4>1 DEF TakenOver, Task
      <3> QED
        BY <3>1, <3>2
    <2> QED
      BY <1>1, <2>3 DEF Effect
  <1> QED
    BY <1>1, <1>2, <1>3, <1>4, <1>5, <1>6, <1>7, <1>8 DEF TaskStep, Effect

LEMMA SharedEffects ==
  ASSUME TypeOK, NEW u \in Tasks, SharedStep(u), NEW t \in Tasks
  PROVE  Created(t) \/ Moved(t)
  <1> USE DEF TypeOK
  <1>0. task[t] \in Task
    OBVIOUS
  <1> DEFINE Same == task'[t] = task[t]
  <1>1. Same => Moved(t)
    BY DEF Moved, Exists
  <1>2. ASSUME NEW worktree, NEW risk, Create(u, worktree, risk) PROVE Same \/ Created(t)
    BY <1>0, <1>2 DEF Create, Created, Exists, AbsentTask
  <1>3. CASE Offer(u)
    BY <1>0, <1>1, <1>3 DEF Offer, Moved, Exists, Working
  <1>4. CASE LeaseLapses(u)
    BY <1>0, <1>1, <1>4 DEF LeaseLapses, Moved, Exists
  <1>5. CASE CompletionGrowsOld(u)
    BY <1>0, <1>1, <1>5 DEF CompletionGrowsOld, Moved, Exists
  <1> QED
    BY <1>1, <1>2, <1>3, <1>4, <1>5 DEF SharedStep

LEMMA Effects ==
  ASSUME TypeOK, [Next]_vars, NEW t \in Tasks
  PROVE  Effect(t)
  <1>1. task'[t] = task[t] => Moved(t)
    BY DEF Moved, Exists
  <1>2. CASE UNCHANGED vars \/ ArchiveScan
    BY <1>1, <1>2 DEF vars, ArchiveScan, Effect
  <1>3. CASE ArchiveRun
    <2>1. task[t] \in Task
      BY DEF TypeOK
    <2>2. task'[t] = IF t \in scanned THEN [task[t] EXCEPT !.archived = TRUE] ELSE task[t]
      BY <1>3 DEF ArchiveRun
    <2>3. Moved(t)
      BY <2>1, <2>2 DEF Moved, Exists, Task
    <2> QED
      BY <2>3 DEF Effect
  <1>4. ASSUME NEW a \in Approvals, ApprovalStep(a) PROVE Effect(t)
    <2>1. UNCHANGED task
      BY <1>4 DEF ApprovalStep, RequestApproval, Respond, ExpiryPasses
    <2> QED
      BY <1>1, <2>1 DEF Effect
  <1>5. ASSUME NEW b \in Blockers, BlockerStep(b) PROVE Effect(t)
    <2>1. CASE UNCHANGED task
      BY <1>1, <2>1 DEF Effect
    <2>2. ASSUME NEW p \in Principals, ResolveBlocker(p, b) PROVE Moved(t)
      <3>1. task[t] \in Task
        BY DEF TypeOK
      <3>2. task'[t] = IF t = blocker[b].task /\ task[t].status = "BLOCKED"
                       THEN [task[t] EXCEPT !.status = "OPEN"] ELSE task[t]
        BY <2>2 DEF ResolveBlocker
      <3> QED
        BY <3>1, <3>2 DEF Moved, Exists, Task, Working
    <2> QED
      BY <1>5, <2>1, <2>2 DEF BlockerStep, PostBlocker, AnswerBlocker, Effect
  <1> QED
    BY <1>2, <1>3, <1>4, <1>5, TaskEffects, SharedEffects DEF Next, Effect

-----------------------------------------------------------------------------
(* What a step may do to an approval *)

LEMMA ActionsDiffer ==
  ASSUME NEW t, NEW u, NEW v
  PROVE  Takeover(t) # SharedWrite(u, v)
  BY DEF Takeover, SharedWrite

ApprovalKept(a) ==
  /\ approval[a].status # "ABSENT" => approval'[a].action = approval[a].action
  /\ approval[a].status \in {"CONSUMED", "REJECTED"} => approval'[a].status = approval[a].status
  /\ Approved(a) /\ ~(\E t \in Tasks : approval[a].action = Takeover(t)) => Approved(a)'

LEMMA ApprovalsKept ==
  ASSUME TypeOK, [Next]_vars, NEW a \in Approvals
  PROVE  ApprovalKept(a)
  <1> USE DEF TypeOK, ApprovalKept, Approved
  <1>0. approval[a] \in Approval
    OBVIOUS
  <1>1. UNCHANGED approval => ApprovalKept(a)
    OBVIOUS
  <1>2. ASSUME NEW b \in Approvals, NEW action, NEW expiry, RequestApproval(b, action, expiry)
        PROVE  ApprovalKept(a)
    BY <1>0, <1>2 DEF RequestApproval
  <1>3. ASSUME NEW p, NEW b \in Approvals, NEW answer, Respond(p, b, answer)
        PROVE  ApprovalKept(a)
    BY <1>0, <1>3 DEF Respond
  <1>4. ASSUME NEW b \in Approvals, ExpiryPasses(b) PROVE ApprovalKept(a)
    BY <1>0, <1>4 DEF ExpiryPasses
  <1>5. ASSUME NEW p, NEW t \in Tasks, TakeOver(p, t) PROVE ApprovalKept(a)
    <2>1. PICK b \in EligibleApprovals(Takeover(t)) :
             approval' = [approval EXCEPT ![b].status = "CONSUMED"]
      BY <1>5 DEF TakeOver
    <2>2. b \in Approvals /\ approval[b].action = Takeover(t) /\ approval[b].status = "APPROVED"
      BY DEF EligibleApprovals
    <2> QED
      BY <1>0, <2>1, <2>2
  <1>6. ASSUME NEW p \in Principals, NEW t \in Tasks, TaskStep(p, t) PROVE ApprovalKept(a)
    BY <1>1, <1>5, <1>6
    DEF TaskStep, Claim, Renew, Handoff, HandoffAccept, Start, Block, Review, Cancel, Move, Complete
  <1>7. ASSUME NEW t \in Tasks, SharedStep(t) PROVE ApprovalKept(a)
    BY <1>1, <1>7 DEF SharedStep, Create, Offer, LeaseLapses, CompletionGrowsOld
  <1>8. ASSUME NEW b \in Blockers, BlockerStep(b) PROVE ApprovalKept(a)
    BY <1>1, <1>8 DEF BlockerStep, PostBlocker, AnswerBlocker, ResolveBlocker
  <1>9. ASSUME NEW b \in Approvals, ApprovalStep(b) PROVE ApprovalKept(a)
    BY <1>2, <1>3, <1>4, <1>9 DEF ApprovalStep
  <1> QED
    BY <1>1, <1>6, <1>7, <1>8, <1>9 DEF Next, vars, ArchiveScan, ArchiveRun

LEMMA TakenIsKept ==
  ASSUME TypeOK, [Next]_vars, NEW t \in Tasks, Taken(t)
  PROVE  Taken(t)'
  BY ApprovalsKept DEF Taken, Spent, ApprovalKept

LEMMA TakenByTakeover ==
  ASSUME TypeOK, NEW t \in Tasks, TakenOver(t)
  PROVE  Taken(t)'
  <1>1. PICK a \in EligibleApprovals(Takeover(t)) :
           approval' = [approval EXCEPT ![a].status = "CONSUMED"]
    BY DEF TakenOver
  <1>2. a \in Approvals /\ approval[a].action = Takeover(t) /\ approval[a] \in Approval
    BY DEF EligibleApprovals, TypeOK
  <1>3. approval'[a].status = "CONSUMED" /\ approval'[a].action = Takeover(t)
    BY <1>1, <1>2 DEF TypeOK, Approval
  <1> QED
    BY <1>2, <1>3 DEF Taken, Spent

LEMMA SharedIsKept ==
  ASSUME TypeOK, [Next]_vars, NEW t \in Tasks, NEW u \in Tasks, Shared(t, u)
  PROVE  Shared(t, u)'
  <1>1. PICK a \in Approvals :
           Approved(a) /\ approval[a].action \in {SharedWrite(t, u), SharedWrite(u, t)}
    BY DEF Shared
  <1>2. ApprovalKept(a) /\ approval[a].status # "ABSENT"
    BY <1>1, ApprovalsKept DEF Approved
  <1>3. ~(\E v \in Tasks : approval[a].action = Takeover(v))
    BY <1>1, ActionsDiffer
  <1>4. Approved(a)' /\ approval'[a].action \in {SharedWrite(t, u), SharedWrite(u, t)}
    BY <1>1, <1>2, <1>3 DEF ApprovalKept
  <1> QED
    BY <1>4 DEF Shared

-----------------------------------------------------------------------------
(* The invariant is preserved *)

\* The conjuncts that speak of one task.
TaskInv(t) ==
  /\ task[t].status = "ABSENT" => task[t].owner = None /\ task[t].completedAt = "NEVER"
  /\ task[t].status \in Working => task[t].owner # None /\ task[t].lease # "NONE"
  /\ task[t].handoffTo # None \/ task[t].completedAt # "NEVER" => task[t].owner # None
  /\ task[t].archived => task[t].completedAt # "NEVER"
  /\ task[t].completedAt # "NEVER" /\ task[t].status \in Working => Taken(t)
  /\ task[t].handoffTo # None /\ task[t].handoffBy # task[t].owner => Taken(t)

LEMMA TaskInvStep ==
  ASSUME TypeOK, [Next]_vars, NEW t \in Tasks, TaskInv(t),
         t \in scanned => task[t].completedAt # "NEVER"
  PROVE  TaskInv(t)'
  <1> USE DEF TaskInv
  <1>1. Taken(t) => Taken(t)'
    BY TakenIsKept
  <1>2. CASE Created(t)
    BY <1>2 DEF Created, Working
  <1>3. CASE Claimed(t)
    BY <1>1, <1>3, TaskNoneAssumption DEF Claimed, Working
  <1>4. CASE TakenOver(t)
    BY <1>4, TakenByTakeover, TaskNoneAssumption DEF TakenOver, Working
  <1>5. CASE HandedOver(t)
    BY <1>1, <1>5 DEF HandedOver, Working, Exists
  <1>6. CASE Named(t)
    BY <1>1, <1>6 DEF Named, Exists
  <1>7. CASE Moved(t)
    BY <1>1, <1>7 DEF Moved, Exists
  <1>8. CASE Completed(t)
    BY <1>1, <1>8 DEF Completed, Working
  <1> QED
    BY <1>2, <1>3, <1>4, <1>5, <1>6, <1>7, <1>8, Effects DEF Effect

LEMMA ScannedStep ==
  ASSUME TypeOK, AbsentIsFresh, ArchiveFollowsCompletion, [Next]_vars, NEW t \in Tasks, t \in scanned'
  PROVE  task'[t].completedAt # "NEVER"
  <1>1. CASE ArchiveScan
    BY <1>1 DEF ArchiveScan
  <1>2. CASE t \in scanned
    <2>1. task[t].completedAt # "NEVER" /\ task[t].status # "ABSENT"
      BY <1>2 DEF ArchiveFollowsCompletion, AbsentIsFresh
    <2> QED
      BY <2>1, Effects
      DEF Effect, Created, Claimed, TakenOver, HandedOver, Named, Moved, Completed
  <1>3. ArchiveScan \/ scanned' \subseteq scanned
    <2>1. ASSUME NEW p \in Principals, NEW u \in Tasks, TaskStep(p, u) PROVE scanned' = scanned
      BY <2>1
      DEF TaskStep, Claim, Renew, Handoff, HandoffAccept, Start, Block, Review, Cancel, Move,
          Complete, TakeOver
    <2>2. ASSUME NEW u \in Tasks, SharedStep(u) PROVE scanned' = scanned
      BY <2>2 DEF SharedStep, Create, Offer, LeaseLapses, CompletionGrowsOld
    <2>3. ASSUME NEW a \in Approvals, ApprovalStep(a) PROVE scanned' = scanned
      BY <2>3 DEF ApprovalStep, RequestApproval, Respond, ExpiryPasses
    <2>4. ASSUME NEW b \in Blockers, BlockerStep(b) PROVE scanned' = scanned
      BY <2>4 DEF BlockerStep, PostBlocker, AnswerBlocker, ResolveBlocker
    <2> QED
      BY <2>1, <2>2, <2>3, <2>4 DEF Next, vars, ArchiveRun
  <1> QED
    BY <1>1, <1>2, <1>3

\* Two overlapping tasks are both being worked on only with leave.
Governed(t, u) == Shared(t, u) \/ Taken(t) \/ Taken(u)

LEMMA OverlapByParts ==
  ASSUME OverlapIsGoverned, NEW t \in Tasks, NEW u \in Tasks, t # u, {t, u} \in Conflicts,
         task[t].status \in Working, task[u].status \in Working
  PROVE  Governed(t, u)
  <1>1. PICK a \in Approvals :
          \/ Approved(a) /\ approval[a].action \in {SharedWrite(t, u), SharedWrite(u, t)}
          \/ Spent(a) /\ approval[a].action \in {Takeover(t), Takeover(u)}
    BY DEF OverlapIsGoverned
  <1> QED
    BY <1>1 DEF Governed, Shared, Taken

\* A claim finds the other task held, unless it was archived after a takeover.
LEMMA ClaimIsGoverned ==
  ASSUME TypeOK, [Next]_vars, NEW t \in Tasks, NEW u \in Tasks, t # u, {t, u} \in Conflicts,
         \A v \in Tasks : TaskInv(v),
         Claimed(t), task'[u].status \in Working
  PROVE  Governed(t, u)'
  <1>1. task'[u] = task[u]
    BY DEF Claimed
  <1>2. CASE task[u].archived
    <2>1. Taken(u)
      BY <1>1, <1>2 DEF TaskInv
    <2> QED
      BY <2>1, TakenIsKept DEF Governed
  <1>3. CASE ~task[u].archived
    <2>1. Holds(u)
      BY <1>1, <1>3 DEF Holds, TaskInv, Working, Finished
    <2>2. Excepted(t, u)
      BY <2>1 DEF Claimed
    <2>3. Shared(t, u)
      BY <2>2 DEF Excepted, EligibleApprovals, Shared, Approved
    <2> QED
      BY <2>3, SharedIsKept DEF Governed
  <1> QED
    BY <1>2, <1>3

LEMMA OverlapStep ==
  ASSUME TypeOK, [Next]_vars, OverlapIsGoverned, \A v \in Tasks : TaskInv(v)
  PROVE  OverlapIsGoverned'
  <1>1. ASSUME NEW t \in Tasks, NEW u \in Tasks, t # u, {t, u} \in Conflicts,
               task'[t].status \in Working, task'[u].status \in Working
        PROVE  Governed(t, u)'
    <2>1. CASE Claimed(t)
      BY <1>1, <2>1, ClaimIsGoverned
    <2>2. CASE Claimed(u)
      <3>1. {u, t} \in Conflicts
        BY <1>1
      <3>2. Governed(u, t)'
        BY <1>1, <2>2, <3>1, ClaimIsGoverned
      <3> QED
        BY <3>2 DEF Governed, Shared
    <2>3. CASE TakenOver(t) \/ TakenOver(u)
      BY <2>3, TakenByTakeover DEF Governed
    <2>4. ASSUME NEW v \in {t, u}, ~Claimed(v), ~TakenOver(v) PROVE task[v].status \in Working
      <3>1. Effect(v) /\ task'[v].status \in Working
        BY <1>1, Effects
      <3> QED
        BY <3>1, <2>4 DEF Effect, Created, HandedOver, Named, Moved, Completed, Working
    <2>5. CASE task[t].status \in Working /\ task[u].status \in Working
      <3>1. Governed(t, u)
        BY <1>1, <2>5, OverlapByParts
      <3> QED
        BY <3>1, TakenIsKept, SharedIsKept DEF Governed
    <2> QED
      BY <2>1, <2>2, <2>3, <2>4, <2>5
  <1> QED
    BY <1>1 DEF OverlapIsGoverned, Governed, Shared, Taken

LEMMA InvByTask ==
  IInv <=>
    /\ TypeOK /\ OverlapIsGoverned
    /\ \A t \in Tasks : TaskInv(t) /\ (t \in scanned => task[t].completedAt # "NEVER")
  BY DEF IInv, AbsentIsFresh, WorkHasOwner, HistoryHasOwner, ArchiveFollowsCompletion,
         HandoffIsOwnersOrStale, TaskInv, Taken

LEMMA InitIInv == Init => IInv
  <1> SUFFICES ASSUME Init PROVE IInv
    OBVIOUS
  <1>1. TypeOK
    BY TaskInputAssumption
    DEF Init, TypeOK, AbsentTask, Task, Approval, Blocker, Working, Finished
  <1>2. OverlapIsGoverned
    BY DEF Init, OverlapIsGoverned, AbsentTask, Working
  <1>3. ASSUME NEW t \in Tasks PROVE TaskInv(t) /\ t \notin scanned
    BY DEF Init, TaskInv, AbsentTask, Working
  <1> QED
    BY <1>1, <1>2, <1>3, InvByTask

LEMMA StepIInv == IInv /\ [Next]_vars => IInv'
  <1> SUFFICES ASSUME IInv, [Next]_vars PROVE IInv'
    OBVIOUS
  <1>1. /\ TypeOK /\ AbsentIsFresh /\ ArchiveFollowsCompletion /\ OverlapIsGoverned
        /\ \A t \in Tasks : TaskInv(t) /\ (t \in scanned => task[t].completedAt # "NEVER")
    BY InvByTask DEF IInv
  <1>2. TypeOK' /\ OverlapIsGoverned'
    BY <1>1, TypesStep, OverlapStep
  <1>3. \A t \in Tasks : TaskInv(t)' /\ (t \in scanned' => task'[t].completedAt # "NEVER")
    BY <1>1, TaskInvStep, ScannedStep
  <1> QED
    BY <1>2, <1>3
    DEF IInv, AbsentIsFresh, WorkHasOwner, HistoryHasOwner, ArchiveFollowsCompletion,
        HandoffIsOwnersOrStale, TaskInv, Taken

-----------------------------------------------------------------------------
(* Theorems *)

\* IInv holds in every state that events, clocks and archive runs can reach.
THEOREM Invariance == Spec => []IInv
  BY InitIInv, StepIInv, PTL DEF Spec

\* Tasks, approvals and blockers keep the shape of the code's records.
THEOREM TypeCorrect == Spec => []TypeOK
  <1>1. IInv => TypeOK
    BY DEF IInv
  <1> QED
    BY <1>1, Invariance, PTL

\* Nobody works on a task that nobody owns.
THEOREM WorkIsOwned == Spec => []WorkHasOwner
  <1>1. IInv => WorkHasOwner
    BY DEF IInv
  <1> QED
    BY <1>1, Invariance, PTL

\* Two tasks with overlapping resources are worked on at once only under an
\* approved shared write or after a takeover, for any number of tasks.
THEOREM OverlapsAreGoverned == Spec => []OverlapIsGoverned
  <1>1. IInv => OverlapIsGoverned
    BY DEF IInv
  <1> QED
    BY <1>1, Invariance, PTL

\* Archived work is finished, unless a takeover brought it back, although an
\* archive run submits what it read earlier.
THEOREM ArchivedIsFinished == Spec => []ArchivedIsFinishedOrTaken
  <1>1. IInv => ArchivedIsFinishedOrTaken
    BY DEF IInv, ArchiveFollowsCompletion, ArchivedIsFinishedOrTaken, Taken
  <1> QED
    BY <1>1, Invariance, PTL

\* Only takeovers leave behind a handoff that is not the present owner's.
THEOREM HandoffsAreOwners == Spec => []HandoffIsOwnersOrStale
  <1>1. IInv => HandoffIsOwnersOrStale
    BY DEF IInv
  <1> QED
    BY <1>1, Invariance, PTL

LEMMA ReassignmentStep ==
  ASSUME IInv, [Next]_vars, NEW t \in Tasks,
         task[t].owner # None, task'[t].owner # task[t].owner
  PROVE  \/ task[t].handoffTo = task'[t].owner /\ task'[t].handoffTo = None
         \/ \E a \in Approvals :
              /\ Approved(a) /\ Spent(a)' /\ approval[a].expiry # "PASSED"
              /\ approval[a].action = Takeover(t)
  <1> USE DEF IInv
  <1>1. HandedOver(t) \/ TakenOver(t)
    BY Effects DEF Effect, Created, Claimed, Named, Moved, Completed, AbsentIsFresh
  <1>2. CASE HandedOver(t)
    BY <1>2 DEF HandedOver
  <1>3. CASE TakenOver(t)
    <2>1. PICK a \in EligibleApprovals(Takeover(t)) :
             approval' = [approval EXCEPT ![a].status = "CONSUMED"]
      BY <1>3 DEF TakenOver
    <2>2. /\ a \in Approvals /\ approval[a] \in Approval
          /\ approval[a].action = Takeover(t) /\ approval[a].status = "APPROVED"
          /\ approval[a].expiry # "PASSED"
      BY DEF EligibleApprovals, TypeOK
    <2>3. approval'[a].status = "CONSUMED"
      BY <2>1, <2>2 DEF TypeOK, Approval
    <2> QED
      BY <2>2, <2>3 DEF Approved, Spent
  <1> QED
    BY <1>1, <1>2, <1>3

\* An owned task changes hands by a handoff that is then used up, or by a
\* takeover that spends an approval in force for it.
THEOREM TasksChangeHands == Spec => Reassignment
  <1>1. IInv /\ [Next]_vars =>
          [\A t \in Tasks :
             task[t].owner # None /\ task'[t].owner # task[t].owner =>
               \/ task[t].handoffTo = task'[t].owner /\ task'[t].handoffTo = None
               \/ \E a \in Approvals :
                    /\ Approved(a) /\ Spent(a)' /\ approval[a].expiry # "PASSED"
                    /\ approval[a].action = Takeover(t)]_vars
    BY ReassignmentStep
  <1> QED
    BY <1>1, Invariance, PTL DEF Spec, Reassignment

\* A spent or refused approval never authorizes anything again.
THEOREM FinalApprovals == Spec => ApprovalsAreFinal
  <1>1. ASSUME TypeOK, [Next]_vars, NEW a \in Approvals, approval[a].status \in {"CONSUMED", "REJECTED"}
        PROVE  approval'[a] = [approval[a] EXCEPT !.expiry = approval'[a].expiry]
    <2>1. approval[a] \in Approval /\ approval'[a] \in Approval
      BY <1>1, TypesStep DEF TypeOK
    <2>2. approval'[a].status = approval[a].status /\ approval'[a].action = approval[a].action
      BY <1>1, ApprovalsKept DEF ApprovalKept
    <2> QED
      BY <2>1, <2>2 DEF Approval
  <1>2. TypeOK /\ [Next]_vars =>
          [\A a \in Approvals :
             approval[a].status \in {"CONSUMED", "REJECTED"} => approval'[a] = [approval[a] EXCEPT
               !.expiry = approval'[a].expiry]]_vars
    BY <1>1
  <1> QED
    BY <1>2, TypeCorrect, PTL DEF Spec, ApprovalsAreFinal

=============================================================================
