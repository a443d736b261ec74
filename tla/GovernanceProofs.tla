--------------------------- MODULE GovernanceProofs ---------------------------
(***************************************************************************)
(* Proofs about Governance, for any names, providers and requests.  Each   *)
(* action is summed up by what it may do to a principal, an approval and a *)
(* provider (the Effect lemmas); the invariant GovInv follows from these   *)
(* summaries.                                                              *)
(***************************************************************************)
EXTENDS Governance, TLAPS

-----------------------------------------------------------------------------
(* The invariant *)

\* An approval that would let a promotion pass is a decision still unused.
DecisionsStand == \A p \in Names : GrantApproved(p) => p \in decided

GovInv ==
  /\ GovernanceTypeOK
  /\ OwnerIsFixed
  /\ ProvidersComeFirst
  /\ DecisionsStand

\* The initial states satisfy the invariant: nobody and nothing is on record.
LEMMA GovInvInit == Init => GovInv
<1> SUFFICES ASSUME Init PROVE GovInv
  OBVIOUS
<1>1. GovernanceTypeOK
  BY GovernanceAssumption DEF Init, GovernanceTypeOK, Principal, Nobody, Approval, Unrequested
<1>2. OwnerIsFixed
  BY DEF Init, OwnerIsFixed, Nobody
<1>3. ProvidersComeFirst
  BY DEF Init, ProvidersComeFirst, Exists, Nobody
<1>4. DecisionsStand
  BY DEF Init, DecisionsStand, GrantApproved, Unrequested
<1> QED
  BY <1>1, <1>2, <1>3, <1>4 DEF GovInv

-----------------------------------------------------------------------------
(* What a step does *)

\* One principal's record changes and the rest stay.
Becomes(p, record) ==
  /\ p \in Names /\ record \in Principal
  /\ principal' = [principal EXCEPT ![p] = record]

\* What may happen to principals in a step that is not a registration.
Moved(p, record) ==
  /\ Exists(p) /\ record.type = principal[p].type
  /\ record.status # "ABSENT" /\ record.status # "PENDING" /\ principal[p].status # "REVOKED"
  /\ \E q \in Names : Active(q)
  /\ principal[p].role # "OWNER" /\ record.role # "OWNER"

\* A promotion spends the approval; any other change leaves it and the role.
Spent(p, record) ==
  \/ /\ record.role = "ORCHESTRATOR"
     /\ GrantApproved(p)
     /\ approval' = [approval EXCEPT ![p].status = "CONSUMED"]
     /\ decided' = decided \ {p}
  \/ /\ record.role = "ORCHESTRATOR" => principal[p].role = "ORCHESTRATOR"
     /\ UNCHANGED <<approval, decided>>

\* The log stays one.
Logged == signer' \in Names /\ length' \in {"NONE", "ONE", "MORE"}

PrincipalsKept == UNCHANGED <<principal, known>>

\* A change of a principal's role or status by somebody active.
Movement ==
  \E p \in Names, record \in Principal :
    Becomes(p, record) /\ Moved(p, record) /\ Spent(p, record)

\* Activation, switching, suspension and revocation are movements.
LEMMA MovementSteps ==
  ASSUME GovernanceTypeOK, NEW a \in Names, NEW p \in Names,
         NEW role \in {"ORCHESTRATOR", "CUSTOM"},
         \/ Activate(a, p, role) \/ SwitchRole(p, role) \/ Suspend(a, p) \/ Revoke(a, p)
  PROVE  Movement /\ UNCHANGED <<provider, known>> /\ Logged
<1> USE DEF Movement, Becomes, Moved, Exists, Active, GovernanceTypeOK
<1>0. principal[p] \in Principal
  OBVIOUS
<1>1. CASE Activate(a, p, role)
  <2> DEFINE new == [principal[p] EXCEPT !.status = "ACTIVE", !.role = role]
  <2>1. /\ new \in Principal /\ new.status = "ACTIVE" /\ new.role = role
        /\ new.type = principal[p].type
    BY <1>0 DEF Principal
  <2>2. principal' = [principal EXCEPT ![p] = new]
    BY <1>1 DEF Activate
  <2> HIDE DEF new
  <2>3. Moved(p, new)
    BY <2>1, <1>1 DEF Activate, Leads
  <2>4. Spent(p, new)
    BY <2>1, <1>1 DEF Activate, Spent, Consume
  <2>5. UNCHANGED <<provider, known>> /\ Logged
    BY <1>1 DEF Activate, Commit, Logged
  <2> QED
    BY <2>1, <2>2, <2>3, <2>4, <2>5
<1>2. CASE SwitchRole(p, role)
  <2> DEFINE new == [principal[p] EXCEPT !.role = role]
  <2>1. /\ new \in Principal /\ new.status = principal[p].status /\ new.role = role
        /\ new.type = principal[p].type
    BY <1>0 DEF Principal
  <2>2. principal' = [principal EXCEPT ![p] = new]
    BY <1>2 DEF SwitchRole
  <2> HIDE DEF new
  <2>3. Moved(p, new)
    BY <2>1, <1>2 DEF SwitchRole
  <2>4. Spent(p, new)
    BY <2>1, <1>2 DEF SwitchRole, Spent, Consume
  <2>5. UNCHANGED <<provider, known>> /\ Logged
    BY <1>2 DEF SwitchRole, Commit, Logged
  <2> QED
    BY <2>1, <2>2, <2>3, <2>4, <2>5
<1>3. CASE Suspend(a, p)
  <2> DEFINE new == [principal[p] EXCEPT !.status = "SUSPENDED"]
  <2>1. /\ new \in Principal /\ new.status = "SUSPENDED" /\ new.role = principal[p].role
        /\ new.type = principal[p].type
    BY <1>0 DEF Principal
  <2>2. principal' = [principal EXCEPT ![p] = new]
    BY <1>3 DEF Suspend
  <2> HIDE DEF new
  <2>3. Moved(p, new)
    BY <2>1, <1>3 DEF Suspend, Leads, Removable
  <2>4. Spent(p, new)
    BY <2>1, <1>3 DEF Suspend, Spent
  <2>5. UNCHANGED <<provider, known>> /\ Logged
    BY <1>3 DEF Suspend, Commit, Logged
  <2> QED
    BY <2>1, <2>2, <2>3, <2>4, <2>5
<1>4. CASE Revoke(a, p)
  <2> DEFINE new == [principal[p] EXCEPT !.status = "REVOKED"]
  <2>1. /\ new \in Principal /\ new.status = "REVOKED" /\ new.role = principal[p].role
        /\ new.type = principal[p].type
    BY <1>0 DEF Principal
  <2>2. principal' = [principal EXCEPT ![p] = new]
    BY <1>4 DEF Revoke
  <2> HIDE DEF new
  <2>3. Moved(p, new)
    BY <2>1, <1>4 DEF Revoke, Leads, Removable
  <2>4. Spent(p, new)
    BY <2>1, <1>4 DEF Revoke, Spent
  <2>5. UNCHANGED <<provider, known>> /\ Logged
    BY <1>4 DEF Revoke, Commit, Logged
  <2> QED
    BY <2>1, <2>2, <2>3, <2>4, <2>5
<1> QED
  BY <1>1, <1>2, <1>3, <1>4

\* A step that changes the approval of one name only, and never to a usable one
\* without a decision.
Reviewed(p) ==
  /\ approval' \in [Names -> Approval] /\ decided' \subseteq Names
  /\ \A q \in Names \ {p} : approval'[q] = approval[q] /\ (q \in decided' <=> q \in decided)
  /\ GrantApproved(p)' => p \in decided'
  /\ ~(approval[p].status = "APPROVED" /\ approval'[p].status = "CONSUMED")

\* Requests, decisions and expiries are reviews.
LEMMA ReviewSteps ==
  ASSUME GovInv, NEW p \in Names,
         \/ \E a \in Names : Approve(a, p) \/ Reject(a, p)
         \/ \E a \in Names, r \in Requests : r[1] = p /\ Request(a, p, r[2], r[3], r[4])
         \/ Expire(p)
  PROVE  Reviewed(p) /\ PrincipalsKept /\ provider' = provider /\ Logged
<1> USE DEF GovInv, GovernanceTypeOK, PrincipalsKept
<1>0. approval[p] \in Approval
  OBVIOUS
<1>1. ASSUME NEW a \in Names, Approve(a, p)
      PROVE  Reviewed(p) /\ PrincipalsKept /\ provider' = provider /\ Logged
  <2> DEFINE new == [approval[p] EXCEPT !.status = "APPROVED"]
  <2>1. /\ new \in Approval /\ new.status = "APPROVED" /\ new.tier = approval[p].tier
        /\ new.action = approval[p].action /\ new.expiry = approval[p].expiry
    BY <1>0 DEF Approval
  <2>2. approval' = [approval EXCEPT ![p] = new]
    BY <1>1 DEF Approve
  <2> HIDE DEF new
  <2>3. approval' \in [Names -> Approval] /\ approval'[p] = new
    BY <2>1, <2>2
  <2>4. \A q \in Names \ {p} : approval'[q] = approval[q]
    BY <2>2
  <2>5. decided' \subseteq Names /\ \A q \in Names \ {p} : q \in decided' <=> q \in decided
    BY <1>1 DEF Approve
  <2>6. GrantApproved(p)' => p \in decided'
    BY <1>1, <2>1, <2>3 DEF Approve, GrantApproved
  <2> QED
    BY <1>1, <2>1, <2>3, <2>4, <2>5, <2>6 DEF Approve, Reviewed, Commit, Logged
<1>2. ASSUME NEW a \in Names, Reject(a, p)
      PROVE  Reviewed(p) /\ PrincipalsKept /\ provider' = provider /\ Logged
  <2> DEFINE new == [approval[p] EXCEPT !.status = "REJECTED"]
  <2>1. new \in Approval /\ new.status = "REJECTED"
    BY <1>0 DEF Approval
  <2>2. approval' = [approval EXCEPT ![p] = new]
    BY <1>2 DEF Reject
  <2> HIDE DEF new
  <2>3. approval' \in [Names -> Approval] /\ approval'[p] = new
    BY <2>1, <2>2
  <2>4. \A q \in Names \ {p} : approval'[q] = approval[q]
    BY <2>2
  <2> QED
    BY <1>2, <2>1, <2>3, <2>4 DEF Reject, Reviewed, GrantApproved, Commit, Logged
<1>3. ASSUME NEW a \in Names, NEW r \in Requests, r[1] = p, Request(a, p, r[2], r[3], r[4])
      PROVE  Reviewed(p) /\ PrincipalsKept /\ provider' = provider /\ Logged
  <2> DEFINE new == [status |-> "PENDING", tier |-> r[2], action |-> r[3], expiry |-> r[4]]
  <2>1. new \in Approval /\ new.status = "PENDING"
    BY GovernanceAssumption DEF Approval
  <2>2. approval' = [approval EXCEPT ![p] = new]
    BY <1>3 DEF Request
  <2> HIDE DEF new
  <2>3. approval' \in [Names -> Approval] /\ approval'[p] = new
    BY <2>1, <2>2
  <2>4. \A q \in Names \ {p} : approval'[q] = approval[q]
    BY <2>2
  <2> QED
    BY <1>3, <2>1, <2>3, <2>4 DEF Request, Reviewed, GrantApproved, Commit, Logged
<1>4. ASSUME Expire(p)
      PROVE  Reviewed(p) /\ PrincipalsKept /\ provider' = provider /\ Logged
  <2> DEFINE new == [approval[p] EXCEPT !.expiry = "PASSED"]
  <2>1. new \in Approval /\ new.expiry = "PASSED" /\ new.status = approval[p].status
    BY <1>0 DEF Approval
  <2>2. approval' = [approval EXCEPT ![p] = new]
    BY <1>4 DEF Expire
  <2> HIDE DEF new
  <2>3. approval' \in [Names -> Approval] /\ approval'[p] = new
    BY <2>1, <2>2
  <2>4. \A q \in Names \ {p} : approval'[q] = approval[q]
    BY <2>2
  <2> QED
    BY <1>4, <2>1, <2>3, <2>4 DEF Expire, Reviewed, GrantApproved, Logged
<1> QED
  BY <1>1, <1>2, <1>3, <1>4

-----------------------------------------------------------------------------
(* Every step is one of seven *)

ProviderStep == \E a \in Names, v \in Providers : RegisterProvider(a, v) \/ RetireProvider(a, v)

\* Next, by what the steps do.
LEMMA StepKinds ==
  ASSUME GovInv, Next
  PROVE  \/ \E p \in Names, type \in {"HUMAN", "AGENT"} : Register(p, type)
         \/ ActivateOwner
         \/ Movement /\ UNCHANGED <<provider, known>> /\ Logged
         \/ \E a, p \in Names : Delete(a, p)
         \/ \E p \in Names : Reviewed(p) /\ PrincipalsKept /\ provider' = provider /\ Logged
         \/ ProviderStep
<1>1. CASE \E p \in Names : Expire(p)
  BY <1>1, ReviewSteps
<1>2. ASSUME NEW a \in Names, By(a)
      PROVE  \/ \E p \in Names, type \in {"HUMAN", "AGENT"} : Register(p, type)
             \/ ActivateOwner
             \/ Movement /\ UNCHANGED <<provider, known>> /\ Logged
             \/ \E b, p \in Names : Delete(b, p)
             \/ \E p \in Names : Reviewed(p) /\ PrincipalsKept /\ provider' = provider /\ Logged
             \/ ProviderStep
  <2>1. CASE \E r \in Requests : Request(a, r[1], r[2], r[3], r[4])
    <3>1. PICK r \in Requests : Request(a, r[1], r[2], r[3], r[4])
      BY <2>1
    <3>2. r[1] \in Names
      BY GovernanceAssumption
    <3> QED
      BY <3>1, <3>2, ReviewSteps
  <2>2. CASE \E p \in Names : Approve(a, p) \/ Reject(a, p)
    BY <2>2, ReviewSteps
  <2>3. CASE \E p \in Names, role \in {"ORCHESTRATOR", "CUSTOM"} : Activate(a, p, role)
    BY <2>3, MovementSteps DEF GovInv
  <2>4. CASE \E role \in {"ORCHESTRATOR", "CUSTOM"} : SwitchRole(a, role)
    BY <2>4, MovementSteps DEF GovInv
  <2>5. CASE \E p \in Names : Suspend(a, p) \/ Revoke(a, p)
    BY <2>5, MovementSteps DEF GovInv
  <2> QED
    BY <1>2, <2>1, <2>2, <2>3, <2>4, <2>5 DEF By, ProviderStep
<1> QED
  BY <1>1, <1>2 DEF Next

-----------------------------------------------------------------------------
(* The invariant is kept *)

\* The invariant survives a registration.
LEMMA RegisterKeeps ==
  ASSUME GovInv, NEW p \in Names, NEW type \in {"HUMAN", "AGENT"}, Register(p, type)
  PROVE  GovInv'
<1> DEFINE new == [status |-> "PENDING", type |-> type, role |-> "NONE"]
<1>1. /\ new \in Principal /\ new.status = "PENDING" /\ new.type = type /\ new.role = "NONE"
      /\ principal' = [principal EXCEPT ![p] = new]
  BY DEF Register, Principal
<1> HIDE DEF new
<1>2. GovernanceTypeOK'
  BY <1>1 DEF GovInv, GovernanceTypeOK, Register, Commit, Logged
<1>3. /\ principal'[p] = new
      /\ \A q \in Names \ {p} : principal'[q] = principal[q]
  BY <1>1 DEF GovInv, GovernanceTypeOK
<1>4. OwnerIsFixed'
  BY <1>1, <1>3, GovernanceAssumption DEF GovInv, OwnerIsFixed, Active, Register, Exists
<1>5. ProvidersComeFirst'
  BY <1>1, <1>3 DEF GovInv, ProvidersComeFirst, Exists, Recorded, Registrable, Register
<1>6. DecisionsStand'
  BY DEF GovInv, DecisionsStand, GrantApproved, Register
<1> QED
  BY <1>2, <1>4, <1>5, <1>6 DEF GovInv

\* The invariant survives the owner's first activation.
LEMMA BootstrapKeeps ==
  ASSUME GovInv, ActivateOwner
  PROVE  GovInv'
<1> DEFINE new == [principal[Owner] EXCEPT !.status = "ACTIVE", !.role = "OWNER"]
<1>0. principal[Owner] \in Principal
  BY GovernanceAssumption DEF GovInv, GovernanceTypeOK
<1>1. /\ new \in Principal /\ new.status = "ACTIVE" /\ new.role = "OWNER"
      /\ new.type = principal[Owner].type
  BY <1>0 DEF Principal
<1>2. principal' = [principal EXCEPT ![Owner] = new]
  BY DEF ActivateOwner
<1> HIDE DEF new
<1>3. /\ principal'[Owner] = new
      /\ \A q \in Names \ {Owner} : principal'[q] = principal[q]
  BY <1>2, GovernanceAssumption DEF GovInv, GovernanceTypeOK
<1>4. GovernanceTypeOK'
  <2>1. Owner \in Names
    BY GovernanceAssumption
  <2>2. principal' \in [Names -> Principal]
    BY <1>1, <1>2 DEF GovInv, GovernanceTypeOK
  <2>3. /\ UNCHANGED <<approval, provider, decided, known>>
        /\ signer' = Owner /\ length' \in {"ONE", "MORE"}
    BY DEF ActivateOwner, Commit
  <2> QED
    BY <2>1, <2>2, <2>3 DEF GovInv, GovernanceTypeOK
<1>5. OwnerIsFixed'
  BY <1>1, <1>3, GovernanceAssumption DEF GovInv, OwnerIsFixed, Active
<1>6. ProvidersComeFirst'
  <2>1. \A q \in Names : Exists(q)' => Exists(q) /\ principal'[q].type = principal[q].type
    BY <1>1, <1>3 DEF Exists, ActivateOwner
  <2>2. UNCHANGED <<provider, known>>
    BY DEF ActivateOwner
  <2> QED
    BY <2>1, <2>2 DEF GovInv, ProvidersComeFirst, Recorded
<1>7. DecisionsStand'
  BY DEF GovInv, DecisionsStand, GrantApproved, ActivateOwner
<1> QED
  BY <1>4, <1>5, <1>6, <1>7 DEF GovInv

\* The invariant survives a change of somebody's role or status.
LEMMA MovementKeeps ==
  ASSUME GovInv, Movement, UNCHANGED <<provider, known>>, Logged
  PROVE  GovInv'
<1>1. PICK p \in Names, new \in Principal :
        Becomes(p, new) /\ Moved(p, new) /\ Spent(p, new)
  BY DEF Movement
<1>2. /\ principal'[p] = new
      /\ \A q \in Names \ {p} : principal'[q] = principal[q]
      /\ principal' \in [Names -> Principal]
  BY <1>1 DEF Becomes, GovInv, GovernanceTypeOK
<1>3. approval' \in [Names -> Approval] /\ decided' \subseteq Names /\ DecisionsStand'
  <2>1. CASE UNCHANGED <<approval, decided>>
    BY <2>1 DEF GovInv, GovernanceTypeOK, DecisionsStand, GrantApproved
  <2>2. CASE /\ approval' = [approval EXCEPT ![p].status = "CONSUMED"]
             /\ decided' = decided \ {p}
    <3> DEFINE spent == [approval[p] EXCEPT !.status = "CONSUMED"]
    <3>1. spent \in Approval /\ spent.status = "CONSUMED"
      BY DEF GovInv, GovernanceTypeOK, Approval
    <3>2. approval' = [approval EXCEPT ![p] = spent]
      BY <2>2
    <3> HIDE DEF spent
    <3>3. /\ approval' \in [Names -> Approval] /\ approval'[p] = spent
          /\ \A q \in Names \ {p} : approval'[q] = approval[q]
      BY <3>1, <3>2 DEF GovInv, GovernanceTypeOK
    <3> QED
      BY <2>2, <3>1, <3>3 DEF GovInv, GovernanceTypeOK, DecisionsStand, GrantApproved
  <2> QED
    BY <1>1, <2>1, <2>2 DEF Spent
<1>4. GovernanceTypeOK'
  BY <1>2, <1>3 DEF GovInv, GovernanceTypeOK, Logged
<1>5. OwnerIsFixed'
  BY <1>1, <1>2, GovernanceAssumption DEF GovInv, OwnerIsFixed, Moved, Active, Exists
<1>6. ProvidersComeFirst'
  BY <1>1, <1>2 DEF GovInv, ProvidersComeFirst, Moved, Exists, Recorded
<1> QED
  BY <1>3, <1>4, <1>5, <1>6 DEF GovInv

\* The invariant survives a deletion.
LEMMA DeleteKeeps ==
  ASSUME GovInv, NEW a \in Names, NEW p \in Names, Delete(a, p)
  PROVE  GovInv'
<1>1. /\ principal'[p] = Nobody /\ Nobody \in Principal
      /\ \A q \in Names \ {p} : principal'[q] = principal[q]
      /\ principal' \in [Names -> Principal]
  BY DEF Delete, GovInv, GovernanceTypeOK, Nobody, Principal
<1>2. GovernanceTypeOK'
  BY <1>1 DEF GovInv, GovernanceTypeOK, Delete, Commit, Logged
<1>3. OwnerIsFixed'
  BY <1>1, GovernanceAssumption DEF GovInv, OwnerIsFixed, Delete, Active, Nobody
<1>4. ProvidersComeFirst'
  BY <1>1 DEF GovInv, ProvidersComeFirst, Delete, Exists, Recorded, Nobody
<1>5. DecisionsStand'
  BY DEF GovInv, DecisionsStand, GrantApproved, Delete
<1> QED
  BY <1>2, <1>3, <1>4, <1>5 DEF GovInv

\* The invariant survives whatever happens to an approval.
LEMMA ReviewKeeps ==
  ASSUME GovInv, NEW p \in Names, Reviewed(p), PrincipalsKept, provider' = provider,
         Logged
  PROVE  GovInv'
<1>1. GovernanceTypeOK'
  BY DEF GovInv, GovernanceTypeOK, Reviewed, PrincipalsKept, Logged
<1>2. OwnerIsFixed'
  BY DEF GovInv, OwnerIsFixed, PrincipalsKept, Active
<1>3. ProvidersComeFirst'
  BY DEF GovInv, ProvidersComeFirst, PrincipalsKept, Exists, Recorded
<1>4. DecisionsStand'
  BY DEF GovInv, DecisionsStand, Reviewed, GrantApproved
<1> QED
  BY <1>1, <1>2, <1>3, <1>4 DEF GovInv

\* The invariant survives the registration and the retirement of a provider.
LEMMA ProviderKeeps ==
  ASSUME GovInv, ProviderStep
  PROVE  GovInv'
<1>1. PICK a \in Names, v \in Providers : RegisterProvider(a, v) \/ RetireProvider(a, v)
  BY DEF ProviderStep
<1>2. UNCHANGED <<principal, approval, decided, known>> /\ a \in Names /\ signer' = a
  BY <1>1 DEF RegisterProvider, RetireProvider, Commit, Logged
<1>3. GovernanceTypeOK'
  BY <1>1, <1>2 DEF GovInv, GovernanceTypeOK, RegisterProvider, RetireProvider, Commit, Logged
<1>4. OwnerIsFixed'
  BY <1>2 DEF GovInv, OwnerIsFixed, Active
<1>5. ProvidersComeFirst'
  <2>1. CASE RegisterProvider(a, v)
    BY <1>2, <2>1 DEF GovInv, GovernanceTypeOK, ProvidersComeFirst, Exists, Recorded, RegisterProvider
  <2>2. CASE RetireProvider(a, v)
    BY <1>2, <2>2 DEF GovInv, GovernanceTypeOK, ProvidersComeFirst, Exists, Recorded, RetireProvider
  <2> QED
    BY <1>1, <2>1, <2>2
<1>6. DecisionsStand'
  BY <1>2 DEF GovInv, DecisionsStand, GrantApproved
<1> QED
  BY <1>3, <1>4, <1>5, <1>6 DEF GovInv

\* Every step keeps the invariant.
LEMMA GovInvNext == GovInv /\ [Next]_vars => GovInv'
<1> SUFFICES ASSUME GovInv, [Next]_vars PROVE GovInv'
  OBVIOUS
<1>1. CASE Next
  BY <1>1, StepKinds, RegisterKeeps, BootstrapKeeps, MovementKeeps, DeleteKeeps,
     ReviewKeeps, ProviderKeeps
<1>2. CASE UNCHANGED vars
  BY <1>2 DEF vars, GovInv, GovernanceTypeOK, OwnerIsFixed, ProvidersComeFirst, DecisionsStand,
              GrantApproved, Active, Exists, Recorded
<1> QED
  BY <1>1, <1>2

-----------------------------------------------------------------------------
(* Theorems *)

\* GovInv holds in every reachable state.
THEOREM GovernanceInvariance == Spec => []GovInv
BY GovInvInit, GovInvNext, PTL DEF Spec

\* The records of principals, approvals and providers keep their shape.
THEOREM GovernanceTypeCorrect == Spec => []GovernanceTypeOK
<1>1. GovInv => GovernanceTypeOK
  BY DEF GovInv
<1> QED
  BY GovernanceInvariance, <1>1, PTL

\* One owner, fixed for ever, without whom nobody acts (transitions.go: agent.*).
THEOREM OneOwner == Spec => []OwnerIsFixed
<1>1. GovInv => OwnerIsFixed
  BY DEF GovInv
<1> QED
  BY GovernanceInvariance, <1>1, PTL

\* No provider claims an identifier older than it (transitions.go: provider.register).
THEOREM ProvidersAreOlder == Spec => []ProvidersComeFirst
<1>1. GovInv => ProvidersComeFirst
  BY DEF GovInv
<1> QED
  BY GovernanceInvariance, <1>1, PTL

\* A principal's record, and the approval for its name, outside the movement.
LEMMA NotPromoted ==
  ASSUME GovInv, Next, NEW q \in Names, Promoted(q)
  PROVE  q \in decided
<1> DEFINE Same(p) == principal'[p].role = principal[p].role
<1>1. CASE \E p \in Names, type \in {"HUMAN", "AGENT"} : Register(p, type)
  BY <1>1 DEF Promoted, Register, GovInv, GovernanceTypeOK
<1>2. CASE ActivateOwner
  <2>1. approval' = approval
    BY <1>2 DEF ActivateOwner
  <2>2. principal'[Owner].role = "OWNER"
    BY <1>2, GovernanceAssumption DEF ActivateOwner, GovInv, GovernanceTypeOK, Principal
  <2>3. q # Owner => principal'[q] = principal[q]
    BY <1>2 DEF ActivateOwner, GovInv, GovernanceTypeOK
  <2> QED
    BY <2>1, <2>2, <2>3 DEF Promoted
<1>3. CASE Movement
  <2>1. PICK p \in Names, new \in Principal :
          Becomes(p, new) /\ Moved(p, new) /\ Spent(p, new)
    BY <1>3 DEF Movement
  <2>2. /\ principal'[p] = new
        /\ q # p => principal'[q] = principal[q]
    BY <2>1 DEF Becomes, GovInv, GovernanceTypeOK
  <2>3. q # p => approval'[q] = approval[q]
    BY <2>1 DEF Spent, GovInv, GovernanceTypeOK
  <2>4. q = p
    BY <2>2, <2>3 DEF Promoted
  <2>5. GrantApproved(p)
    BY <2>1, <2>2, <2>4 DEF Spent, Promoted
  <2> QED
    BY <2>4, <2>5 DEF GovInv, DecisionsStand
<1>4. CASE \E a, p \in Names : Delete(a, p)
  BY <1>4 DEF Promoted, Delete, Nobody, GovInv, GovernanceTypeOK
<1>5. CASE \E p \in Names : Reviewed(p) /\ PrincipalsKept
  BY <1>5 DEF Promoted, Reviewed, PrincipalsKept
<1>6. CASE ProviderStep
  BY <1>6 DEF Promoted, ProviderStep, RegisterProvider, RetireProvider
<1> QED
  BY <1>1, <1>2, <1>3, <1>4, <1>5, <1>6, StepKinds

\* Whoever becomes ORCHESTRATOR does so on an unused decision of a human
\* (hasOrchestratorGrantApproval and consumeOrchestratorGrantApproval together).
THEOREM NoPromotionWithoutDecision == Spec => PromotionsAreDecided
<1>1. GovInv /\ [Next]_vars => [\A p \in Names : Promoted(p) => p \in decided]_vars
  BY NotPromoted DEF vars
<1> QED
  BY GovernanceInvariance, <1>1, PTL DEF Spec, PromotionsAreDecided

\* What IdentitiesEnd says of one principal.
Kept(p) ==
  /\ Exists(p) /\ principal'[p].status # "ABSENT" => principal'[p].type = principal[p].type
  /\ principal[p].status = "REVOKED" /\ principal'[p] # principal[p]
       => principal'[p] = Nobody /\ Human(signer') /\ Leads(signer')
  /\ ~Exists(p) => principal'[p].status \in {"ABSENT", "PENDING"} /\ principal'[p].role = "NONE"

\* An absent principal has no role: only Nobody is absent.
AbsentIsNobody == \A p \in Names : ~Exists(p) => principal[p] = Nobody

\* Records that are absent are empty, in every step.
LEMMA AbsentNext == GovInv /\ AbsentIsNobody /\ [Next]_vars => AbsentIsNobody'
<1> SUFFICES ASSUME GovInv, AbsentIsNobody, [Next]_vars PROVE AbsentIsNobody'
  OBVIOUS
<1>1. CASE \E p \in Names, type \in {"HUMAN", "AGENT"} : Register(p, type)
  BY <1>1 DEF Register, AbsentIsNobody, Exists, GovInv, GovernanceTypeOK
<1>2. CASE ActivateOwner
  <2>1. principal'[Owner].status = "ACTIVE"
    BY <1>2, GovernanceAssumption DEF ActivateOwner, GovInv, GovernanceTypeOK, Principal
  <2>2. \A q \in Names \ {Owner} : principal'[q] = principal[q]
    BY <1>2 DEF ActivateOwner, GovInv, GovernanceTypeOK
  <2> QED
    BY <2>1, <2>2 DEF AbsentIsNobody, Exists
<1>3. CASE Movement
  BY <1>3 DEF Movement, Becomes, Moved, AbsentIsNobody, Exists, GovInv, GovernanceTypeOK
<1>4. CASE \E a, p \in Names : Delete(a, p)
  BY <1>4 DEF Delete, AbsentIsNobody, Exists, GovInv, GovernanceTypeOK
<1>5. CASE UNCHANGED principal
  BY <1>5 DEF AbsentIsNobody, Exists
<1> QED
  BY <1>1, <1>2, <1>3, <1>4, <1>5, StepKinds
     DEF PrincipalsKept, ProviderStep, RegisterProvider, RetireProvider, vars

\* A step keeps what a principal is, or ends it, or begins it.
LEMMA KeptNext ==
  ASSUME GovInv, AbsentIsNobody, Next, NEW q \in Names
  PROVE  Kept(q)
<1>1. CASE \E p \in Names, type \in {"HUMAN", "AGENT"} : Register(p, type)
  BY <1>1 DEF Register, Kept, AbsentIsNobody, Nobody, Exists, GovInv, GovernanceTypeOK
<1>2. CASE ActivateOwner
  <2>1. CASE q # Owner
    <3>1. principal'[q] = principal[q]
      BY <1>2, <2>1 DEF ActivateOwner, GovInv, GovernanceTypeOK
    <3> QED
      BY <3>1 DEF Kept, AbsentIsNobody, Nobody, Exists
  <2>2. CASE q = Owner
    <3>1. principal[q].status \in {"ABSENT", "PENDING"} \/ principal[q].role = "OWNER"
      BY <2>2 DEF GovInv, OwnerIsFixed
    <3>2. principal[q].status # "REVOKED" /\ Exists(q)
      BY <1>2, <2>2, <3>1 DEF GovInv, OwnerIsFixed, Active, ActivateOwner
    <3>3. principal'[q].type = principal[q].type
      BY <1>2, <2>2 DEF ActivateOwner, GovInv, GovernanceTypeOK, Principal
    <3> QED
      BY <3>2, <3>3 DEF Kept
  <2> QED
    BY <2>1, <2>2
<1>3. CASE Movement
  <2>1. PICK p \in Names, new \in Principal : Becomes(p, new) /\ Moved(p, new)
    BY <1>3 DEF Movement
  <2>2. CASE q = p
    BY <2>1, <2>2 DEF Becomes, Moved, Kept, GovInv, GovernanceTypeOK
  <2>3. CASE q # p
    <3>1. principal'[q] = principal[q]
      BY <2>1, <2>3 DEF Becomes, GovInv, GovernanceTypeOK
    <3> QED
      BY <3>1 DEF Kept, AbsentIsNobody, Nobody, Exists
  <2> QED
    BY <2>2, <2>3
<1>4. CASE \E a, p \in Names : Delete(a, p)
  <2>1. PICK a \in Names, p \in Names : Delete(a, p)
    BY <1>4
  <2>2. Human(signer') /\ Leads(signer')
    <3>1. signer' = a /\ Human(a) /\ Leads(a)
      BY <2>1 DEF Delete, Commit
    <3> QED
      BY <3>1
  <2>3. principal'[p] = Nobody /\ (q # p => principal'[q] = principal[q])
    BY <2>1 DEF Delete, GovInv, GovernanceTypeOK
  <2> QED
    BY <2>2, <2>3 DEF Kept, AbsentIsNobody, Nobody, Exists
<1>5. CASE UNCHANGED principal
  BY <1>5 DEF Kept, AbsentIsNobody, Nobody, Exists
<1> QED
  BY <1>1, <1>2, <1>3, <1>4, <1>5, StepKinds
     DEF PrincipalsKept, ProviderStep, RegisterProvider, RetireProvider

\* Types are permanent, revocation is final, a reused name starts anew
\* (transitions.go: agent.delete, agent.revoke, agent.register).
THEOREM IdentitiesAreFinal == Spec => IdentitiesEnd
<1>1. Init => AbsentIsNobody
  BY DEF Init, AbsentIsNobody
<1>2. GovInv /\ AbsentIsNobody /\ [Next]_vars => [\A p \in Names : Kept(p)]_vars
  BY KeptNext DEF vars
<1>3. [\A p \in Names : Kept(p)]_vars <=> [\A p \in Names :
       /\ Exists(p) /\ principal'[p].status # "ABSENT" => principal'[p].type = principal[p].type
       /\ principal[p].status = "REVOKED" /\ principal'[p] # principal[p]
            => principal'[p] = Nobody /\ Human(signer') /\ Leads(signer')
       /\ ~Exists(p) => principal'[p].status \in {"ABSENT", "PENDING"} /\ principal'[p].role = "NONE"]_vars
  BY DEF Kept
<1> QED
  BY GovernanceInvariance, AbsentNext, <1>1, <1>2, <1>3, PTL DEF Spec, IdentitiesEnd

===============================================================================
