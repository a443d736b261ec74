------------------------------ MODULE Governance ------------------------------
(***************************************************************************)
(* Who may act in a project: principals register, are activated, promoted, *)
(* demoted, suspended, revoked, deleted and registered again under the     *)
(* same name; approvals authorise the promotion of one name to             *)
(* ORCHESTRATOR, expire, are spent and requested anew; providers are       *)
(* registered and retired.  An action is one signed event: guards from     *)
(* ValidateTransition (internal/protocol/transitions.go) and Mutate        *)
(* (internal/personalauthority/engine.go), effects from ApplyEvent         *)
(* (internal/projection/apply.go).                                         *)
(*                                                                         *)
(* Abstractions.                                                           *)
(*  - Keys are left out: a command that is accepted was signed with the    *)
(*    key its actor, or its action, calls for.                             *)
(*  - Of all approvals only those under the names the code reserves for    *)
(*    grants, one for each principal, are kept (TaskLeases has the others).*)
(*  - A custom role is any of the roles that carry no permission.          *)
(*  - The time an approval expires is a mark that turns in a step of its   *)
(*    own.                                                                 *)
(***************************************************************************)
EXTENDS FiniteSets

CONSTANTS
  Names,      \* identifiers principals register under
  Owner,      \* the owner named when the project was created
  Providers,  \* names of providers a project may register
  Reads,      \* Reads[p]: the provider the identifier p names, BUILT_IN or NONE
  Requests    \* <<name, tier, action, expiry>> of the approvals requested

ASSUME GovernanceAssumption ==
  /\ Owner \in Names
  /\ Reads \in [Names -> Providers \cup {"BUILT_IN", "NONE"}]
  /\ Providers \cap {"BUILT_IN", "NONE"} = {}
  /\ Requests \subseteq
       Names \X {"HUMAN", "ORCHESTRATOR"} \X {"GRANT", "OTHER"} \X {"NONE", "AHEAD"}

VARIABLES
  principal,  \* principal[p]: State.Agents
  approval,   \* approval[p]: the approval "grant-orchestrator-<p>" in State.Approvals
  provider,   \* provider[v]: State.Providers
  signer,     \* the actor of the last event
  length,     \* length of the log, as far as the code asks: NONE, ONE, MORE
  decided,    \* history: names with a human's decision not yet used, expired or replaced
  known       \* history: names whose provider was on record when they registered

vars == <<principal, approval, provider, signer, length, decided, known>>

-----------------------------------------------------------------------------
(* State *)

Principal ==
  [status: {"ABSENT", "PENDING", "ACTIVE", "SUSPENDED", "REVOKED"},
   type: {"NONE", "HUMAN", "AGENT"},
   role: {"NONE", "OWNER", "ORCHESTRATOR", "CUSTOM"}]

Nobody == [status |-> "ABSENT", type |-> "NONE", role |-> "NONE"]

Approval ==
  [status: {"ABSENT", "PENDING", "APPROVED", "REJECTED", "CONSUMED"},
   tier: {"NONE", "HUMAN", "ORCHESTRATOR"}, action: {"NONE", "GRANT", "OTHER"},
   expiry: {"NONE", "AHEAD", "PASSED"}]

Unrequested == [status |-> "ABSENT", tier |-> "NONE", action |-> "NONE", expiry |-> "NONE"]

GovernanceTypeOK ==
  /\ principal \in [Names -> Principal]
  /\ approval \in [Names -> Approval]
  /\ provider \in [Providers -> {"ABSENT", "ACTIVE", "RETIRED"}]
  /\ signer \in Names
  /\ length \in {"NONE", "ONE", "MORE"}
  /\ decided \subseteq Names
  /\ known \subseteq Names

Init ==
  /\ principal = [p \in Names |-> Nobody]
  /\ approval = [p \in Names |-> Unrequested]
  /\ provider = [v \in Providers |-> "ABSENT"]
  /\ signer = Owner  \* before the first event, any name would do
  /\ length = "NONE"
  /\ decided = {}
  /\ known = {}

-----------------------------------------------------------------------------
(* Helpers of the validator *)

Exists(p) == principal[p].status # "ABSENT"
Active(p) == principal[p].status = "ACTIVE"
Human(p) == principal[p].type = "HUMAN"
Leads(p) == Active(p) /\ principal[p].role \in {"OWNER", "ORCHESTRATOR"}

Recorded(p) == Reads[p] \in Providers /\ provider[Reads[p]] # "ABSENT"
Registrable(p) ==
  \/ Reads[p] = "BUILT_IN"
  \/ Reads[p] \in Providers /\ provider[Reads[p]] = "ACTIVE"

\* Mutant: a promotion accepts an approval of any tier.
GrantApprovedByAnybody(p) ==
  /\ approval[p].status = "APPROVED"
  /\ approval[p].action = "GRANT" /\ approval[p].expiry # "PASSED"

GrantApproved(p) ==
  /\ approval[p].status = "APPROVED" /\ approval[p].tier = "HUMAN"
  /\ approval[p].action = "GRANT" /\ approval[p].expiry # "PASSED"

\* The only records that may be requested anew under the same identifier.
Replaceable(p, tier, action) ==
  /\ approval[p].tier = "HUMAN" /\ tier = "HUMAN"
  /\ approval[p].action = action /\ action = "GRANT"
  /\ \/ approval[p].status = "CONSUMED"
     \/ approval[p].status \in {"PENDING", "APPROVED"} /\ approval[p].expiry = "PASSED"

\* Those of standing are suspended and revoked by themselves or by a human.
Removable(a, p) ==
  /\ principal[p].role # "OWNER"
  /\ \/ a = p \/ Human(a)
     \/ principal[p].role # "ORCHESTRATOR" /\ ~Human(p)

\* The event is appended to the log.
Commit(a) ==
  /\ signer' = a
  /\ length' = IF length = "NONE" THEN "ONE" ELSE "MORE"

-----------------------------------------------------------------------------
(* Principals *)

\* Anybody registers a free name, signing with the key registered; the name of
\* an agent begins with its provider.
Register(p, type) ==
  /\ ~Exists(p)
  /\ type = "AGENT" => Registrable(p)
  /\ principal' = [principal EXCEPT ![p] = [status |-> "PENDING", type |-> type, role |-> "NONE"]]
  /\ known' = IF Recorded(p) THEN known \cup {p} ELSE known \ {p}
  /\ Commit(p)
  /\ UNCHANGED <<approval, provider, decided>>

\* The one event the validator never sees: it must be the second of the log.
ActivateOwner ==
  /\ length = "ONE" /\ Exists(Owner)
  /\ principal' = [principal EXCEPT ![Owner].status = "ACTIVE", ![Owner].role = "OWNER"]
  /\ Commit(Owner)
  /\ UNCHANGED <<approval, provider, decided, known>>

\* What a promotion does to the approval that authorised it.
Consume(p, role) ==
  IF role = "ORCHESTRATOR"
  THEN /\ approval' = [approval EXCEPT ![p].status = "CONSUMED"]
       /\ decided' = decided \ {p}
  ELSE UNCHANGED <<approval, decided>>

\* Mutant: the owner can be activated again, in another role.
ActivateAnybody(a, p, role) ==
  /\ Leads(a)
  /\ principal[p].status \notin {"ABSENT", "REVOKED"}
  /\ role = "ORCHESTRATOR" => Human(a) /\ GrantApproved(p)
  /\ principal' = [principal EXCEPT ![p].status = "ACTIVE", ![p].role = role]
  /\ Consume(p, role)
  /\ Commit(a)
  /\ UNCHANGED <<provider, known>>

Activate(a, p, role) ==
  /\ Leads(a)
  /\ principal[p].status \notin {"ABSENT", "REVOKED"} /\ principal[p].role # "OWNER"
  /\ role = "ORCHESTRATOR" => Human(a) /\ GrantApproved(p)
  /\ principal' = [principal EXCEPT ![p].status = "ACTIVE", ![p].role = role]
  /\ Consume(p, role)
  /\ Commit(a)
  /\ UNCHANGED <<provider, known>>

SwitchRole(p, role) ==
  /\ Active(p) /\ principal[p].role # "OWNER"
  /\ role = "ORCHESTRATOR" => Human(p) /\ GrantApproved(p)
  /\ principal' = [principal EXCEPT ![p].role = role]
  /\ Consume(p, role)
  /\ Commit(p)
  /\ UNCHANGED <<provider, known>>

Suspend(a, p) ==
  /\ Leads(a)
  /\ principal[p].status \notin {"ABSENT", "REVOKED"} /\ Removable(a, p)
  /\ principal' = [principal EXCEPT ![p].status = "SUSPENDED"]
  /\ Commit(a)
  /\ UNCHANGED <<approval, provider, decided, known>>

Revoke(a, p) ==
  /\ Active(a) /\ (a = p \/ Leads(a))
  /\ principal[p].status \notin {"ABSENT", "REVOKED"} /\ Removable(a, p)
  /\ principal' = [principal EXCEPT ![p].status = "REVOKED"]
  /\ Commit(a)
  /\ UNCHANGED <<approval, provider, decided, known>>

\* Mutants: any lead deletes; the record is kept and marked.
DeleteByAnyLead(a, p) ==
  /\ Leads(a)
  /\ principal[p].status = "REVOKED"
  /\ principal' = [principal EXCEPT ![p] = Nobody]
  /\ Commit(a)
  /\ UNCHANGED <<approval, provider, decided, known>>

\* The record goes; approvals for the name, and all else that names it, stay.
Delete(a, p) ==
  /\ Leads(a) /\ Human(a)
  /\ principal[p].status = "REVOKED"
  /\ principal' = [principal EXCEPT ![p] = Nobody]
  /\ Commit(a)
  /\ UNCHANGED <<approval, provider, decided, known>>

-----------------------------------------------------------------------------
(* Approvals of promotions *)

Request(a, p, tier, action, expiry) ==
  /\ Active(a)
  /\ approval[p].status = "ABSENT" \/ Replaceable(p, tier, action)
  /\ approval' = [approval EXCEPT
       ![p] = [status |-> "PENDING", tier |-> tier, action |-> action, expiry |-> expiry]]
  /\ decided' = decided \ {p}
  /\ Commit(a)
  /\ UNCHANGED <<principal, provider, known>>

\* An expired request can still be approved; it authorises nothing.
Approve(a, p) ==
  /\ Leads(a)
  /\ approval[p].status = "PENDING"
  /\ approval[p].tier = "HUMAN" => Human(a)
  /\ approval' = [approval EXCEPT ![p].status = "APPROVED"]
  /\ decided' = IF approval[p].action = "GRANT" /\ Human(a) /\ approval[p].expiry # "PASSED"
                THEN decided \cup {p} ELSE decided
  /\ Commit(a)
  /\ UNCHANGED <<principal, provider, known>>

Reject(a, p) ==
  /\ Leads(a)
  /\ approval[p].status = "PENDING"
  /\ approval' = [approval EXCEPT ![p].status = "REJECTED"]
  /\ Commit(a)
  /\ UNCHANGED <<principal, provider, decided, known>>

Expire(p) ==
  /\ approval[p].expiry = "AHEAD"
  /\ approval' = [approval EXCEPT ![p].expiry = "PASSED"]
  /\ decided' = decided \ {p}
  /\ UNCHANGED <<principal, provider, signer, length, known>>

-----------------------------------------------------------------------------
(* Providers *)

\* Mutant: no look at the identifiers there are.
RegisterAnyProvider(a, v) ==
  /\ Leads(a)
  /\ provider[v] # "ACTIVE"
  /\ provider' = [provider EXCEPT ![v] = "ACTIVE"]
  /\ Commit(a)
  /\ UNCHANGED <<principal, approval, decided, known>>

\* A new name must not be the one an existing identifier begins with; a retired
\* one comes back as it was.
RegisterProvider(a, v) ==
  /\ Leads(a)
  /\ provider[v] # "ACTIVE"
  /\ provider[v] = "ABSENT" => \A p \in Names : Exists(p) => Reads[p] # v
  /\ provider' = [provider EXCEPT ![v] = "ACTIVE"]
  /\ Commit(a)
  /\ UNCHANGED <<principal, approval, decided, known>>

RetireProvider(a, v) ==
  /\ Leads(a)
  /\ provider[v] = "ACTIVE"
  /\ provider' = [provider EXCEPT ![v] = "RETIRED"]
  /\ Commit(a)
  /\ UNCHANGED <<principal, approval, decided, known>>

-----------------------------------------------------------------------------
\* What principal a may sign.
By(a) ==
  \/ \E type \in {"HUMAN", "AGENT"} : Register(a, type)
  \/ a = Owner /\ ActivateOwner
  \/ \E p \in Names, role \in {"ORCHESTRATOR", "CUSTOM"} : Activate(a, p, role)
  \/ \E role \in {"ORCHESTRATOR", "CUSTOM"} : SwitchRole(a, role)
  \/ \E p \in Names :
       \/ Suspend(a, p)
       \/ Revoke(a, p)
       \/ Delete(a, p)
       \/ Approve(a, p)
       \/ Reject(a, p)
  \/ \E r \in Requests : Request(a, r[1], r[2], r[3], r[4])
  \/ \E v \in Providers :
       \/ RegisterProvider(a, v)
       \/ RetireProvider(a, v)

Next ==
  \/ \E a \in Names : By(a)
  \/ \E p \in Names : Expire(p)

Spec == Init /\ [][Next]_vars

-----------------------------------------------------------------------------
(* Properties *)

\* The project has one owner for ever, the one it was created for, and without
\* it nobody is ever more than PENDING: whatever events come before the second
\* of the log, no other path makes, moves or removes an OWNER.
OwnerIsFixed ==
  /\ \A p \in Names : principal[p].role = "OWNER" => p = Owner /\ Active(p)
  /\ (\E p \in Names : principal[p].status \notin {"ABSENT", "PENDING"})
       => principal[Owner].role = "OWNER"

\* Each promotion to ORCHESTRATOR, by activation or by switching one's own
\* role, rests on a human's decision about that name which was not used before,
\* had not expired and was not replaced by a newer request.
Promoted(p) ==
  /\ principal'[p].role = "ORCHESTRATOR"
  /\ \/ principal[p].role # "ORCHESTRATOR"
     \/ approval[p].status = "APPROVED" /\ approval'[p].status = "CONSUMED"
PromotionsAreDecided == [][\A p \in Names : Promoted(p) => p \in decided]_vars

\* Registering a provider never changes what an existing identifier says: a
\* principal whose name reads as of a provider on record registered after it.
ProvidersComeFirst ==
  \A p \in Names : Exists(p) => /\ Recorded(p) => p \in known
                                /\ principal[p].type = "AGENT" => Recorded(p) \/ Reads[p] = "BUILT_IN"

\* A principal is for ever what it registered as, and once revoked never comes
\* back: only a human deletes the record, and the next holder of the name
\* starts as PENDING, without a role.
IdentitiesEnd ==
  [][\A p \in Names :
       /\ Exists(p) /\ principal'[p].status # "ABSENT" => principal'[p].type = principal[p].type
       /\ principal[p].status = "REVOKED" /\ principal'[p] # principal[p]
            => principal'[p] = Nobody /\ Human(signer') /\ Leads(signer')
       /\ ~Exists(p) => principal'[p].status \in {"ABSENT", "PENDING"} /\ principal'[p].role = "NONE"]_vars

\* What the comments and the documentation say of agents that orchestrate: none
\* takes the standing of another orchestrator or of a human.
LosesStanding(p) ==
  /\ Active(p) /\ (principal[p].role = "ORCHESTRATOR" \/ Human(p))
  /\ \/ principal'[p].status # "ACTIVE"
     \/ principal[p].role = "ORCHESTRATOR" /\ principal'[p].role # "ORCHESTRATOR"
StandingKept ==
  [][\A p \in Names : LosesStanding(p) => signer' = p \/ Human(signer')]_vars

===============================================================================
