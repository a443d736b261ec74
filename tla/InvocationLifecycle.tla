------------------------ MODULE InvocationLifecycle ------------------------
(***************************************************************************)
(* Invocations, their delivery attempts and the agent runtimes that claim  *)
(* them, as the authority sees them: one action per signed event type.  An *)
(* action's guards are the ValidateTransition case of that type            *)
(* (internal/protocol/transitions.go), its primed variables the ApplyEvent *)
(* case (internal/projection/apply.go).  The authority runs both in one    *)
(* transaction, so an event is one step.                                   *)
(*                                                                         *)
(* Abstractions.                                                           *)
(*  - Time.  A lease, deadline, retry time or heartbeat is a mark that     *)
(*    turns from running to past in a step of its own; the durations that  *)
(*    commands carry are free within limits, so any order may happen.      *)
(*  - Whether policy, scopes and approvals admit a request is not decided  *)
(*    here: every request they could admit is enumerated.                  *)
(*  - Connectors fall in three classes: INTERACTIVE; PUSH (LOCAL_PROCESS,  *)
(*    WEBHOOK), which take deliveries; PULL (MANUAL, MCP, QUEUE), which    *)
(*    only claim.  A runtime's kind is INTERACTIVE exactly when its        *)
(*    connector is.                                                        *)
(*  - Text, scopes, priorities, hosts, evidence time stamps and reasons    *)
(*    are left out, and so is ClaimUntil, which no code reads back.        *)
(***************************************************************************)
EXTENDS Integers, FiniteSets

CONSTANTS
  Principals,           \* every principal of the project
  Agents,               \* those whose PrincipalType is AGENT
  Owner,                \* the project owner
  Orchestrators,        \* principals holding the ORCHESTRATOR role
  Invocations, Deliveries, Runtimes,  \* identifiers
  Endpoints,            \* endpoint identifiers of interactive sessions
  Connectors,           \* connector classes runtimes register with
  ConsumerModes,        \* consumer modes requests carry
  Preferable,           \* runtimes a request may name as preferred
  Deadlines,            \* "NONE": without a deadline, "AHEAD": with one
  Capacities,           \* MaxConcurrent values of registrations
  MaxDeliveryAttempts,  \* limit on automatic attempts of an invocation
  None                  \* no runtime, no endpoint, nobody

ASSUME PrincipalAssumption ==
  /\ Agents \subseteq Principals
  /\ Owner \in Principals \ Agents
  /\ Orchestrators \subseteq Principals \ {Owner}

ASSUME InputAssumption ==
  /\ Connectors \subseteq {"INTERACTIVE", "PUSH", "PULL"}
  /\ ConsumerModes \subseteq {"INTERACTIVE_ONLY", "WORKER_ONLY", "EITHER"}
  /\ Preferable \subseteq Runtimes
  /\ Deadlines \subseteq {"NONE", "AHEAD"}
  /\ Capacities \subseteq Nat \ {0}
  /\ MaxDeliveryAttempts \in Nat \ {0}

ASSUME FiniteAssumption == IsFiniteSet(Invocations) /\ IsFiniteSet(Deliveries)

ASSUME NoneAssumption == None \notin Principals \cup Runtimes \cup Invocations \cup Endpoints

VARIABLES
  invocation,  \* invocation[i]: State.Invocations
  delivery,    \* delivery[d]: State.InvocationDeliveries
  runtime,     \* runtime[r]: State.AgentRuntimes
  revoked      \* principals whose status is REVOKED; the others are ACTIVE

vars == <<invocation, delivery, runtime, revoked>>

-----------------------------------------------------------------------------
(* State *)

Claimable == {"PENDING", "NOTIFIED"}
Held == {"CLAIMED", "RUNNING", "WAITING"}
Closed == {"COMPLETED", "REJECTED", "EXPIRED", "CANCELLED"}

Invocation ==
  [status: {"ABSENT"} \cup Claimable \cup Held \cup Closed,
   requestedBy: Principals \cup {None}, target: Agents \cup {None},
   consumer: {"INTERACTIVE_ONLY", "WORKER_ONLY", "EITHER"},
   preferred: Runtimes \cup {None},
   deadline: {"NONE", "AHEAD", "PASSED"},
   runtime: Runtimes \cup {None}]

Delivery ==
  [status: {"ABSENT", "ATTEMPTED", "SUCCEEDED", "FAILED", "EXHAUSTED"},
   invocation: Invocations \cup {None}, runtime: Runtimes \cup {None},
   endpoint: Endpoints \cup {None}, attempt: Nat, manual: BOOLEAN,
   lease: {"NONE", "RUNNING", "LAPSED"}]  \* AttemptUntil, while ATTEMPTED

Runtime ==
  [status: {"ABSENT", "OFFLINE", "ONLINE", "DRAINING", "REVOKED"},
   agent: Agents \cup {None}, connector: {"INTERACTIVE", "PUSH", "PULL"},
   health: {"UNKNOWN", "REPORTED"},       \* REPORTED: HEALTHY or DEGRADED
   endpoint: Endpoints \cup {None}, max: Nat,
   active: SUBSET Invocations,
   heartbeat: {"NONE", "RECENT", "OLD"}]  \* age of LastSeenAt, while ONLINE

AbsentInvocation ==
  [status |-> "ABSENT", requestedBy |-> None, target |-> None, consumer |-> "EITHER",
   preferred |-> None, deadline |-> "NONE", runtime |-> None]

AbsentDelivery ==
  [status |-> "ABSENT", invocation |-> None, runtime |-> None, endpoint |-> None,
   attempt |-> 0, manual |-> FALSE, lease |-> "NONE"]

AbsentRuntime ==
  [status |-> "ABSENT", agent |-> None, connector |-> "PULL", health |-> "UNKNOWN",
   endpoint |-> None, max |-> 0, active |-> {}, heartbeat |-> "NONE"]

TypeOK ==
  /\ invocation \in [Invocations -> Invocation]
  /\ delivery \in [Deliveries -> Delivery]
  /\ runtime \in [Runtimes -> Runtime]
  /\ revoked \subseteq Principals

Init ==
  /\ invocation = [i \in Invocations |-> AbsentInvocation]
  /\ delivery = [d \in Deliveries |-> AbsentDelivery]
  /\ runtime = [r \in Runtimes |-> AbsentRuntime]
  /\ revoked = {}

-----------------------------------------------------------------------------
(* Helpers of the validator *)

Active(p) == p \in Principals \ revoked
Elevated(p) == Active(p) /\ (p = Owner \/ p \in Orchestrators)

ConsumerAllows(mode, connector) ==
  \/ mode = "EITHER"
  \/ mode = "INTERACTIVE_ONLY" /\ connector = "INTERACTIVE"
  \/ mode = "WORKER_ONLY" /\ connector # "INTERACTIVE"

DeliveriesOf(i) == {d \in Deliveries : delivery[d].status # "ABSENT" /\ delivery[d].invocation = i}
AutomaticAttempts(i) == {d \in DeliveriesOf(i) : ~delivery[d].manual}
LastAttempt(i) ==
  CHOOSE n \in {0} \cup {delivery[d].attempt : d \in DeliveriesOf(i)} :
    \A d \in DeliveriesOf(i) : delivery[d].attempt <= n
NextAttempt(i) == LastAttempt(i) + 1

RetriesLeft(i) == Cardinality(AutomaticAttempts(i)) < MaxDeliveryAttempts

LiveAttempts(i, r) ==
  {d \in DeliveriesOf(i) : /\ delivery[d].runtime = r
                           /\ delivery[d].status = "ATTEMPTED"
                           /\ delivery[d].lease = "RUNNING"}
RouteFreeOfManual(i, r) == \A d \in LiveAttempts(i, r) : ~delivery[d].manual
RouteFree(i, r) == LiveAttempts(i, r) = {}

Delivered(i) == \E d \in DeliveriesOf(i) : delivery[d].status = "SUCCEEDED"

\* A failed attempt takes an unclaimed invocation back to what its other
\* attempts have shown.
StatusAfterFailureForgetful(i) ==
  IF invocation[i].status \in Claimable THEN "PENDING" ELSE invocation[i].status
StatusAfterFailure(i) ==
  IF invocation[i].status \notin Claimable THEN invocation[i].status
  ELSE IF Delivered(i) THEN "NOTIFIED" ELSE "PENDING"

Load(r) == {i \in Invocations : invocation[i].runtime = r /\ invocation[i].status \in Held}
HasCapacityByHeartbeat(r) == Cardinality(runtime[r].active) < runtime[r].max
HasCapacity(r) == Cardinality(Load(r)) < runtime[r].max

AssignedTo(i, r) == invocation[i].target = runtime[r].agent /\ invocation[i].runtime = r

\* Requester, target, owner or orchestrator: who may report on a delivery.
MayReport(p, i) ==
  /\ Active(p)
  /\ p \in {invocation[i].requestedBy, invocation[i].target} \/ Elevated(p)

\* Owner of the runtime, or an elevated principal.
MayManage(p, r) == Active(p) /\ (p = runtime[r].agent \/ Elevated(p))

\* Target and preferred runtime of the invocation accept runtime r.
Eligible(i, r) ==
  /\ runtime[r].status # "ABSENT"
  /\ runtime[r].agent = invocation[i].target
  /\ ConsumerAllows(invocation[i].consumer, runtime[r].connector)
  /\ invocation[i].preferred \in {None, r}

\* What readers of the state are shown: ONLINE needs a recent heartbeat.
Presence(r) ==
  IF runtime[r].status = "ONLINE" /\ runtime[r].heartbeat = "OLD" THEN "OFFLINE"
  ELSE runtime[r].status

-----------------------------------------------------------------------------
(* Invocation events *)

Request(p, i, target, consumer, preferred, deadline) ==
  /\ Active(p) /\ Active(target)
  /\ invocation[i].status = "ABSENT"
  /\ preferred # None =>
       /\ runtime[preferred].status \notin {"ABSENT", "REVOKED"}
       /\ runtime[preferred].agent = target
       /\ ConsumerAllows(consumer, runtime[preferred].connector)
  /\ invocation' = [invocation EXCEPT ![i] =
       [status |-> "PENDING", requestedBy |-> p, target |-> target, consumer |-> consumer,
        preferred |-> preferred, deadline |-> deadline, runtime |-> None]]
  /\ UNCHANGED <<delivery, runtime, revoked>>

DeliveryAttempt(p, i, d, r, manual) ==
  /\ MayReport(p, i)
  /\ invocation[i].status \in Claimable
  /\ delivery[d].status = "ABSENT"
  /\ Eligible(i, r)
  /\ runtime[r].status \notin {"DRAINING", "REVOKED"}
  /\ runtime[r].connector # "PULL"
  /\ runtime[r].connector = "INTERACTIVE" =>
       runtime[r].status = "ONLINE" /\ runtime[r].endpoint # None
  /\ RouteFree(i, r)
  /\ ~manual => RetriesLeft(i)
  /\ delivery' = [delivery EXCEPT ![d] =
       [status |-> "ATTEMPTED", invocation |-> i, runtime |-> r,
        endpoint |-> IF runtime[r].connector = "INTERACTIVE" THEN runtime[r].endpoint ELSE None,
        attempt |-> NextAttempt(i), manual |-> manual,
        lease |-> "RUNNING"]]
  /\ UNCHANGED <<invocation, runtime, revoked>>

\* The reported endpoint must be the reserved one (None for a connector).
Notify(p, i, d, endpoint) ==
  /\ MayReport(p, i)
  /\ delivery[d].status = "ATTEMPTED" /\ delivery[d].invocation = i
  /\ delivery[d].lease = "RUNNING"
  /\ endpoint = delivery[d].endpoint
  /\ delivery' = [delivery EXCEPT ![d].status = "SUCCEEDED", ![d].lease = "NONE"]
  /\ invocation' = [invocation EXCEPT ![i].status = IF @ = "PENDING" THEN "NOTIFIED" ELSE @]
  /\ UNCHANGED <<runtime, revoked>>

\* A failure is final or names a retry time, which only dispatchers read.
DeliveryFailed(p, i, d, final) ==
  /\ MayReport(p, i)
  /\ delivery[d].status = "ATTEMPTED" /\ delivery[d].invocation = i
  /\ delivery' = [delivery EXCEPT
       ![d].status = IF final THEN "EXHAUSTED" ELSE "FAILED",
       ![d].lease = "NONE"]
  /\ invocation' = [invocation EXCEPT ![i].status = StatusAfterFailure(i)]
  /\ UNCHANGED <<runtime, revoked>>

Unclaimed(i) == invocation[i].status \in Claimable /\ invocation[i].deadline # "PASSED"

MayClaim(p, i, r) ==
  /\ Active(p) /\ p = invocation[i].target
  /\ Unclaimed(i)
  /\ Eligible(i, r)
  /\ runtime[r].status = "ONLINE" /\ runtime[r].health # "UNKNOWN"
  /\ HasCapacity(r)

Claim(p, i, r) ==
  /\ MayClaim(p, i, r)
  /\ invocation' = [invocation EXCEPT ![i].status = "CLAIMED", ![i].runtime = r]
  /\ UNCHANGED <<delivery, runtime, revoked>>

\* The target moves an invocation between two statuses.
MayMove(p, i, from) ==
  /\ Active(p) /\ p = invocation[i].target
  /\ invocation[i].status \in from

Move(p, i, from, to) ==
  /\ MayMove(p, i, from)
  /\ invocation' = [invocation EXCEPT ![i].status = to]
  /\ UNCHANGED <<delivery, runtime, revoked>>

Start(p, i) == Move(p, i, {"CLAIMED"}, "RUNNING")
\* Mutant: whatever became of the invocation meanwhile.
WaitAnyway(p, i) == Move(p, i, {"RUNNING"} \cup Closed, "WAITING")
Wait(p, i) == Move(p, i, {"RUNNING"}, "WAITING")
Resume(p, i) == Move(p, i, {"WAITING"}, "RUNNING")
Complete(p, i) == Move(p, i, {"RUNNING", "WAITING"}, "COMPLETED")
Reject(p, i) == Move(p, i, Claimable \cup {"CLAIMED"}, "REJECTED")

\* invocation.expire asks for a passed deadline and for no status.
Expire(p, i) ==
  /\ Active(p) /\ (p = invocation[i].requestedBy \/ Elevated(p))
  /\ invocation[i].status # "ABSENT" /\ invocation[i].deadline = "PASSED"
  /\ invocation' = [invocation EXCEPT ![i].status = "EXPIRED"]
  /\ UNCHANGED <<delivery, runtime, revoked>>

Cancel(p, i) ==
  /\ Active(p) /\ (p = invocation[i].requestedBy \/ Elevated(p))
  /\ invocation[i].status \notin Closed \cup {"ABSENT"}
  /\ invocation' = [invocation EXCEPT ![i].status = "CANCELLED"]
  /\ UNCHANGED <<delivery, runtime, revoked>>

-----------------------------------------------------------------------------
(* Runtime events *)

RuntimeRegister(p, r, agent, connector, max) ==
  /\ runtime[r].status = "ABSENT"
  /\ Active(agent)
  /\ Active(p) /\ (p = agent \/ Elevated(p))
  /\ runtime' = [runtime EXCEPT ![r] =
       [AbsentRuntime EXCEPT !.status = "OFFLINE", !.agent = agent,
                             !.connector = connector, !.max = max]]
  /\ UNCHANGED <<invocation, delivery, revoked>>

RuntimeConfigure(p, r, connector, max) ==
  /\ MayManage(p, r)
  /\ runtime[r].status \in {"OFFLINE", "DRAINING"}
  /\ runtime[r].active = {} /\ Load(r) = {}
  /\ runtime' = [runtime EXCEPT
       ![r].status = "OFFLINE", ![r].health = "UNKNOWN", ![r].endpoint = None,
       ![r].connector = connector, ![r].max = max]
  /\ UNCHANGED <<invocation, delivery, revoked>>

\* MinHeartbeatInterval passes unseen: two heartbeats are never simultaneous.
MayBeat(p, r, endpoint, active) ==
  /\ Active(p) /\ p = runtime[r].agent
  /\ runtime[r].status \in {"OFFLINE", "ONLINE"}
  /\ (endpoint # None) <=> (runtime[r].connector = "INTERACTIVE")
  /\ Cardinality(active) <= runtime[r].max
  /\ \A i \in active : AssignedTo(i, r)

RuntimeHeartbeat(p, r, endpoint, active) ==
  /\ MayBeat(p, r, endpoint, active)
  /\ runtime' = [runtime EXCEPT
       ![r].status = "ONLINE", ![r].health = "REPORTED", ![r].endpoint = endpoint,
       ![r].active = active, ![r].heartbeat = "RECENT"]
  /\ UNCHANGED <<invocation, delivery, revoked>>

\* An online interactive runtime goes offline only for the endpoint it has.
RuntimeOffline(p, r, endpoint) ==
  /\ MayManage(p, r)
  /\ runtime[r].status \in {"OFFLINE", "ONLINE", "DRAINING"}
  /\ runtime[r].connector = "INTERACTIVE" /\ runtime[r].status = "ONLINE" =>
       endpoint # None /\ endpoint = runtime[r].endpoint
  /\ runtime' = [runtime EXCEPT
       ![r].status = "OFFLINE", ![r].health = "UNKNOWN", ![r].endpoint = None,
       ![r].active = {}, ![r].heartbeat = "NONE"]
  /\ UNCHANGED <<invocation, delivery, revoked>>

\* drain, resume and revoke change the status alone: the endpoint, the
\* health and the active list of the last heartbeat stay in the record.
SetRuntimeStatus(r, status) ==
  /\ runtime' = [runtime EXCEPT ![r].status = status, ![r].heartbeat = "NONE"]
  /\ UNCHANGED <<invocation, delivery, revoked>>

RuntimeDrain(p, r) ==
  /\ MayManage(p, r)
  /\ runtime[r].status \in {"OFFLINE", "ONLINE"}
  /\ SetRuntimeStatus(r, "DRAINING")

RuntimeResume(p, r) ==
  /\ MayManage(p, r)
  /\ runtime[r].status = "DRAINING"
  /\ SetRuntimeStatus(r, "OFFLINE")

RuntimeRevoke(p, r) ==
  /\ Elevated(p)
  /\ runtime[r].status \notin {"ABSENT", "REVOKED"}
  /\ SetRuntimeStatus(r, "REVOKED")

RuntimeDelete(p, r) ==
  /\ MayManage(p, r)
  /\ runtime[r].status = "REVOKED"
  /\ runtime' = [runtime EXCEPT ![r] = AbsentRuntime]
  /\ UNCHANGED <<invocation, delivery, revoked>>

\* agent.revoke takes the principal's runtimes with it, nothing else.
RevokeAgent(p, a) ==
  /\ Active(p) /\ (p = a \/ Elevated(p))
  /\ a # Owner /\ a \notin revoked
  /\ p \in Agents /\ p # a => a \in Agents \ Orchestrators
  /\ revoked' = revoked \cup {a}
  /\ runtime' = [r \in Runtimes |->
       IF runtime[r].agent = a /\ runtime[r].status \notin {"ABSENT", "REVOKED"}
       THEN [runtime[r] EXCEPT !.status = "REVOKED", !.heartbeat = "NONE"]
       ELSE runtime[r]]
  /\ UNCHANGED <<invocation, delivery>>

-----------------------------------------------------------------------------
(* The passage of time *)

AttemptLeaseLapses(d) ==
  /\ delivery[d].lease = "RUNNING"
  /\ delivery' = [delivery EXCEPT ![d].lease = "LAPSED"]
  /\ UNCHANGED <<invocation, runtime, revoked>>

DeadlinePasses(i) ==
  /\ invocation[i].deadline = "AHEAD"
  /\ invocation' = [invocation EXCEPT ![i].deadline = "PASSED"]
  /\ UNCHANGED <<delivery, runtime, revoked>>

HeartbeatGrowsOld(r) ==
  /\ runtime[r].heartbeat = "RECENT"
  /\ runtime' = [runtime EXCEPT ![r].heartbeat = "OLD"]
  /\ UNCHANGED <<invocation, delivery, revoked>>

-----------------------------------------------------------------------------

InvocationStep(p, i) ==
  \/ \E target \in Agents, consumer \in ConsumerModes, preferred \in Preferable \cup {None},
        deadline \in Deadlines : Request(p, i, target, consumer, preferred, deadline)
  \/ \E r \in Runtimes : Claim(p, i, r)
  \/ Start(p, i)
  \/ Wait(p, i)
  \/ Resume(p, i)
  \/ Complete(p, i)
  \/ Reject(p, i)
  \/ Expire(p, i)
  \/ Cancel(p, i)

DeliveryStep(p, i, d) ==
  \/ \E r \in Runtimes, manual \in BOOLEAN : DeliveryAttempt(p, i, d, r, manual)
  \/ \E endpoint \in Endpoints \cup {None} : Notify(p, i, d, endpoint)
  \/ \E final \in BOOLEAN : DeliveryFailed(p, i, d, final)

RuntimeStep(p, r) ==
  \/ \E agent \in Agents, connector \in Connectors, max \in Capacities :
        RuntimeRegister(p, r, agent, connector, max)
  \/ \E connector \in Connectors, max \in Capacities : RuntimeConfigure(p, r, connector, max)
  \/ \E endpoint \in Endpoints \cup {None}, active \in SUBSET Invocations :
        RuntimeHeartbeat(p, r, endpoint, active)
  \/ \E endpoint \in Endpoints \cup {None} : RuntimeOffline(p, r, endpoint)
  \/ RuntimeDrain(p, r)
  \/ RuntimeResume(p, r)
  \/ RuntimeRevoke(p, r)
  \/ RuntimeDelete(p, r)

Time ==
  \/ \E d \in Deliveries : AttemptLeaseLapses(d)
  \/ \E i \in Invocations : DeadlinePasses(i)
  \/ \E r \in Runtimes : HeartbeatGrowsOld(r)

Next ==
  \/ \E p \in Principals, i \in Invocations : InvocationStep(p, i)
  \/ \E p \in Principals, i \in Invocations, d \in Deliveries : DeliveryStep(p, i, d)
  \/ \E p \in Principals, r \in Runtimes : RuntimeStep(p, r)
  \/ \E p, a \in Principals : RevokeAgent(p, a)
  \/ Time

Spec == Init /\ [][Next]_vars

-----------------------------------------------------------------------------
(* Safety *)

\* Two daemons never both hold a route: an invocation has at most one attempt
\* per runtime whose lease is still running.  The attempts of a runtime that
\* died with one in flight come free when the lease lapses.
ExclusiveRoute ==
  \A i \in Invocations, r \in Runtimes, d, e \in Deliveries :
    d \in LiveAttempts(i, r) /\ e \in LiveAttempts(i, r) => d = e

\* NextAttempt never reuses or skips a number, whatever order attempts end in.
AttemptsNumbered ==
  \A i \in Invocations :
    {delivery[d].attempt : d \in DeliveriesOf(i)} = 1..Cardinality(DeliveriesOf(i))

\* Automatic retries stop at the limit; manual redeliveries do not count.
AutomaticAttemptsBounded ==
  \A i \in Invocations : Cardinality(AutomaticAttempts(i)) <= MaxDeliveryAttempts

\* NOTIFIED is evidence of a completed delivery and PENDING of none, through
\* failures of later, earlier and concurrent attempts.
NotifiedIffDelivered ==
  \A i \in Invocations :
    invocation[i].status \in Claimable => (invocation[i].status = "NOTIFIED" <=> Delivered(i))

\* Records never outrun one another: a delivery belongs to an issued invocation,
\* and an invocation names a runtime from the claim on, not before, for as long
\* as somebody may be working on it.
RecordsLinked ==
  /\ \A d \in Deliveries : delivery[d].status # "ABSENT" =>
       /\ delivery[d].invocation \in Invocations
       /\ invocation[delivery[d].invocation].status # "ABSENT"
  /\ \A i \in Invocations :
       /\ invocation[i].status \in Claimable \cup {"ABSENT"} => invocation[i].runtime = None
       /\ invocation[i].status \in Held => invocation[i].runtime # None

\* Heartbeats only ever list invocations this runtime claimed, even across
\* revocation, deletion and registration of the identifier for another agent.
ActiveListsAssigned ==
  \A r \in Runtimes : \A i \in runtime[r].active :
    invocation[i].runtime = r /\ invocation[i].target = runtime[r].agent

\* Revoking an agent leaves none of its runtimes able to take work, and no
\* later runtime event gives one back.
RevocationSticks ==
  \A r \in Runtimes :
    runtime[r].agent \in revoked => runtime[r].status \in {"ABSENT", "REVOKED"}

(* What a step may never do *)

\* Competing runtime instances cannot both claim: the claiming runtime of an
\* invocation, once recorded, is never replaced or dropped.
ClaimIsUnique ==
  [][\A i \in Invocations :
       invocation[i].runtime # None => invocation'[i].runtime = invocation[i].runtime]_vars

\* A closed invocation never opens again, whatever late report about one of
\* its deliveries arrives.
ClosedStaysClosed ==
  [][\A i \in Invocations :
       invocation[i].status \in Closed => invocation'[i].status \in Closed]_vars

\* No step adds work to a runtime beyond the capacity it has at that step.
NeverOvercommits ==
  [][\A r \in Runtimes : Load(r)' \subseteq Load(r) \/ Cardinality(Load(r)') <= runtime'[r].max]_vars

\* Revoking an agent ends what it can do to the work it was given: from then on
\* others close the invocation or report on its deliveries, and nothing more.
RevokedAgentsStop ==
  [][\A i \in Invocations :
       invocation[i].target \in revoked /\ invocation'[i].status # invocation[i].status =>
         /\ invocation'[i].status \in Claimable \cup {"EXPIRED", "CANCELLED"}
         /\ invocation'[i].runtime = invocation[i].runtime]_vars

-----------------------------------------------------------------------------
(* The promise this implements *)

Phase(i) ==
  CASE invocation[i].status = "ABSENT" -> "NONE"
    [] invocation[i].status \in Claimable -> "OPEN"
    [] invocation[i].status \in Held -> "HELD"
    [] OTHER -> "CLOSED"

Promise == INSTANCE Engagement WITH
  phase <- [i \in Invocations |-> Phase(i)],
  holder <- [i \in Invocations |-> invocation[i].runtime]

\* Every event of the protocol is a step of the promise or none: issued once,
\* taken by at most one runtime while open, closed for good.
ImplementsEngagement == Promise!Spec

-----------------------------------------------------------------------------
(* What the documentation says and the code does not do *)

\* docs/agent-invocations.md lists COMPLETED, REJECTED, EXPIRED and CANCELLED
\* as terminal states: no later event changes one into another.
TerminalStatusFinal ==
  [][\A i \in Invocations :
       invocation[i].status \in Closed => invocation'[i].status = invocation[i].status]_vars

\* docs/agent-invocations.md: an online runtime becomes offline when its
\* heartbeat is older than 45 seconds; so none claims work from then on.
ClaimsNeedPresence ==
  [][\A i \in Invocations :
       invocation[i].runtime = None /\ invocation'[i].runtime # None =>
         Presence(invocation'[i].runtime) = "ONLINE"]_vars

=============================================================================
