-------------------------- MODULE InvocationProofs --------------------------
(***************************************************************************)
(* The protocol of InvocationLifecycle, proved for every set of            *)
(* identifiers: its invariants, and that it implements Engagement.  Then   *)
(* its two actors.  Dispatchers, however many and however stale their      *)
(* snapshots, and workers, whatever fails them, take no step the protocol  *)
(* does not allow, so what is proved of it holds with them; no attempt or  *)
(* live route is ever in the hands of two dispatchers, and no invocation   *)
(* is left without the worker that took it.                                *)
(***************************************************************************)
EXTENDS DeliveryDispatch, WorkerTurns, FiniteSetTheorems, WellFoundedInduction, TLAPS

-----------------------------------------------------------------------------
(* Attempt numbers *)

LEMMA DeliveriesFinite ==
  ASSUME NEW i \in Invocations
  PROVE  /\ IsFiniteSet(DeliveriesOf(i)) /\ Cardinality(DeliveriesOf(i)) \in Nat
         /\ IsFiniteSet(AutomaticAttempts(i)) /\ Cardinality(AutomaticAttempts(i)) \in Nat
  <1>1. DeliveriesOf(i) \subseteq Deliveries /\ AutomaticAttempts(i) \subseteq Deliveries
    BY DEF DeliveriesOf, AutomaticAttempts
  <1> QED
    BY <1>1, FiniteAssumption, FS_Subset, FS_CardinalityType

LEMMA LastAttemptCounts ==
  ASSUME AttemptsNumbered, NEW i \in Invocations
  PROVE  LastAttempt(i) = Cardinality(DeliveriesOf(i))
  <1> DEFINE used == {delivery[d].attempt : d \in DeliveriesOf(i)}
             k == Cardinality(DeliveriesOf(i))
             IsLast(n) == n \in {0} \cup used /\ \A d \in DeliveriesOf(i) : delivery[d].attempt <= n
  <1>1. used = 1..k /\ k \in Nat
    BY DeliveriesFinite DEF AttemptsNumbered
  <1>2. \A d \in DeliveriesOf(i) : delivery[d].attempt \in used
    OBVIOUS
  <1>3. IsLast(k)
    BY <1>1, <1>2
  <1>4. ASSUME NEW n, IsLast(n) PROVE n = k
    <2>1. n \in 0..k
      BY <1>1, <1>4
    <2>2. CASE k = 0
      BY <2>1, <2>2
    <2>3. CASE k # 0
      <3>1. k \in used
        BY <1>1, <2>3
      <3>2. PICK d \in DeliveriesOf(i) : delivery[d].attempt = k
        BY <3>1
      <3> QED
        BY <1>1, <1>4, <2>1, <3>2
    <2> QED
      BY <2>2, <2>3
  <1>5. LastAttempt(i) = CHOOSE n : IsLast(n)
    BY DEF LastAttempt
  <1>6. IsLast(CHOOSE n : IsLast(n))
    BY <1>3
  <1> QED
    BY <1>4, <1>5, <1>6

LEMMA NextAttemptType ==
  ASSUME AttemptsNumbered, NEW i \in Invocations
  PROVE  NextAttempt(i) \in Nat \ {0}
  BY DeliveriesFinite, LastAttemptCounts DEF NextAttempt

-----------------------------------------------------------------------------
(* Types *)

LEMMA InvocationTypes ==
  ASSUME TypeOK, NEW p \in Principals, NEW i \in Invocations, InvocationStep(p, i)
  PROVE  TypeOK'
  <1> USE DEF TypeOK, Invocation, Claimable, Held, Closed
  <1>1. ASSUME NEW target \in Agents, NEW consumer \in ConsumerModes,
               NEW preferred \in Preferable \cup {None}, NEW deadline \in Deadlines,
               Request(p, i, target, consumer, preferred, deadline)
        PROVE  TypeOK'
    BY <1>1, InputAssumption DEF Request
  <1>2. ASSUME NEW r \in Runtimes, Claim(p, i, r) PROVE TypeOK'
    <2> DEFINE new == [invocation[i] EXCEPT !.status = "CLAIMED", !.runtime = r]
    <2>1. new \in Invocation
      OBVIOUS
    <2>2. invocation' = [invocation EXCEPT ![i] = new]
      BY <1>2 DEF Claim, MayClaim
    <2> QED
      BY <1>2, <2>1, <2>2 DEF Claim, MayClaim
  <1>3. ASSUME NEW from, NEW to \in Held \cup Closed, Move(p, i, from, to) PROVE TypeOK'
    BY <1>3 DEF Move, MayMove
  <1>4. CASE Expire(p, i)
    BY <1>4 DEF Expire
  <1>5. CASE Cancel(p, i)
    BY <1>5 DEF Cancel
  <1> QED
    BY <1>1, <1>2, <1>3, <1>4, <1>5
    DEF InvocationStep, Start, Wait, Resume, Complete, Reject

LEMMA DeliveryTypes ==
  ASSUME TypeOK, AttemptsNumbered,
         NEW p \in Principals, NEW i \in Invocations, NEW d \in Deliveries, DeliveryStep(p, i, d)
  PROVE  TypeOK'
  <1> USE DEF TypeOK, Delivery
  <1>1. ASSUME NEW r \in Runtimes, NEW manual \in BOOLEAN, DeliveryAttempt(p, i, d, r, manual)
        PROVE  TypeOK'
    <2>1. runtime[r].endpoint \in Endpoints \cup {None}
      BY DEF Runtime
    <2>2. NextAttempt(i) \in Nat
      BY NextAttemptType
    <2> QED
      BY <1>1, <2>1, <2>2 DEF DeliveryAttempt
  <1>2. ASSUME NEW endpoint, Notify(p, i, d, endpoint) PROVE TypeOK'
    BY <1>2 DEF Notify, Invocation, Claimable
  <1>3. ASSUME NEW final \in BOOLEAN, DeliveryFailed(p, i, d, final) PROVE TypeOK'
    <2>0. PICK status \in {"EXHAUSTED", "FAILED"} :
            delivery' = [delivery EXCEPT ![d].status = status, ![d].lease = "NONE"]
      BY <1>3 DEF DeliveryFailed
    <2> DEFINE new == [delivery[d] EXCEPT !.status = status, !.lease = "NONE"]
    <2>1. StatusAfterFailure(i) \in {invocation[i].status} \cup Claimable
      BY DEF StatusAfterFailure, Claimable
    <2>2. invocation' \in [Invocations -> Invocation]
      <3>1. invocation' = [invocation EXCEPT ![i].status = StatusAfterFailure(i)]
        BY <1>3 DEF DeliveryFailed
      <3>2. invocation[i] \in Invocation
        OBVIOUS
      <3>3. [invocation[i] EXCEPT !.status = StatusAfterFailure(i)] \in Invocation
        BY <2>1, <3>2 DEF Invocation, Claimable
      <3> QED
        BY <3>1, <3>3
    <2>3. new \in Delivery
      OBVIOUS
    <2>4. delivery' = [delivery EXCEPT ![d] = new]
      BY <2>0
    <2> QED
      BY <1>3, <2>2, <2>3, <2>4 DEF DeliveryFailed
  <1> QED
    BY <1>1, <1>2, <1>3 DEF DeliveryStep

LEMMA RuntimeTypes ==
  ASSUME TypeOK, NEW p \in Principals, NEW r \in Runtimes, RuntimeStep(p, r)
  PROVE  TypeOK'
  <1> USE DEF TypeOK, Runtime
  <1>1. ASSUME NEW agent \in Agents, NEW connector \in Connectors, NEW max \in Capacities,
               RuntimeRegister(p, r, agent, connector, max)
        PROVE  TypeOK'
    BY <1>1, InputAssumption DEF RuntimeRegister, AbsentRuntime
  <1>2. ASSUME NEW connector \in Connectors, NEW max \in Capacities,
               RuntimeConfigure(p, r, connector, max)
        PROVE  TypeOK'
    <2> DEFINE new == [runtime[r] EXCEPT !.status = "OFFLINE", !.health = "UNKNOWN",
                                         !.endpoint = None, !.connector = connector, !.max = max]
    <2>0. /\ runtime[r] \in Runtime
          /\ connector \in {"INTERACTIVE", "PUSH", "PULL"}
          /\ max \in Nat
      BY InputAssumption
    <2>1. new \in Runtime
      BY <2>0
    <2>2. runtime' = [runtime EXCEPT ![r] = new]
      BY <1>2 DEF RuntimeConfigure
    <2> QED
      BY <1>2, <2>1, <2>2 DEF RuntimeConfigure
  <1>3. ASSUME NEW endpoint \in Endpoints \cup {None}, NEW active \in SUBSET Invocations,
               RuntimeHeartbeat(p, r, endpoint, active)
        PROVE  TypeOK'
    <2> DEFINE new == [runtime[r] EXCEPT !.status = "ONLINE", !.health = "REPORTED",
                       !.endpoint = endpoint, !.active = active, !.heartbeat = "RECENT"]
    <2>1. new \in Runtime
      BY <1>3
    <2>2. runtime' = [runtime EXCEPT ![r] = new]
      BY <1>3 DEF RuntimeHeartbeat, MayBeat
    <2> QED
      BY <1>3, <2>1, <2>2 DEF RuntimeHeartbeat, MayBeat
  <1>4. ASSUME NEW endpoint, RuntimeOffline(p, r, endpoint) PROVE TypeOK'
    <2> DEFINE new == [runtime[r] EXCEPT !.status = "OFFLINE", !.health = "UNKNOWN",
                             !.endpoint = None, !.active = {}, !.heartbeat = "NONE"]
    <2>1. new \in Runtime
      BY <1>4
    <2>2. runtime' = [runtime EXCEPT ![r] = new]
      BY <1>4 DEF RuntimeOffline
    <2> QED
      BY <1>4, <2>1, <2>2 DEF RuntimeOffline
  <1>5. ASSUME NEW status \in {"OFFLINE", "DRAINING", "REVOKED"}, SetRuntimeStatus(r, status)
        PROVE  TypeOK'
    <2> DEFINE new == [runtime[r] EXCEPT !.status = status, !.heartbeat = "NONE"]
    <2>1. new \in Runtime
      BY <1>5
    <2>2. runtime' = [runtime EXCEPT ![r] = new]
      BY <1>5 DEF SetRuntimeStatus
    <2> QED
      BY <1>5, <2>1, <2>2 DEF SetRuntimeStatus
  <1>6. CASE RuntimeDelete(p, r)
    BY <1>6 DEF RuntimeDelete, AbsentRuntime
  <1> QED
    BY <1>1, <1>2, <1>3, <1>4, <1>5, <1>6
    DEF RuntimeStep, RuntimeDrain, RuntimeResume, RuntimeRevoke

LEMMA OtherTypes ==
  ASSUME TypeOK, Time \/ \E p, a \in Principals : RevokeAgent(p, a)
  PROVE  TypeOK'
  <1> USE DEF TypeOK
  <1>1. ASSUME NEW p \in Principals, NEW a \in Principals, RevokeAgent(p, a) PROVE TypeOK'
    <2>1. ASSUME NEW r \in Runtimes PROVE runtime'[r] \in Runtime
      <3> DEFINE gone == [runtime[r] EXCEPT !.status = "REVOKED", !.heartbeat = "NONE"]
      <3>1. runtime[r] \in Runtime /\ gone \in Runtime
        BY DEF Runtime
      <3>2. runtime'[r] \in {runtime[r], gone}
        BY <1>1 DEF RevokeAgent
      <3> QED
        BY <3>1, <3>2
    <2> QED
      BY <1>1, <2>1 DEF RevokeAgent
  <1>2. ASSUME NEW d \in Deliveries, AttemptLeaseLapses(d) PROVE TypeOK'
    BY <1>2 DEF AttemptLeaseLapses, Delivery
  <1>3. ASSUME NEW i \in Invocations, DeadlinePasses(i) PROVE TypeOK'
    BY <1>3 DEF DeadlinePasses, Invocation
  <1>4. ASSUME NEW r \in Runtimes, HeartbeatGrowsOld(r) PROVE TypeOK'
    BY <1>4 DEF HeartbeatGrowsOld, Runtime
  <1> QED
    BY <1>1, <1>2, <1>3, <1>4 DEF Time

LEMMA TypesStep == TypeOK /\ AttemptsNumbered /\ [Next]_vars => TypeOK'
  <1> SUFFICES ASSUME TypeOK, AttemptsNumbered, [Next]_vars PROVE TypeOK'
    OBVIOUS
  <1>1. CASE UNCHANGED vars
    BY <1>1 DEF TypeOK, vars
  <1>2. CASE Next
    BY <1>2, InvocationTypes, DeliveryTypes, RuntimeTypes, OtherTypes DEF Next
  <1> QED
    BY <1>1, <1>2

-----------------------------------------------------------------------------
(* What changes what *)

LEMMA InvocationStepFrame ==
  ASSUME NEW p, NEW i, InvocationStep(p, i)
  PROVE  UNCHANGED <<delivery, runtime, revoked>>
  <1>1. ASSUME NEW target, NEW consumer, NEW preferred, NEW deadline,
               Request(p, i, target, consumer, preferred, deadline)
        PROVE  UNCHANGED <<delivery, runtime, revoked>>
    BY <1>1 DEF Request
  <1>2. ASSUME NEW r, Claim(p, i, r) PROVE UNCHANGED <<delivery, runtime, revoked>>
    BY <1>2 DEF Claim, MayClaim
  <1>3. ASSUME NEW from, NEW to, Move(p, i, from, to)
        PROVE  UNCHANGED <<delivery, runtime, revoked>>
    BY <1>3 DEF Move, MayMove
  <1>4. CASE Expire(p, i) \/ Cancel(p, i)
    BY <1>4 DEF Expire, Cancel
  <1> QED
    BY <1>1, <1>2, <1>3, <1>4 DEF InvocationStep, Start, Wait, Resume, Complete, Reject

LEMMA DeliveryStepFrame ==
  ASSUME NEW p, NEW i, NEW d, DeliveryStep(p, i, d)
  PROVE  UNCHANGED <<runtime, revoked>>
  <1>1. ASSUME NEW r, NEW manual, DeliveryAttempt(p, i, d, r, manual)
        PROVE  UNCHANGED <<runtime, revoked>>
    BY <1>1 DEF DeliveryAttempt
  <1>2. ASSUME NEW endpoint, Notify(p, i, d, endpoint) PROVE UNCHANGED <<runtime, revoked>>
    BY <1>2 DEF Notify
  <1>3. ASSUME NEW final, DeliveryFailed(p, i, d, final) PROVE UNCHANGED <<runtime, revoked>>
    BY <1>3 DEF DeliveryFailed
  <1> QED
    BY <1>1, <1>2, <1>3 DEF DeliveryStep

LEMMA RuntimeStepFrame ==
  ASSUME NEW p, NEW r, RuntimeStep(p, r)
  PROVE  UNCHANGED <<invocation, delivery, revoked>>
  <1>1. ASSUME NEW agent, NEW connector, NEW max, RuntimeRegister(p, r, agent, connector, max)
        PROVE  UNCHANGED <<invocation, delivery, revoked>>
    BY <1>1 DEF RuntimeRegister
  <1>2. ASSUME NEW connector, NEW max, RuntimeConfigure(p, r, connector, max)
        PROVE  UNCHANGED <<invocation, delivery, revoked>>
    BY <1>2 DEF RuntimeConfigure
  <1>3. ASSUME NEW endpoint, NEW active, RuntimeHeartbeat(p, r, endpoint, active)
        PROVE  UNCHANGED <<invocation, delivery, revoked>>
    BY <1>3 DEF RuntimeHeartbeat, MayBeat
  <1>4. ASSUME NEW endpoint, RuntimeOffline(p, r, endpoint)
        PROVE  UNCHANGED <<invocation, delivery, revoked>>
    BY <1>4 DEF RuntimeOffline
  <1>5. ASSUME NEW status, SetRuntimeStatus(r, status)
        PROVE  UNCHANGED <<invocation, delivery, revoked>>
    BY <1>5 DEF SetRuntimeStatus
  <1>6. CASE RuntimeDelete(p, r)
    BY <1>6 DEF RuntimeDelete
  <1> QED
    BY <1>1, <1>2, <1>3, <1>4, <1>5, <1>6
    DEF RuntimeStep, RuntimeDrain, RuntimeResume, RuntimeRevoke

LEMMA StepsChangingDeliveries ==
  ASSUME [Next]_vars
  PROVE  \/ UNCHANGED delivery
         \/ \E p \in Principals, i \in Invocations, d \in Deliveries : DeliveryStep(p, i, d)
         \/ \E d \in Deliveries : AttemptLeaseLapses(d)
  <1>1. CASE Time
    BY <1>1 DEF Time, DeadlinePasses, HeartbeatGrowsOld
  <1>2. ASSUME NEW p, NEW a, RevokeAgent(p, a) PROVE UNCHANGED delivery
    BY <1>2 DEF RevokeAgent
  <1> QED
    BY <1>1, <1>2, InvocationStepFrame, RuntimeStepFrame DEF Next, vars

LEMMA StepsChangingInvocations ==
  ASSUME [Next]_vars
  PROVE  \/ UNCHANGED invocation
         \/ \E p \in Principals, i \in Invocations : InvocationStep(p, i)
         \/ \E p \in Principals, i \in Invocations, d \in Deliveries : DeliveryStep(p, i, d)
         \/ \E i \in Invocations : DeadlinePasses(i)
  <1>1. CASE Time
    BY <1>1 DEF Time, AttemptLeaseLapses, HeartbeatGrowsOld
  <1>2. ASSUME NEW p, NEW a, RevokeAgent(p, a) PROVE UNCHANGED invocation
    BY <1>2 DEF RevokeAgent
  <1> QED
    BY <1>1, <1>2, RuntimeStepFrame DEF Next, vars

LEMMA StepsChangingRuntimes ==
  ASSUME [Next]_vars
  PROVE  \/ UNCHANGED <<runtime, revoked>>
         \/ \E p \in Principals, r \in Runtimes : RuntimeStep(p, r)
         \/ \E p, a \in Principals : RevokeAgent(p, a)
         \/ \E r \in Runtimes : HeartbeatGrowsOld(r)
  <1>1. CASE Time
    BY <1>1 DEF Time, AttemptLeaseLapses, DeadlinePasses
  <1> QED
    BY <1>1, InvocationStepFrame, DeliveryStepFrame DEF Next, vars

\* A delivery once attempted keeps its invocation, number and kind.
SameDeliveries ==
  \A d \in Deliveries :
    /\ delivery'[d].status = "ABSENT" <=> delivery[d].status = "ABSENT"
    /\ delivery'[d].invocation = delivery[d].invocation
    /\ delivery'[d].attempt = delivery[d].attempt
    /\ delivery'[d].manual = delivery[d].manual

LEMMA DeliveriesKeepIdentity ==
  ASSUME TypeOK, [Next]_vars
  PROVE  \/ SameDeliveries
         \/ \E p \in Principals, i \in Invocations, d \in Deliveries, r \in Runtimes,
               manual \in BOOLEAN : DeliveryAttempt(p, i, d, r, manual)
  <1> USE DEF SameDeliveries
  <1>1. ASSUME NEW p \in Principals, NEW i \in Invocations, NEW d \in Deliveries, NEW endpoint,
               Notify(p, i, d, endpoint)
        PROVE  SameDeliveries
    BY <1>1 DEF Notify, TypeOK, Delivery
  <1>2. ASSUME NEW p \in Principals, NEW i \in Invocations, NEW d \in Deliveries, NEW final \in BOOLEAN,
               DeliveryFailed(p, i, d, final)
        PROVE  SameDeliveries
    <2>1. PICK status \in {"EXHAUSTED", "FAILED"} :
            delivery' = [delivery EXCEPT ![d].status = status, ![d].lease = "NONE"]
      BY <1>2 DEF DeliveryFailed
    <2>2. delivery[d].status # "ABSENT"
      BY <1>2 DEF DeliveryFailed
    <2> QED
      BY <2>1, <2>2 DEF TypeOK, Delivery
  <1>3. ASSUME NEW d \in Deliveries, AttemptLeaseLapses(d) PROVE SameDeliveries
    BY <1>3 DEF AttemptLeaseLapses, TypeOK, Delivery
  <1>4. ASSUME UNCHANGED delivery PROVE SameDeliveries
    BY <1>4
  <1> QED
    BY <1>1, <1>2, <1>3, <1>4, StepsChangingDeliveries DEF DeliveryStep

\* What an attempt adds, seen from each invocation.
LEMMA AttemptAddsOne ==
  ASSUME TypeOK, NEW p \in Principals, NEW i \in Invocations, NEW d \in Deliveries,
         NEW r \in Runtimes, NEW manual \in BOOLEAN, DeliveryAttempt(p, i, d, r, manual),
         NEW j \in Invocations
  PROVE  /\ d \notin DeliveriesOf(j) /\ d \notin AutomaticAttempts(j)
         /\ DeliveriesOf(j)' = IF j = i THEN DeliveriesOf(j) \cup {d} ELSE DeliveriesOf(j)
         /\ AutomaticAttempts(j)' = IF j = i /\ ~manual THEN AutomaticAttempts(j) \cup {d}
                                    ELSE AutomaticAttempts(j)
         /\ delivery'[d].attempt = NextAttempt(i)
         /\ \A e \in Deliveries \ {d} : delivery'[e] = delivery[e]
  <1>1. PICK endpoint : delivery' = [delivery EXCEPT ![d] =
          [status |-> "ATTEMPTED", invocation |-> i, runtime |-> r, endpoint |-> endpoint,
           attempt |-> NextAttempt(i), manual |-> manual, lease |-> "RUNNING"]]
    BY DEF DeliveryAttempt
  <1>2. delivery[d].status = "ABSENT"
    BY DEF DeliveryAttempt
  <1>3. /\ \A e \in Deliveries \ {d} : delivery'[e] = delivery[e]
        /\ delivery'[d].status # "ABSENT" /\ delivery'[d].invocation = i
        /\ delivery'[d].attempt = NextAttempt(i) /\ delivery'[d].manual = manual
    BY <1>1 DEF TypeOK
  <1> QED
    BY <1>2, <1>3 DEF DeliveriesOf, AutomaticAttempts

LEMMA NumberingStep ==
  ASSUME TypeOK, AttemptsNumbered, [Next]_vars
  PROVE  AttemptsNumbered'
  <1>1. ASSUME SameDeliveries PROVE AttemptsNumbered'
    <2>1. \A i \in Invocations : DeliveriesOf(i)' = DeliveriesOf(i)
      BY <1>1 DEF SameDeliveries, DeliveriesOf
    <2>2. ASSUME NEW i \in Invocations
          PROVE  {delivery'[d].attempt : d \in DeliveriesOf(i)'}
                   = {delivery[d].attempt : d \in DeliveriesOf(i)}
      <3>1. \A d \in DeliveriesOf(i) : delivery'[d].attempt = delivery[d].attempt
        BY <1>1 DEF SameDeliveries, DeliveriesOf
      <3> QED
        BY <2>1, <3>1
    <2>3. ASSUME NEW i \in Invocations
          PROVE  {delivery'[d].attempt : d \in DeliveriesOf(i)'} = 1..Cardinality(DeliveriesOf(i)')
      BY <2>1, <2>2 DEF AttemptsNumbered
    <2> QED
      BY <2>3 DEF AttemptsNumbered
  <1>2. ASSUME NEW p \in Principals, NEW i \in Invocations, NEW d \in Deliveries,
               NEW r \in Runtimes, NEW manual \in BOOLEAN, DeliveryAttempt(p, i, d, r, manual),
               NEW j \in Invocations
        PROVE  {delivery'[e].attempt : e \in DeliveriesOf(j)'} = 1..Cardinality(DeliveriesOf(j)')
    <2> DEFINE k == Cardinality(DeliveriesOf(j))
    <2>1. k \in Nat /\ {delivery[e].attempt : e \in DeliveriesOf(j)} = 1..k
      BY DeliveriesFinite DEF AttemptsNumbered
    <2>2. \A e \in DeliveriesOf(j) : delivery'[e].attempt = delivery[e].attempt
      BY <1>2, AttemptAddsOne DEF DeliveriesOf
    <2>3. CASE j # i
      BY <1>2, <2>1, <2>2, <2>3, AttemptAddsOne
    <2>4. CASE j = i
      <3>1. DeliveriesOf(j)' = DeliveriesOf(j) \cup {d} /\ d \notin DeliveriesOf(j)
        BY <1>2, <2>4, AttemptAddsOne
      <3>2. Cardinality(DeliveriesOf(j)') = k + 1
        BY <3>1, DeliveriesFinite, FS_AddElement
      <3>3. delivery'[d].attempt = k + 1
        BY <1>2, <2>4, AttemptAddsOne, LastAttemptCounts DEF NextAttempt
      <3>4. {delivery'[e].attempt : e \in DeliveriesOf(j)'}
              = {delivery[e].attempt : e \in DeliveriesOf(j)} \cup {k + 1}
        BY <2>2, <3>1, <3>3
      <3> QED
        BY <2>1, <3>2, <3>4
    <2> QED
      BY <2>3, <2>4
  <1> QED
    BY <1>1, <1>2, DeliveriesKeepIdentity DEF AttemptsNumbered

LEMMA BoundStep ==
  ASSUME TypeOK, AutomaticAttemptsBounded, [Next]_vars
  PROVE  AutomaticAttemptsBounded'
  <1>1. ASSUME SameDeliveries PROVE AutomaticAttemptsBounded'
    <2>1. \A i \in Invocations : AutomaticAttempts(i)' = AutomaticAttempts(i)
      BY <1>1 DEF SameDeliveries, AutomaticAttempts, DeliveriesOf
    <2> QED
      BY <2>1 DEF AutomaticAttemptsBounded
  <1>2. ASSUME NEW p \in Principals, NEW i \in Invocations, NEW d \in Deliveries,
               NEW r \in Runtimes, NEW manual \in BOOLEAN, DeliveryAttempt(p, i, d, r, manual),
               NEW j \in Invocations
        PROVE  Cardinality(AutomaticAttempts(j)') <= MaxDeliveryAttempts
    <2>1. CASE j = i /\ ~manual
      <3>1. Cardinality(AutomaticAttempts(i)) < MaxDeliveryAttempts
        BY <1>2, <2>1 DEF DeliveryAttempt, RetriesLeft
      <3>2. /\ AutomaticAttempts(j)' = AutomaticAttempts(i) \cup {d}
            /\ d \notin AutomaticAttempts(i)
        BY <1>2, <2>1, AttemptAddsOne
      <3>3. Cardinality(AutomaticAttempts(j)') = Cardinality(AutomaticAttempts(i)) + 1
        BY <3>2, DeliveriesFinite, FS_AddElement
      <3> QED
        BY <3>1, <3>3, DeliveriesFinite, InputAssumption
    <2>2. CASE ~(j = i /\ ~manual)
      <3>1. AutomaticAttempts(j)' = AutomaticAttempts(j)
        BY <1>2, <2>2, AttemptAddsOne
      <3> QED
        BY <3>1 DEF AutomaticAttemptsBounded
    <2> QED
      BY <2>1, <2>2
  <1> QED
    BY <1>1, <1>2, DeliveriesKeepIdentity DEF AutomaticAttemptsBounded

-----------------------------------------------------------------------------
(* Routes *)

\* Only an attempt makes a route busy.
LEMMA RoutesOnlyFreed ==
  ASSUME TypeOK, NEW d \in Deliveries, NEW status \in {"SUCCEEDED", "FAILED", "EXHAUSTED", "ATTEMPTED"},
         NEW lease \in {"NONE", "LAPSED"},
         delivery' = [delivery EXCEPT ![d].status = status, ![d].lease = lease]
  PROVE  \A i \in Invocations, r \in Runtimes : LiveAttempts(i, r)' \subseteq LiveAttempts(i, r)
  <1>1. \A e \in Deliveries \ {d} : delivery'[e] = delivery[e]
    BY DEF TypeOK
  <1>2. delivery'[d].lease = lease
    BY DEF TypeOK, Delivery
  <1> QED
    BY <1>1, <1>2 DEF LiveAttempts, DeliveriesOf

LEMMA RouteStep ==
  ASSUME TypeOK, ExclusiveRoute, [Next]_vars
  PROVE  ExclusiveRoute'
  <1>1. ASSUME \A i \in Invocations, r \in Runtimes : LiveAttempts(i, r)' \subseteq LiveAttempts(i, r)
        PROVE  ExclusiveRoute'
    BY <1>1 DEF ExclusiveRoute
  <1>2. ASSUME NEW p \in Principals, NEW i \in Invocations, NEW d \in Deliveries,
               NEW r \in Runtimes, NEW manual \in BOOLEAN, DeliveryAttempt(p, i, d, r, manual)
        PROVE  ExclusiveRoute'
    <2>1. PICK endpoint : delivery' = [delivery EXCEPT ![d] =
            [status |-> "ATTEMPTED", invocation |-> i, runtime |-> r, endpoint |-> endpoint,
             attempt |-> NextAttempt(i), manual |-> manual, lease |-> "RUNNING"]]
      BY <1>2 DEF DeliveryAttempt
    <2>2. /\ \A e \in Deliveries \ {d} : delivery'[e] = delivery[e]
          /\ delivery'[d].invocation = i /\ delivery'[d].runtime = r
      BY <2>1 DEF TypeOK
    <2>3. \A j \in Invocations, s \in Runtimes :
            LiveAttempts(j, s)' \subseteq
              LiveAttempts(j, s) \cup (IF j = i /\ s = r THEN {d} ELSE {})
      BY <2>2 DEF LiveAttempts, DeliveriesOf
    <2>4. LiveAttempts(i, r) = {}
      BY <1>2 DEF DeliveryAttempt, RouteFree
    <2> QED
      BY <2>3, <2>4 DEF ExclusiveRoute
  <1>3. ASSUME NEW p \in Principals, NEW i \in Invocations, NEW d \in Deliveries, NEW endpoint,
               Notify(p, i, d, endpoint)
        PROVE  ExclusiveRoute'
    BY <1>1, <1>3, RoutesOnlyFreed DEF Notify
  <1>4. ASSUME NEW p \in Principals, NEW i \in Invocations, NEW d \in Deliveries,
               NEW final \in BOOLEAN, DeliveryFailed(p, i, d, final)
        PROVE  ExclusiveRoute'
    <2>1. PICK status \in {"EXHAUSTED", "FAILED"} :
            delivery' = [delivery EXCEPT ![d].status = status, ![d].lease = "NONE"]
      BY <1>4 DEF DeliveryFailed
    <2> QED
      BY <1>1, <2>1, RoutesOnlyFreed
  <1>5. ASSUME NEW d \in Deliveries, AttemptLeaseLapses(d) PROVE ExclusiveRoute'
    <2>1. \A e \in Deliveries : /\ delivery'[e].status = delivery[e].status
                               /\ delivery'[e].invocation = delivery[e].invocation
                               /\ delivery'[e].runtime = delivery[e].runtime
                               /\ delivery'[e].lease \in {delivery[e].lease, "LAPSED"}
      BY <1>5 DEF AttemptLeaseLapses, TypeOK, Delivery
    <2> QED
      BY <1>1, <2>1 DEF LiveAttempts, DeliveriesOf
  <1>6. CASE UNCHANGED delivery
    BY <1>1, <1>6 DEF LiveAttempts, DeliveriesOf
  <1> QED
    BY <1>2, <1>3, <1>4, <1>5, <1>6, StepsChangingDeliveries DEF DeliveryStep

-----------------------------------------------------------------------------
(* Evidence of delivery *)

\* Steps on other records leave the evidence about an invocation alone.
LEMMA EvidenceKept ==
  ASSUME NEW i \in Invocations, UNCHANGED delivery
  PROVE  Delivered(i)' <=> Delivered(i)
  BY DEF Delivered, DeliveriesOf

LEMMA LinkedStep ==
  ASSUME TypeOK, RecordsLinked, [Next]_vars
  PROVE  RecordsLinked'
  <1> USE DEF RecordsLinked, Claimable, Held, Closed
  <1>1. ASSUME UNCHANGED delivery,
               NEW i \in Invocations, \A j \in Invocations \ {i} : invocation'[j] = invocation[j],
               invocation'[i].status # "ABSENT",
               invocation'[i].status \in Claimable => invocation'[i].runtime = None,
               invocation'[i].status \in Held => invocation'[i].runtime # None
        PROVE  RecordsLinked'
    BY <1>1
  <1>2. ASSUME NEW p \in Principals, NEW i \in Invocations, InvocationStep(p, i)
        PROVE  RecordsLinked'
    <2>1. UNCHANGED delivery
      BY <1>2, InvocationStepFrame
    <2>2. ASSUME NEW target, NEW consumer, NEW preferred, NEW deadline,
                 Request(p, i, target, consumer, preferred, deadline)
          PROVE  RecordsLinked'
      BY <1>1, <2>1, <2>2 DEF Request, TypeOK
    <2>3. ASSUME NEW r \in Runtimes, Claim(p, i, r) PROVE RecordsLinked'
      <3>1. /\ invocation'[i].status = "CLAIMED" /\ invocation'[i].runtime = r
            /\ \A j \in Invocations \ {i} : invocation'[j] = invocation[j]
        BY <2>3 DEF Claim, MayClaim, TypeOK, Invocation
      <3> QED
        BY <1>1, <2>1, <3>1, NoneAssumption
    <2>4. ASSUME NEW from \in SUBSET (Claimable \cup Held), NEW to \in Held \cup Closed, Move(p, i, from, to),
                 to \in Held => from \subseteq Held
          PROVE  RecordsLinked'
      <3>1. /\ invocation'[i].status = to /\ invocation'[i].runtime = invocation[i].runtime
            /\ invocation[i].status \in from
            /\ \A j \in Invocations \ {i} : invocation'[j] = invocation[j]
        BY <2>4 DEF Move, MayMove, TypeOK, Invocation
      <3> QED
        BY <1>1, <2>1, <2>4, <3>1
    <2>5. CASE Expire(p, i) \/ Cancel(p, i)
      <3>1. /\ invocation'[i].status \in {"EXPIRED", "CANCELLED"}
            /\ \A j \in Invocations \ {i} : invocation'[j] = invocation[j]
        BY <2>5 DEF Expire, Cancel, TypeOK, Invocation
      <3> QED
        BY <1>1, <2>1, <3>1
    <2> QED
      BY <1>2, <2>2, <2>3, <2>4, <2>5
      DEF InvocationStep, Start, Wait, Resume, Complete, Reject
  <1>3. ASSUME NEW i \in Invocations, DeadlinePasses(i) PROVE RecordsLinked'
    <2>1. /\ UNCHANGED delivery
          /\ \A j \in Invocations : /\ invocation'[j].status = invocation[j].status
                                   /\ invocation'[j].runtime = invocation[j].runtime
      BY <1>3 DEF DeadlinePasses, TypeOK, Invocation
    <2> QED
      BY <2>1
  <1>4. ASSUME NEW p \in Principals, NEW i \in Invocations, NEW d \in Deliveries, DeliveryStep(p, i, d)
        PROVE  RecordsLinked'
    <2>1. ASSUME NEW r \in Runtimes, NEW manual \in BOOLEAN, DeliveryAttempt(p, i, d, r, manual)
          PROVE  RecordsLinked'
      <3>1. /\ \A e \in Deliveries \ {d} : delivery'[e] = delivery[e]
            /\ delivery'[d].invocation = i /\ UNCHANGED invocation
            /\ invocation[i].status \in Claimable
        BY <2>1 DEF DeliveryAttempt, TypeOK
      <3> QED
        BY <3>1
    <2>2. ASSUME SameDeliveries,
                 \A j \in Invocations :
                   /\ invocation'[j].runtime = invocation[j].runtime
                   /\ invocation'[j].status = invocation[j].status \/
                        (invocation[j].status \in Claimable /\ invocation'[j].status \in Claimable)
          PROVE  RecordsLinked'
      BY <2>2 DEF SameDeliveries
    <2>3. ASSUME NEW endpoint, Notify(p, i, d, endpoint) PROVE RecordsLinked'
      <3>1. SameDeliveries
        BY <2>3 DEF Notify, SameDeliveries, TypeOK, Delivery
      <3>2. \A j \in Invocations :
              /\ invocation'[j].runtime = invocation[j].runtime
              /\ invocation'[j].status = invocation[j].status \/
                   (invocation[j].status \in Claimable /\ invocation'[j].status \in Claimable)
        BY <2>3 DEF Notify, TypeOK, Invocation
      <3> QED
        BY <2>2, <3>1, <3>2
    <2>4. ASSUME NEW final \in BOOLEAN, DeliveryFailed(p, i, d, final) PROVE RecordsLinked'
      <3>1. PICK status \in {"EXHAUSTED", "FAILED"} :
              delivery' = [delivery EXCEPT ![d].status = status, ![d].lease = "NONE"]
        BY <2>4 DEF DeliveryFailed
      <3>2. SameDeliveries
        BY <2>4, <3>1 DEF DeliveryFailed, SameDeliveries, TypeOK, Delivery
      <3>3. invocation' = [invocation EXCEPT ![i].status = StatusAfterFailure(i)]
        BY <2>4 DEF DeliveryFailed
      <3>4. StatusAfterFailure(i) = invocation[i].status \/
              (invocation[i].status \in Claimable /\ StatusAfterFailure(i) \in Claimable)
        BY DEF StatusAfterFailure
      <3>5. \A j \in Invocations :
              /\ invocation'[j].runtime = invocation[j].runtime
              /\ invocation'[j].status = invocation[j].status \/
                   (invocation[j].status \in Claimable /\ invocation'[j].status \in Claimable)
        BY <3>3, <3>4 DEF TypeOK, Invocation
      <3> QED
        BY <2>2, <3>2, <3>5
    <2> QED
      BY <1>4, <2>1, <2>3, <2>4 DEF DeliveryStep
  <1>5. ASSUME NEW d \in Deliveries, AttemptLeaseLapses(d) PROVE RecordsLinked'
    <2>1. /\ UNCHANGED invocation
          /\ \A e \in Deliveries : /\ delivery'[e].status = delivery[e].status
                                  /\ delivery'[e].invocation = delivery[e].invocation
      BY <1>5 DEF AttemptLeaseLapses, TypeOK, Delivery
    <2> QED
      BY <2>1
  <1>6. CASE UNCHANGED <<invocation, delivery>>
    BY <1>6
  <1> QED
    BY <1>2, <1>3, <1>4, <1>5, <1>6, StepsChangingDeliveries, StepsChangingInvocations,
       InvocationStepFrame
    DEF DeadlinePasses, AttemptLeaseLapses

LEMMA NotifiedStep ==
  ASSUME TypeOK, RecordsLinked, NotifiedIffDelivered, [Next]_vars
  PROVE  NotifiedIffDelivered'
  <1> USE DEF Claimable, Held, Closed
  \* An invocation whose evidence and claimable status both stay is no concern.
  <1>1. ASSUME NEW j \in Invocations, Delivered(j)' <=> Delivered(j),
               invocation'[j].status \in Claimable => invocation'[j].status = invocation[j].status
        PROVE  invocation'[j].status \in Claimable =>
                 (invocation'[j].status = "NOTIFIED" <=> Delivered(j)')
    BY <1>1 DEF NotifiedIffDelivered
  <1>2. ASSUME NEW p \in Principals, NEW i \in Invocations, InvocationStep(p, i)
        PROVE  NotifiedIffDelivered'
    <2>1. UNCHANGED delivery
      BY <1>2, InvocationStepFrame
    <2>2. ASSUME NEW target, NEW consumer, NEW preferred, NEW deadline,
                 Request(p, i, target, consumer, preferred, deadline)
          PROVE  NotifiedIffDelivered'
      <3>1. /\ invocation'[i].status = "PENDING"
            /\ \A j \in Invocations \ {i} : invocation'[j] = invocation[j]
        BY <2>2 DEF Request, TypeOK
      <3>2. ~Delivered(i)
        BY <2>2 DEF Request, RecordsLinked, Delivered, DeliveriesOf
      <3> QED
        BY <1>1, <2>1, <3>1, <3>2, EvidenceKept DEF NotifiedIffDelivered
    <2>3. ASSUME \A j \in Invocations : invocation'[j].status \in Claimable =>
                   invocation'[j].status = invocation[j].status
          PROVE  NotifiedIffDelivered'
      BY <1>1, <2>1, <2>3, EvidenceKept DEF NotifiedIffDelivered
    <2>4. ASSUME NEW r, Claim(p, i, r) PROVE NotifiedIffDelivered'
      BY <2>3, <2>4 DEF Claim, MayClaim, TypeOK, Invocation
    <2>5. ASSUME NEW from, NEW to \in Held \cup Closed, Move(p, i, from, to) PROVE NotifiedIffDelivered'
      BY <2>3, <2>5 DEF Move, MayMove, TypeOK, Invocation
    <2>6. CASE Expire(p, i) \/ Cancel(p, i)
      BY <2>3, <2>6 DEF Expire, Cancel, TypeOK, Invocation
    <2> QED
      BY <1>2, <2>2, <2>4, <2>5, <2>6
      DEF InvocationStep, Start, Wait, Resume, Complete, Reject
  <1>3. ASSUME NEW i \in Invocations, DeadlinePasses(i) PROVE NotifiedIffDelivered'
    <2>1. \A j \in Invocations : invocation'[j].status = invocation[j].status
      BY <1>3 DEF DeadlinePasses, TypeOK, Invocation
    <2> QED
      BY <1>1, <1>3, <2>1, EvidenceKept DEF NotifiedIffDelivered, DeadlinePasses
  <1>4. ASSUME NEW p \in Principals, NEW i \in Invocations, NEW d \in Deliveries, DeliveryStep(p, i, d)
        PROVE  NotifiedIffDelivered'
    <2>1. ASSUME NEW r \in Runtimes, NEW manual \in BOOLEAN, DeliveryAttempt(p, i, d, r, manual)
          PROVE  NotifiedIffDelivered'
      <3>1. /\ \A e \in Deliveries \ {d} : delivery'[e] = delivery[e]
            /\ delivery'[d].status = "ATTEMPTED" /\ delivery[d].status = "ABSENT"
            /\ UNCHANGED invocation
        BY <2>1 DEF DeliveryAttempt, TypeOK
      <3>2. \A j \in Invocations : Delivered(j)' <=> Delivered(j)
        BY <3>1 DEF Delivered, DeliveriesOf
      <3> QED
        BY <1>1, <3>1, <3>2 DEF NotifiedIffDelivered
    <2>2. ASSUME NEW endpoint, Notify(p, i, d, endpoint) PROVE NotifiedIffDelivered'
      <3>1. /\ \A e \in Deliveries \ {d} : delivery'[e] = delivery[e]
            /\ delivery'[d].status = "SUCCEEDED" /\ delivery'[d].invocation = i
            /\ delivery[d].invocation = i
            /\ \A j \in Invocations \ {i} : invocation'[j] = invocation[j]
            /\ invocation'[i].status = IF invocation[i].status = "PENDING" THEN "NOTIFIED"
                                       ELSE invocation[i].status
        BY <2>2 DEF Notify, TypeOK, Delivery, Invocation
      <3>2. Delivered(i)'
        BY <3>1 DEF Delivered, DeliveriesOf
      <3>3. \A j \in Invocations \ {i} : Delivered(j)' <=> Delivered(j)
        BY <3>1 DEF Delivered, DeliveriesOf
      <3> QED
        BY <1>1, <3>1, <3>2, <3>3 DEF NotifiedIffDelivered
    <2>3. ASSUME NEW final \in BOOLEAN, DeliveryFailed(p, i, d, final) PROVE NotifiedIffDelivered'
      <3>1. PICK status \in {"EXHAUSTED", "FAILED"} :
              delivery' = [delivery EXCEPT ![d].status = status, ![d].lease = "NONE"]
        BY <2>3 DEF DeliveryFailed
      <3>2. /\ \A e \in Deliveries \ {d} : delivery'[e] = delivery[e]
            /\ delivery'[d].status = status /\ delivery[d].status = "ATTEMPTED"
        BY <2>3, <3>1 DEF DeliveryFailed, TypeOK, Delivery
      <3>3. \A j \in Invocations : Delivered(j)' <=> Delivered(j)
        BY <3>2 DEF Delivered, DeliveriesOf
      <3>4. invocation' = [invocation EXCEPT ![i].status = StatusAfterFailure(i)]
        BY <2>3 DEF DeliveryFailed
      <3>5. /\ \A j \in Invocations \ {i} : invocation'[j] = invocation[j]
            /\ invocation'[i].status = StatusAfterFailure(i)
        BY <3>4 DEF TypeOK, Invocation
      <3> QED
        BY <1>1, <3>3, <3>5 DEF NotifiedIffDelivered, StatusAfterFailure
    <2> QED
      BY <1>4, <2>1, <2>2, <2>3 DEF DeliveryStep
  <1>5. ASSUME NEW d \in Deliveries, AttemptLeaseLapses(d) PROVE NotifiedIffDelivered'
    <2>1. /\ UNCHANGED invocation
          /\ \A e \in Deliveries : /\ delivery'[e].status = delivery[e].status
                                  /\ delivery'[e].invocation = delivery[e].invocation
      BY <1>5 DEF AttemptLeaseLapses, TypeOK, Delivery
    <2>2. \A j \in Invocations : Delivered(j)' <=> Delivered(j)
      BY <2>1 DEF Delivered, DeliveriesOf
    <2> QED
      BY <1>1, <2>1, <2>2 DEF NotifiedIffDelivered
  <1>6. CASE UNCHANGED <<invocation, delivery>>
    BY <1>1, <1>6, EvidenceKept DEF NotifiedIffDelivered
  <1> QED
    BY <1>2, <1>3, <1>4, <1>5, <1>6, StepsChangingDeliveries, StepsChangingInvocations

-----------------------------------------------------------------------------
(* Revocation and the work a runtime reports *)

LEMMA RevocationStep ==
  ASSUME TypeOK, RevocationSticks, [Next]_vars
  PROVE  RevocationSticks'
  <1> USE DEF RevocationSticks
  <1>1. ASSUME NEW r \in Runtimes, UNCHANGED revoked,
               \A s \in Runtimes \ {r} : runtime'[s] = runtime[s],
               \/ runtime'[r].status \in {"ABSENT", "REVOKED"}
               \/ runtime'[r].agent \notin revoked
               \/ runtime'[r].agent = runtime[r].agent /\ runtime[r].status \notin {"ABSENT", "REVOKED"}
        PROVE  RevocationSticks'
    BY <1>1
  <1>2. ASSUME NEW p \in Principals, NEW r \in Runtimes, RuntimeStep(p, r)
        PROVE  RevocationSticks'
    <2>1. UNCHANGED revoked
      BY <1>2, RuntimeStepFrame
    <2>2. ASSUME NEW agent \in Agents, NEW connector, NEW max,
                 RuntimeRegister(p, r, agent, connector, max)
          PROVE  RevocationSticks'
      BY <1>1, <2>1, <2>2 DEF RuntimeRegister, AbsentRuntime, Active, TypeOK
    <2>3. ASSUME NEW connector, NEW max, RuntimeConfigure(p, r, connector, max)
          PROVE  RevocationSticks'
      BY <1>1, <2>1, <2>3 DEF RuntimeConfigure, TypeOK, Runtime
    <2>4. ASSUME NEW endpoint, NEW active, RuntimeHeartbeat(p, r, endpoint, active)
          PROVE  RevocationSticks'
      BY <1>1, <2>1, <2>4 DEF RuntimeHeartbeat, MayBeat, TypeOK, Runtime
    <2>5. ASSUME NEW endpoint, RuntimeOffline(p, r, endpoint) PROVE RevocationSticks'
      BY <1>1, <2>1, <2>5 DEF RuntimeOffline, TypeOK, Runtime
    <2>6. ASSUME NEW status, SetRuntimeStatus(r, status),
                 status = "REVOKED" \/ runtime[r].status \notin {"ABSENT", "REVOKED"}
          PROVE  RevocationSticks'
      BY <1>1, <2>1, <2>6 DEF SetRuntimeStatus, TypeOK, Runtime
    <2>7. CASE RuntimeDelete(p, r)
      BY <1>1, <2>1, <2>7 DEF RuntimeDelete, AbsentRuntime, TypeOK
    <2> QED
      BY <1>2, <2>2, <2>3, <2>4, <2>5, <2>6, <2>7
      DEF RuntimeStep, RuntimeDrain, RuntimeResume, RuntimeRevoke
  <1>3. ASSUME NEW p \in Principals, NEW a \in Principals, RevokeAgent(p, a)
        PROVE  RevocationSticks'
    <2>1. ASSUME NEW r \in Runtimes, runtime'[r].agent \in revoked'
          PROVE  runtime'[r].status \in {"ABSENT", "REVOKED"}
      <3>1. CASE runtime[r].agent = a /\ runtime[r].status \notin {"ABSENT", "REVOKED"}
        BY <1>3, <3>1 DEF RevokeAgent, TypeOK, Runtime
      <3>2. CASE ~(runtime[r].agent = a /\ runtime[r].status \notin {"ABSENT", "REVOKED"})
        <4>1. runtime'[r] = runtime[r]
          BY <1>3, <3>2 DEF RevokeAgent
        <4> QED
          BY <1>3, <2>1, <3>2, <4>1 DEF RevokeAgent
      <3> QED
        BY <3>1, <3>2
    <2> QED
      BY <2>1
  <1>4. ASSUME NEW r \in Runtimes, HeartbeatGrowsOld(r) PROVE RevocationSticks'
    <2>1. /\ UNCHANGED revoked
          /\ \A s \in Runtimes : /\ runtime'[s].status = runtime[s].status
                                /\ runtime'[s].agent = runtime[s].agent
      BY <1>4 DEF HeartbeatGrowsOld, TypeOK, Runtime
    <2> QED
      BY <2>1
  <1>5. CASE UNCHANGED <<runtime, revoked>>
    BY <1>5
  <1> QED
    BY <1>2, <1>3, <1>4, <1>5, StepsChangingRuntimes

-----------------------------------------------------------------------------
(* The four things a step can do to an invocation *)

SameWork(i) ==
  invocation'[i].runtime = invocation[i].runtime /\ invocation'[i].target = invocation[i].target

Issued(i) ==
  /\ invocation[i].status = "ABSENT" /\ invocation'[i].status = "PENDING"
  /\ invocation[i].runtime = None /\ invocation'[i].runtime = None

Kept(i) ==
  /\ SameWork(i)
  /\ \/ invocation'[i].status = invocation[i].status
     \/ invocation[i].status \in Claimable /\ invocation'[i].status \in Claimable
     \/ invocation[i].status \in Held /\ invocation'[i].status \in Held

Taken(i) ==
  /\ invocation[i].status \in Claimable /\ invocation'[i].status = "CLAIMED"
  /\ invocation[i].runtime = None /\ invocation'[i].runtime \in Runtimes
  /\ invocation'[i].target = invocation[i].target
  /\ HasCapacity(invocation'[i].runtime)

Shut(i) ==
  /\ SameWork(i)
  /\ invocation[i].status # "ABSENT" /\ invocation'[i].status \in Closed

OnlyChanges(i) == \A j \in Invocations \ {i} : invocation'[j] = invocation[j]

LEMMA InvocationMoves ==
  ASSUME TypeOK, RecordsLinked, [Next]_vars
  PROVE  \/ UNCHANGED invocation
         \/ \E i \in Invocations : OnlyChanges(i) /\ (Issued(i) \/ Kept(i) \/ Taken(i) \/ Shut(i))
  <1> USE DEF OnlyChanges, Claimable, Held, Closed
  <1>1. ASSUME NEW p \in Principals, NEW i \in Invocations, InvocationStep(p, i)
        PROVE  OnlyChanges(i) /\ (Issued(i) \/ Kept(i) \/ Taken(i) \/ Shut(i))
    <2>1. ASSUME NEW target, NEW consumer, NEW preferred, NEW deadline,
                 Request(p, i, target, consumer, preferred, deadline)
          PROVE  OnlyChanges(i) /\ Issued(i)
      BY <2>1 DEF Request, TypeOK, RecordsLinked, Issued
    <2>2. ASSUME NEW r \in Runtimes, Claim(p, i, r) PROVE OnlyChanges(i) /\ Taken(i)
      <3>1. /\ invocation'[i].status = "CLAIMED" /\ invocation'[i].runtime = r
            /\ invocation'[i].target = invocation[i].target /\ OnlyChanges(i)
        BY <2>2 DEF Claim, MayClaim, TypeOK, Invocation
      <3> QED
        BY <2>2, <3>1 DEF Claim, MayClaim, Unclaimed, RecordsLinked, Taken
    <2>3. ASSUME NEW from, NEW to, Move(p, i, from, to)
          PROVE  /\ invocation[i].status \in from /\ invocation'[i].status = to
                 /\ SameWork(i) /\ OnlyChanges(i)
      BY <2>3 DEF Move, MayMove, SameWork, TypeOK, Invocation
    <2>4. CASE Start(p, i) \/ Wait(p, i) \/ Resume(p, i)
      BY <2>3, <2>4 DEF Start, Wait, Resume, Kept
    <2>5. CASE Complete(p, i) \/ Reject(p, i)
      BY <2>3, <2>5 DEF Complete, Reject, Shut
    <2>6. CASE Expire(p, i) \/ Cancel(p, i)
      BY <2>6 DEF Expire, Cancel, Shut, SameWork, TypeOK, Invocation
    <2> QED
      BY <1>1, <2>1, <2>2, <2>4, <2>5, <2>6 DEF InvocationStep
  <1>2. ASSUME NEW p \in Principals, NEW i \in Invocations, NEW d \in Deliveries, DeliveryStep(p, i, d)
        PROVE  UNCHANGED invocation \/ (OnlyChanges(i) /\ Kept(i))
    <2>1. ASSUME NEW r, NEW manual, DeliveryAttempt(p, i, d, r, manual) PROVE UNCHANGED invocation
      BY <2>1 DEF DeliveryAttempt
    <2>2. ASSUME NEW endpoint, Notify(p, i, d, endpoint) PROVE OnlyChanges(i) /\ Kept(i)
      BY <2>2 DEF Notify, Kept, SameWork, TypeOK, Invocation
    <2>3. ASSUME NEW final, DeliveryFailed(p, i, d, final) PROVE OnlyChanges(i) /\ Kept(i)
      <3>1. invocation' = [invocation EXCEPT ![i].status = StatusAfterFailure(i)]
        BY <2>3 DEF DeliveryFailed
      <3> QED
        BY <3>1 DEF StatusAfterFailure, Kept, SameWork, TypeOK, Invocation
    <2> QED
      BY <1>2, <2>1, <2>2, <2>3 DEF DeliveryStep
  <1>3. ASSUME NEW i \in Invocations, DeadlinePasses(i) PROVE OnlyChanges(i) /\ Kept(i)
    BY <1>3 DEF DeadlinePasses, Kept, SameWork, TypeOK, Invocation
  <1> QED
    BY <1>1, <1>2, <1>3, StepsChangingInvocations

\* The claiming runtime and the target never change again.
LEMMA WorkStaysPut ==
  ASSUME TypeOK, RecordsLinked, [Next]_vars, NEW i \in Invocations, invocation[i].runtime # None
  PROVE  SameWork(i)
  BY InvocationMoves DEF OnlyChanges, Issued, Kept, Taken, Shut, SameWork

LEMMA ActiveListsStep ==
  ASSUME TypeOK, RecordsLinked, ActiveListsAssigned, [Next]_vars
  PROVE  ActiveListsAssigned'
  <1> USE DEF ActiveListsAssigned
  <1>1. ASSUME \A r \in Runtimes : \/ runtime'[r].active = {}
                                  \/ /\ runtime'[r].active = runtime[r].active
                                     /\ runtime'[r].agent = runtime[r].agent
        PROVE  ActiveListsAssigned'
    <2>1. ASSUME NEW r \in Runtimes, NEW i \in runtime'[r].active
          PROVE  invocation'[i].runtime = r /\ invocation'[i].target = runtime'[r].agent
      <3>1. /\ i \in runtime[r].active /\ runtime'[r].agent = runtime[r].agent
            /\ i \in Invocations
        BY <1>1 DEF TypeOK, Runtime
      <3>2. invocation[i].runtime = r /\ invocation[i].target = runtime[r].agent
        BY <3>1
      <3> QED
        BY <3>1, <3>2, WorkStaysPut, NoneAssumption DEF SameWork
    <2> QED
      BY <2>1
  <1>2. ASSUME NEW p \in Principals, NEW r \in Runtimes, RuntimeStep(p, r)
        PROVE  ActiveListsAssigned'
    <2>1. ASSUME NEW agent \in Agents, NEW connector, NEW max,
                 RuntimeRegister(p, r, agent, connector, max)
          PROVE  ActiveListsAssigned'
      BY <1>1, <2>1 DEF RuntimeRegister, AbsentRuntime, TypeOK
    <2>2. ASSUME NEW connector, NEW max, RuntimeConfigure(p, r, connector, max)
          PROVE  ActiveListsAssigned'
      BY <1>1, <2>2 DEF RuntimeConfigure, TypeOK, Runtime
    <2>3. ASSUME NEW endpoint, NEW active \in SUBSET Invocations,
                 RuntimeHeartbeat(p, r, endpoint, active)
          PROVE  ActiveListsAssigned'
      <3>1. /\ runtime'[r].active = active /\ runtime'[r].agent = runtime[r].agent
            /\ \A s \in Runtimes \ {r} : runtime'[s] = runtime[s]
            /\ UNCHANGED invocation
        BY <2>3 DEF RuntimeHeartbeat, MayBeat, TypeOK, Runtime
      <3>2. \A i \in active : invocation[i].runtime = r /\ invocation[i].target = runtime[r].agent
        BY <2>3 DEF RuntimeHeartbeat, MayBeat, AssignedTo
      <3> QED
        BY <3>1, <3>2
    <2>4. ASSUME NEW endpoint, RuntimeOffline(p, r, endpoint) PROVE ActiveListsAssigned'
      BY <1>1, <2>4 DEF RuntimeOffline, TypeOK, Runtime
    <2>5. ASSUME NEW status, SetRuntimeStatus(r, status) PROVE ActiveListsAssigned'
      BY <1>1, <2>5 DEF SetRuntimeStatus, TypeOK, Runtime
    <2>6. CASE RuntimeDelete(p, r)
      BY <1>1, <2>6 DEF RuntimeDelete, AbsentRuntime, TypeOK
    <2> QED
      BY <1>2, <2>1, <2>2, <2>3, <2>4, <2>5, <2>6
      DEF RuntimeStep, RuntimeDrain, RuntimeResume, RuntimeRevoke
  <1>3. ASSUME NEW p \in Principals, NEW a \in Principals, RevokeAgent(p, a)
        PROVE  ActiveListsAssigned'
    <2>1. ASSUME NEW r \in Runtimes
          PROVE  runtime'[r].active = runtime[r].active /\ runtime'[r].agent = runtime[r].agent
      <3>1. \/ runtime'[r] = runtime[r]
            \/ runtime'[r] = [runtime[r] EXCEPT !.status = "REVOKED", !.heartbeat = "NONE"]
        BY <1>3 DEF RevokeAgent
      <3>2. runtime[r] \in Runtime
        BY DEF TypeOK
      <3>3. CASE runtime'[r] = runtime[r]
        BY <3>3
      <3>4. CASE runtime'[r] = [runtime[r] EXCEPT !.status = "REVOKED", !.heartbeat = "NONE"]
        BY <3>2, <3>4 DEF Runtime
      <3> QED
        BY <3>1, <3>3, <3>4
    <2> QED
      BY <1>1, <2>1
  <1>4. ASSUME NEW r \in Runtimes, HeartbeatGrowsOld(r) PROVE ActiveListsAssigned'
    BY <1>1, <1>4 DEF HeartbeatGrowsOld, TypeOK, Runtime
  <1>5. CASE UNCHANGED <<runtime, revoked>>
    BY <1>1, <1>5
  <1> QED
    BY <1>2, <1>3, <1>4, <1>5, StepsChangingRuntimes

-----------------------------------------------------------------------------
(* Capacity *)

LEMMA LoadFinite ==
  ASSUME NEW r
  PROVE  IsFiniteSet(Load(r)) /\ Cardinality(Load(r)) \in Nat
  <1>1. Load(r) \subseteq Invocations
    BY DEF Load
  <1> QED
    BY <1>1, FiniteAssumption, FS_Subset, FS_CardinalityType

LEMMA CommitStep ==
  ASSUME TypeOK, RecordsLinked, [Next]_vars, NEW r \in Runtimes
  PROVE  Load(r)' \subseteq Load(r) \/ Cardinality(Load(r)') <= runtime'[r].max
  <1>1. CASE UNCHANGED invocation
    BY <1>1 DEF Load
  <1>2. ASSUME NEW i \in Invocations, OnlyChanges(i), Issued(i) \/ Kept(i) \/ Shut(i)
        PROVE  Load(r)' \subseteq Load(r)
    BY <1>2 DEF OnlyChanges, Issued, Kept, Shut, SameWork, Load, Claimable, Held, Closed
  <1>3. ASSUME NEW i \in Invocations, OnlyChanges(i), Taken(i)
        PROVE  Load(r)' \subseteq Load(r) \/ Cardinality(Load(r)') <= runtime'[r].max
    <2>1. CASE invocation'[i].runtime # r
      BY <1>3, <2>1 DEF OnlyChanges, Load
    <2>2. CASE invocation'[i].runtime = r
      <3>1. UNCHANGED runtime
        <4>1. invocation' # invocation
          BY <1>3 DEF Taken, Claimable
        <4>2. \A j \in Invocations : ~DeadlinePasses(j)
          BY <1>3 DEF DeadlinePasses, Taken, Claimable, TypeOK, Invocation
        <4> QED
          BY <4>1, <4>2, StepsChangingInvocations, InvocationStepFrame, DeliveryStepFrame
      <3>2. Load(r)' = Load(r) \cup {i} /\ i \notin Load(r)
        BY <1>3, <2>2 DEF OnlyChanges, Taken, Load, Claimable, Held
      <3>3. Cardinality(Load(r)') = Cardinality(Load(r)) + 1
        BY <3>2, LoadFinite, FS_AddElement
      <3>4. Cardinality(Load(r)) < runtime[r].max /\ runtime[r].max \in Nat
        BY <1>3, <2>2 DEF Taken, HasCapacity, TypeOK, Runtime
      <3> QED
        BY <3>1, <3>3, <3>4, LoadFinite
    <2> QED
      BY <2>1, <2>2
  <1> QED
    BY <1>1, <1>2, <1>3, InvocationMoves

-----------------------------------------------------------------------------
(* The theorems *)

\* Inductive: each part needs the types, and the evidence and the reported
\* work need the records to be linked.
IInv ==
  /\ TypeOK /\ AttemptsNumbered /\ AutomaticAttemptsBounded /\ ExclusiveRoute
  /\ RecordsLinked /\ NotifiedIffDelivered /\ RevocationSticks /\ ActiveListsAssigned

LEMMA InitIInv == Init => IInv
  <1> SUFFICES ASSUME Init PROVE IInv
    OBVIOUS
  <1>1. TypeOK
    BY DEF Init, TypeOK, AbsentInvocation, AbsentDelivery, AbsentRuntime, Invocation, Delivery, Runtime
  <1>2. \A i \in Invocations : DeliveriesOf(i) = {} /\ AutomaticAttempts(i) = {}
    BY DEF Init, AbsentDelivery, DeliveriesOf, AutomaticAttempts
  <1>3. AttemptsNumbered /\ AutomaticAttemptsBounded
    BY <1>2, FS_EmptySet, InputAssumption DEF AttemptsNumbered, AutomaticAttemptsBounded
  <1>4. ExclusiveRoute
    BY <1>2 DEF ExclusiveRoute, LiveAttempts
  <1>5. RecordsLinked /\ NotifiedIffDelivered
    BY DEF Init, RecordsLinked, NotifiedIffDelivered, AbsentDelivery, AbsentInvocation, Claimable, Held
  <1>6. RevocationSticks /\ ActiveListsAssigned
    BY DEF Init, RevocationSticks, ActiveListsAssigned, AbsentRuntime
  <1> QED
    BY <1>1, <1>3, <1>4, <1>5, <1>6 DEF IInv

LEMMA StepIInv == IInv /\ [Next]_vars => IInv'
  BY TypesStep, NumberingStep, BoundStep, RouteStep, LinkedStep, NotifiedStep, RevocationStep,
     ActiveListsStep
  DEF IInv

\* IInv holds in every state any schedule of events can reach.
THEOREM Invariance == Spec => []IInv
  BY InitIInv, StepIInv, PTL DEF Spec

\* Every state has the declared types.
THEOREM TypeCorrect == Spec => []TypeOK
  <1>1. IInv => TypeOK
    BY DEF IInv
  <1> QED
    BY <1>1, Invariance, PTL

\* At most one attempt with a running lease per route, for any number of
\* dispatchers, runtimes and attempts.
THEOREM RoutesAreExclusive == Spec => []ExclusiveRoute
  <1>1. IInv => ExclusiveRoute
    BY DEF IInv
  <1> QED
    BY <1>1, Invariance, PTL

\* The attempts of an invocation are numbered 1, 2, 3, ... without gap or repeat.
THEOREM AttemptsAreNumbered == Spec => []AttemptsNumbered
  <1>1. IInv => AttemptsNumbered
    BY DEF IInv
  <1> QED
    BY <1>1, Invariance, PTL

\* Automatic attempts stop at MaxDeliveryAttempts, whatever its value.
THEOREM AttemptsAreBounded == Spec => []AutomaticAttemptsBounded
  <1>1. IInv => AutomaticAttemptsBounded
    BY DEF IInv
  <1> QED
    BY <1>1, Invariance, PTL

\* An unclaimed invocation is NOTIFIED exactly when a delivery succeeded.
THEOREM NotificationIsEvidence == Spec => []NotifiedIffDelivered
  <1>1. IInv => NotifiedIffDelivered
    BY DEF IInv
  <1> QED
    BY <1>1, Invariance, PTL

\* Deliveries, invocations and the runtimes holding them stay linked.
THEOREM RecordsStayLinked == Spec => []RecordsLinked
  <1>1. IInv => RecordsLinked
    BY DEF IInv
  <1> QED
    BY <1>1, Invariance, PTL

\* A revoked agent never gets a usable runtime back.
THEOREM RevocationIsPermanent == Spec => []RevocationSticks
  <1>1. IInv => RevocationSticks
    BY DEF IInv
  <1> QED
    BY <1>1, Invariance, PTL

\* A runtime only ever reports work it claimed for its own agent.
THEOREM ReportedWorkIsAssigned == Spec => []ActiveListsAssigned
  <1>1. IInv => ActiveListsAssigned
    BY DEF IInv
  <1> QED
    BY <1>1, Invariance, PTL

\* Of competing runtimes at most one ever claims an invocation.
THEOREM ClaimsAreUnique == Spec => ClaimIsUnique
  <1>1. IInv /\ [Next]_vars =>
          [\A i \in Invocations :
             invocation[i].runtime # None => invocation'[i].runtime = invocation[i].runtime]_vars
    BY WorkStaysPut DEF IInv, SameWork
  <1> QED
    BY <1>1, Invariance, PTL DEF Spec, ClaimIsUnique

\* Closed invocations stay closed.
THEOREM ClosingIsFinal == Spec => ClosedStaysClosed
  <1>1. IInv /\ [Next]_vars =>
          [\A i \in Invocations :
             invocation[i].status \in Closed => invocation'[i].status \in Closed]_vars
    <2>1. ASSUME IInv, [Next]_vars, NEW i \in Invocations, invocation[i].status \in Closed
          PROVE  invocation'[i].status \in Closed
      BY <2>1, InvocationMoves
      DEF IInv, OnlyChanges, Issued, Kept, Taken, Shut, Claimable, Held, Closed
    <2> QED
      BY <2>1
  <1> QED
    BY <1>1, Invariance, PTL DEF Spec, ClosedStaysClosed

\* No claim takes a runtime beyond its capacity.
THEOREM CapacityIsRespected == Spec => NeverOvercommits
  <1>1. IInv /\ [Next]_vars =>
          [\A r \in Runtimes :
             Load(r)' \subseteq Load(r) \/ Cardinality(Load(r)') <= runtime'[r].max]_vars
    BY CommitStep DEF IInv
  <1> QED
    BY <1>1, Invariance, PTL DEF Spec, NeverOvercommits

\* A revoked agent's own work can only be closed, or reported on, by others.
THEOREM RevokedAgentsAreStopped == Spec => RevokedAgentsStop
  <1> DEFINE Stopped(i) ==
        invocation[i].target \in revoked /\ invocation'[i].status # invocation[i].status =>
          /\ invocation'[i].status \in Claimable \cup {"EXPIRED", "CANCELLED"}
          /\ invocation'[i].runtime = invocation[i].runtime
  <1>1. ASSUME IInv, [Next]_vars, NEW i \in Invocations PROVE Stopped(i)
    <2> USE DEF IInv
    <2>1. ASSUME NEW p \in Principals, NEW j \in Invocations, InvocationStep(p, j) PROVE Stopped(i)
      <3>1. ASSUME NEW target, NEW consumer, NEW preferred, NEW deadline,
                   Request(p, j, target, consumer, preferred, deadline)
            PROVE  Stopped(i)
        BY <1>1, <3>1 DEF Request, TypeOK, RecordsLinked, Claimable
      <3>2. ASSUME NEW r, Claim(p, j, r) PROVE Stopped(i)
        BY <1>1, <3>2 DEF Claim, MayClaim, Active, TypeOK
      <3>3. ASSUME NEW from, NEW to, Move(p, j, from, to) PROVE Stopped(i)
        BY <1>1, <3>3 DEF Move, MayMove, Active, TypeOK
      <3>4. CASE Expire(p, j) \/ Cancel(p, j)
        BY <1>1, <3>4 DEF Expire, Cancel, TypeOK, Invocation
      <3> QED
        BY <2>1, <3>1, <3>2, <3>3, <3>4
        DEF InvocationStep, Start, Wait, Resume, Complete, Reject
    <2>2. ASSUME NEW p \in Principals, NEW j \in Invocations, NEW d \in Deliveries, DeliveryStep(p, j, d)
          PROVE  Stopped(i)
      <3>1. ASSUME NEW r, NEW manual, DeliveryAttempt(p, j, d, r, manual) PROVE Stopped(i)
        BY <1>1, <3>1 DEF DeliveryAttempt
      <3>2. ASSUME NEW endpoint, Notify(p, j, d, endpoint) PROVE Stopped(i)
        BY <1>1, <3>2 DEF Notify, TypeOK, Invocation, Claimable
      <3>3. ASSUME NEW final, DeliveryFailed(p, j, d, final) PROVE Stopped(i)
        <4>1. invocation' = [invocation EXCEPT ![j].status = StatusAfterFailure(j)]
          BY <1>1, <3>3 DEF DeliveryFailed
        <4>2. StatusAfterFailure(j) \in {invocation[j].status} \cup Claimable
          BY DEF StatusAfterFailure, Claimable
        <4> QED
          BY <1>1, <4>1, <4>2 DEF TypeOK, Invocation
      <3> QED
        BY <2>2, <3>1, <3>2, <3>3 DEF DeliveryStep
    <2>3. ASSUME NEW j \in Invocations, DeadlinePasses(j) PROVE Stopped(i)
      BY <1>1, <2>3 DEF DeadlinePasses, TypeOK, Invocation
    <2>4. CASE UNCHANGED invocation
      BY <2>4
    <2> QED
      BY <1>1, <2>1, <2>2, <2>3, <2>4, StepsChangingInvocations
  <1>2. IInv /\ [Next]_vars => [\A i \in Invocations : Stopped(i)]_vars
    BY <1>1
  <1> QED
    BY <1>2, Invariance, PTL DEF Spec, RevokedAgentsStop

-----------------------------------------------------------------------------
(* The refinement *)

LEMMA PhaseOf ==
  ASSUME TypeOK, NEW i \in Invocations
  PROVE  /\ invocation[i].status = "ABSENT" => Phase(i) = "NONE"
         /\ invocation[i].status \in Claimable => Phase(i) = "OPEN"
         /\ invocation[i].status \in Held => Phase(i) = "HELD"
         /\ invocation[i].status \in Closed => Phase(i) = "CLOSED"
  <1>1. "ABSENT" \notin Claimable \cup Held \cup Closed /\ Claimable \cap Held = {}
        /\ Claimable \cap Closed = {} /\ Held \cap Closed = {}
    BY DEF Claimable, Held, Closed
  <1> QED
    BY <1>1 DEF Phase

LEMMA PhaseOfNext ==
  ASSUME TypeOK', NEW i \in Invocations
  PROVE  /\ invocation'[i].status = "ABSENT" => Phase(i)' = "NONE"
         /\ invocation'[i].status \in Claimable => Phase(i)' = "OPEN"
         /\ invocation'[i].status \in Held => Phase(i)' = "HELD"
         /\ invocation'[i].status \in Closed => Phase(i)' = "CLOSED"
  <1>1. "ABSENT" \notin Claimable \cup Held \cup Closed /\ Claimable \cap Held = {}
        /\ Claimable \cap Closed = {} /\ Held \cap Closed = {}
    BY DEF Claimable, Held, Closed
  <1> QED
    BY <1>1 DEF Phase

LEMMA PromiseStep ==
  ASSUME TypeOK, TypeOK', RecordsLinked, [Next]_vars
  PROVE  [Promise!Next]_(Promise!vars)
  <1> DEFINE phase == [i \in Invocations |-> Phase(i)]
             holder == [i \in Invocations |-> invocation[i].runtime]
  <1>1. CASE UNCHANGED invocation
    BY <1>1 DEF Promise!vars, Phase
  <1>2. ASSUME NEW i \in Invocations, OnlyChanges(i)
        PROVE  \A j \in Invocations \ {i} : phase'[j] = phase[j] /\ holder'[j] = holder[j]
    BY <1>2 DEF OnlyChanges, Phase
  <1>3. ASSUME NEW i \in Invocations, OnlyChanges(i), Issued(i) PROVE Promise!Issue(i)
    <2>1. phase[i] = "NONE" /\ phase'[i] = "OPEN" /\ holder'[i] = holder[i]
      BY <1>3, PhaseOf, PhaseOfNext DEF Issued, Claimable
    <2>2. phase' = [phase EXCEPT ![i] = "OPEN"] /\ holder' = holder
      BY <1>2, <1>3, <2>1
    <2> QED
      BY <2>1, <2>2 DEF Promise!Issue
  <1>4. ASSUME NEW i \in Invocations, OnlyChanges(i), Taken(i)
        PROVE  \E r \in Runtimes : Promise!Take(i, r)
    <2>0. PICK r \in Runtimes : r = invocation'[i].runtime
      BY <1>4 DEF Taken
    <2>1. phase[i] = "OPEN" /\ holder[i] = None /\ phase'[i] = "HELD" /\ holder'[i] = r
      BY <1>4, <2>0, PhaseOf, PhaseOfNext DEF Taken, Held
    <2>2. phase' = [phase EXCEPT ![i] = "HELD"] /\ holder' = [holder EXCEPT ![i] = r]
      BY <1>2, <1>4, <2>1
    <2>3. Promise!Take(i, r)
      BY <2>1, <2>2 DEF Promise!Take
    <2> QED
      BY <2>3
  <1>5. ASSUME NEW i \in Invocations, OnlyChanges(i), Shut(i)
        PROVE  Promise!Close(i) \/ UNCHANGED Promise!vars
    <2>1. /\ phase[i] \in {"OPEN", "HELD", "CLOSED"} /\ phase'[i] = "CLOSED"
          /\ holder'[i] = holder[i]
      <3>1. invocation[i].status \in Claimable \cup Held \cup Closed
        BY <1>5 DEF Shut, TypeOK, Invocation
      <3> QED
        BY <1>5, <3>1, PhaseOf, PhaseOfNext DEF Shut, SameWork
    <2>2. phase' = [phase EXCEPT ![i] = "CLOSED"] /\ holder' = holder
      BY <1>2, <1>5, <2>1
    <2>3. CASE phase[i] = "CLOSED"
      BY <2>2, <2>3 DEF Promise!vars
    <2>4. CASE phase[i] # "CLOSED"
      BY <2>1, <2>2, <2>4 DEF Promise!Close
    <2> QED
      BY <2>3, <2>4
  <1>6. ASSUME NEW i \in Invocations, OnlyChanges(i), Kept(i) PROVE UNCHANGED Promise!vars
    <2>1. phase'[i] = phase[i] /\ holder'[i] = holder[i]
      <3>1. CASE invocation'[i].status = invocation[i].status
        BY <1>6, <3>1 DEF Kept, SameWork, Phase
      <3>2. CASE invocation'[i].status # invocation[i].status
        BY <1>6, <3>2, PhaseOf, PhaseOfNext DEF Kept, SameWork
      <3> QED
        BY <3>1, <3>2
    <2>2. phase' = phase /\ holder' = holder
      BY <1>2, <1>6, <2>1
    <2> QED
      BY <2>2 DEF Promise!vars
  <1> QED
    BY <1>1, <1>3, <1>4, <1>5, <1>6, InvocationMoves DEF Promise!Next

\* Whatever the route of a notification, an invocation is issued once, taken by
\* at most one runtime, and closed for good.
THEOREM Refinement == Spec => ImplementsEngagement
  <1>1. Init => Promise!Init
    <2> SUFFICES ASSUME Init PROVE Promise!Init
      OBVIOUS
    <2>1. \A i \in Invocations : Phase(i) = "NONE" /\ invocation[i].runtime = None
      <3>1. TypeOK
        BY InitIInv DEF IInv
      <3>2. \A i \in Invocations :
              invocation[i].status = "ABSENT" /\ invocation[i].runtime = None
        BY DEF Init, AbsentInvocation
      <3> QED
        BY <3>1, <3>2, PhaseOf
    <2> QED
      BY <2>1 DEF Promise!Init
  <1>2. IInv /\ IInv' /\ [Next]_vars => [Promise!Next]_(Promise!vars)
    BY PromiseStep DEF IInv
  <1> QED
    BY <1>1, <1>2, Invariance, PTL DEF Spec, ImplementsEngagement, Promise!Spec

-----------------------------------------------------------------------------
(* Dispatchers: the inductive invariant *)

DispatchTypes ==
  /\ retry \in [Deliveries -> {"NONE", "AHEAD", "PAST"}]
  /\ work \in [Dispatchers -> Work]
  /\ interrupts \in 0..MaxInterrupts

Holding(x) == work[x].phase \in {"DELIVER", "REPORT"}

\* What a dispatcher holds is an attempt at the invocation it works on.
HeldIsIssued ==
  \A x \in Dispatchers : Holding(x) =>
    /\ work[x].at \in Invocations /\ work[x].attempt \in Deliveries
    /\ delivery[work[x].attempt].status # "ABSENT"
    /\ delivery[work[x].attempt].invocation = work[x].at

\* Each attempt was handed to the one dispatcher that reserved it.
HeldByOne ==
  \A x, y \in Dispatchers : x # y /\ Holding(x) /\ Holding(y) => work[x].attempt # work[y].attempt

\* A lease runs for an attempt under way, over some route.
LeaseOfAttempt(d) ==
  delivery[d].lease = "RUNNING" => delivery[d].status = "ATTEMPTED" /\ delivery[d].runtime \in Runtimes
LeaseWhileAttempted == \A d \in Deliveries : LeaseOfAttempt(d)

DispatchInv == IInv /\ DispatchTypes /\ HeldIsIssued /\ HeldByOne /\ LeaseWhileAttempted

-----------------------------------------------------------------------------
(* Choices by the order of identifiers *)

LEMMA LeastIsMember ==
  ASSUME NEW S, S \subseteq Nat, S # {}
  PROVE  Least(S) \in S
  <1> DEFINE R == OpToRel(<, Nat)
  <1>1. IsWellFoundedOn(R, Nat)
    BY NatLessThanWellFounded
  <1>2. \A n, m \in Nat : m < n => <<m, n>> \in R
    BY DEF OpToRel
  <1> HIDE DEF R
  <1>3. \E n \in S : \A m \in S : <<m, n>> \notin R
    BY <1>1, WFMin
  <1>4. \A n, m \in S : <<m, n>> \notin R => n <= m
    <2> SUFFICES ASSUME NEW n \in S, NEW m \in S, <<m, n>> \notin R PROVE n <= m
      OBVIOUS
    <2>1. n \in Nat /\ m \in Nat
      OBVIOUS
    <2>2. ~(m < n)
      BY <1>2, <2>1
    <2> QED
      BY <2>1, <2>2
  <1>5. \E n \in S : \A m \in S : n <= m
    BY <1>3, <1>4
  <1> QED
    BY <1>5 DEF Least

LEMMA FreshIsUnused ==
  ASSUME Fresh # {}
  PROVE  Least(Fresh) \in Deliveries /\ delivery[Least(Fresh)].status = "ABSENT"
  <1>1. Fresh \subseteq Nat
    BY OrderAssumption DEF Fresh
  <1>2. Least(Fresh) \in Fresh
    BY <1>1, LeastIsMember
  <1> QED
    BY <1>2 DEF Fresh

LEMMA RouteType ==
  ASSUME NEW x, NEW i
  PROVE  Route(x, i) \in Runtimes \cup {None}
  <1>1. Usable(x, i) \subseteq Runtimes
    BY DEF Usable, Candidates
  <1>2. Usable(x, i) # {} => Least(Usable(x, i)) \in Usable(x, i)
    BY <1>1, OrderAssumption, LeastIsMember
  <1> QED
    BY <1>1, <1>2 DEF Route

-----------------------------------------------------------------------------
(* Every step is one of the protocol *)

LEMMA SignerIsPrincipal ==
  ASSUME NEW x, NEW a, <<x, a>> \in Signs
  PROVE  x \in Dispatchers /\ a \in Agents /\ a \in Principals
  BY DispatchAssumption, PrincipalAssumption

LEMMA AttemptIsStep ==
  ASSUME NEW p \in Principals, NEW i \in Invocations, NEW d \in Deliveries, NEW r \in Runtimes,
         NEW manual \in BOOLEAN, DeliveryAttempt(p, i, d, r, manual)
  PROVE  Next
  BY DEF Next, DeliveryStep

LEMMA FailureIsStep ==
  ASSUME NEW p \in Principals, NEW i \in Invocations, NEW d \in Deliveries,
         NEW final \in BOOLEAN, DeliveryFailed(p, i, d, final)
  PROVE  Next
  BY DEF Next, DeliveryStep

LEMMA NotificationIsStep ==
  ASSUME NEW p \in Principals, NEW i \in Invocations, NEW d \in Deliveries,
         NEW endpoint \in Endpoints \cup {None}, Notify(p, i, d, endpoint)
  PROVE  Next
  BY DEF Next, DeliveryStep

LEMMA ExpiryIsStep ==
  ASSUME DispatchInv, NEW x \in Dispatchers, NEW d \in Deliveries, CloseLapsed(x, d)
  PROVE  Next
  <1> DEFINE i == delivery[d].invocation
             p == invocation[i].target
             final == FinalExpiry(x, d)
  <1>1. <<x, p>> \in Signs /\ DeliveryFailed(p, i, d, final)
    BY DEF CloseLapsed, MayExpire, Expiry
  <1>2. p \in Principals
    BY <1>1, SignerIsPrincipal
  <1>3. i \in Invocations
    BY <1>1 DEF DeliveryFailed, DispatchInv, IInv, RecordsLinked
  <1>4. final \in BOOLEAN
    BY DEF FinalExpiry
  <1> HIDE DEF i, p, final
  <1> QED
    BY <1>1, <1>2, <1>3, <1>4, FailureIsStep

LEMMA ReservationIsStep ==
  ASSUME DispatchInv, NEW x \in Dispatchers, NEW i \in Invocations, Reserve(x, i)
  PROVE  Next
  <1> DEFINE d == Least(Fresh)
             r == work[x].route[i]
             p == invocation[i].target
  <1>1. Fresh # {} /\ r # None /\ <<x, p>> \in Signs /\ DeliveryAttempt(p, i, d, r, FALSE)
    BY DEF Reserve, MayDispatch, Reservation
  <1>2. work[x] \in Work
    BY DEF DispatchInv, DispatchTypes
  <1>3. r \in Runtimes
    BY <1>1, <1>2 DEF Work
  <1>4. d \in Deliveries /\ p \in Principals
    BY <1>1, FreshIsUnused, SignerIsPrincipal
  <1> HIDE DEF d, r, p
  <1> QED
    BY <1>1, <1>3, <1>4, AttemptIsStep

LEMMA RedeliveryIsStep ==
  ASSUME NEW x, NEW i \in Invocations, NEW r \in Runtimes, Redeliver(x, Owner, i, r)
  PROVE  Next
  <1>1. Fresh # {} /\ DeliveryAttempt(Owner, i, Least(Fresh), r, TRUE)
    BY DEF Redeliver
  <1> QED
    BY <1>1, FreshIsUnused, PrincipalAssumption, AttemptIsStep

LEMMA SuccessIsStep ==
  ASSUME DispatchInv, NEW x \in Dispatchers, ReportSuccess(x)
  PROVE  Next
  <1> DEFINE i == work[x].at
             d == work[x].attempt
             p == invocation[i].target
  <1>1. <<x, p>> \in Signs /\ Notify(p, i, d, delivery[d].endpoint) /\ Holding(x)
    BY DEF ReportSuccess, MaySign, Success, Holding
  <1>2. i \in Invocations /\ d \in Deliveries /\ p \in Principals
    BY <1>1, SignerIsPrincipal DEF DispatchInv, HeldIsIssued
  <1>3. delivery[d].endpoint \in Endpoints \cup {None}
    BY <1>2 DEF DispatchInv, IInv, TypeOK, Delivery
  <1> HIDE DEF i, d, p
  <1> QED
    BY <1>1, <1>2, <1>3, NotificationIsStep

LEMMA FailureReportIsStep ==
  ASSUME DispatchInv, NEW x \in Dispatchers, ReportFailure(x)
  PROVE  Next
  <1> DEFINE i == work[x].at
             d == work[x].attempt
             p == invocation[i].target
             final == FinalFailure(x)
  <1>1. <<x, p>> \in Signs /\ DeliveryFailed(p, i, d, final) /\ Holding(x)
    BY DEF ReportFailure, MaySign, Failure, Holding
  <1>2. i \in Invocations /\ d \in Deliveries /\ p \in Principals
    BY <1>1, SignerIsPrincipal DEF DispatchInv, HeldIsIssued
  <1>3. final \in BOOLEAN
    <2>1. delivery[d].manual \in BOOLEAN
      BY <1>2 DEF DispatchInv, IInv, TypeOK, Delivery
    <2> QED
      BY <2>1 DEF FinalFailure
  <1> HIDE DEF i, d, p, final
  <1> QED
    BY <1>1, <1>2, <1>3, FailureIsStep

LEMMA ClientIsStep ==
  ASSUME ClientStep
  PROVE  Next
  <1> USE DispatchAssumption, PrincipalAssumption
  <1>1. ASSUME NEW a \in Agents, NEW r \in Runtimes, NEW connector \in Connectors,
               NEW max \in Capacities, RuntimeRegister(a, r, a, connector, max)
        PROVE  Next
    BY <1>1 DEF Next, RuntimeStep
  <1>2. ASSUME NEW i \in Invocations, NEW a \in Agents, NEW consumer \in ConsumerModes,
               Request(Owner, i, a, consumer, None, "NONE")
        PROVE  Next
    BY <1>2 DEF Next, InvocationStep
  <1>3. ASSUME NEW i \in Invocations, Cancel(Owner, i) PROVE Next
    BY <1>3 DEF Next, InvocationStep
  <1>4. ASSUME NEW r \in Runtimes, RuntimeDrain(Owner, r) PROVE Next
    BY <1>4 DEF Next, RuntimeStep
  <1>5. ASSUME NEW a \in Agents, NEW r \in Runtimes, NEW endpoint \in Endpoints,
               RuntimeHeartbeat(a, r, endpoint, {})
        PROVE  Next
    BY <1>5 DEF Next, RuntimeStep
  <1>6. ASSUME NEW a \in Agents, NEW r \in Runtimes, NEW endpoint \in Endpoints,
               RuntimeOffline(a, r, endpoint)
        PROVE  Next
    BY <1>6 DEF Next, RuntimeStep
  <1>7. ASSUME NEW a \in Revocable, RevokeAgent(Owner, a) PROVE Next
    BY <1>7 DEF Next
  <1> QED
    BY <1>1, <1>2, <1>3, <1>4, <1>5, <1>6, <1>7 DEF ClientStep

LEMMA ClockIsStep ==
  ASSUME Clock
  PROVE  [Next]_vars
  BY DEF Clock, RetryTimePasses, Next, Time

LEMMA DispatchStepIsStep ==
  ASSUME DispatchInv, NEW x \in Dispatchers, DispatchStep(x)
  PROVE  [Next]_vars
  <1>1. ASSUME NEW d, CloseLapsedRefused(x, d) PROVE UNCHANGED vars
    BY <1>1 DEF CloseLapsedRefused
  <1>2. ASSUME NEW i, PassOver(x, i) PROVE UNCHANGED vars
    BY <1>2 DEF PassOver
  <1>3. ASSUME NEW ok, Deliver(x, ok) PROVE UNCHANGED vars
    BY <1>3 DEF Deliver
  <1>4. CASE StartDispatch(x)
    BY <1>4 DEF StartDispatch
  <1>5. CASE ReportRefused(x)
    BY <1>5 DEF ReportRefused
  <1> QED
    BY <1>1, <1>2, <1>3, <1>4, <1>5, ExpiryIsStep, ReservationIsStep, SuccessIsStep,
       FailureReportIsStep
    DEF DispatchStep

LEMMA DispatchIsProtocol == DispatchInv /\ [DispatchNext]_dispatchVars => [Next]_vars
  <1>1. ASSUME NEW x, Interrupt(x) PROVE UNCHANGED vars
    BY <1>1 DEF Interrupt
  <1> QED
    BY <1>1, DispatchStepIsStep, RedeliveryIsStep, ClientIsStep, ClockIsStep
    DEF DispatchNext, dispatchVars

-----------------------------------------------------------------------------
(* What a step may do to the work of a dispatcher *)

LEMMA IdleType == Idle \in Work /\ Idle.phase = "IDLE"
  BY DEF Idle, Work

LEMMA DoneType ==
  ASSUME NEW x, NEW i, work[x] \in Work
  PROVE  Done(x, i) \in Work /\ Done(x, i).phase \in {"IDLE", "SCAN"}
  <1> DEFINE on == [work[x] EXCEPT !.phase = "SCAN", !.todo = @ \ {i},
                                   !.at = None, !.attempt = None, !.ok = FALSE]
  <1>1. on \in Work /\ on.phase = "SCAN"
    BY DEF Work
  <1>2. Done(x, i) \in {Idle, on}
    BY DEF Done
  <1> HIDE DEF on
  <1> QED
    BY <1>1, <1>2, IdleType

\* The dispatcher lets go of what it had, takes up a fresh attempt, or goes on.
LetsGo(next) == next.phase \in {"IDLE", "SCAN"}
TakesUp(next) ==
  /\ Fresh # {} /\ next.attempt = Least(Fresh) /\ next.at \in Invocations
  /\ delivery'[Least(Fresh)].status = "ATTEMPTED"
  /\ delivery'[Least(Fresh)].invocation = next.at
GoesOn(x, next) == Holding(x) /\ next.at = work[x].at /\ next.attempt = work[x].attempt

Becomes(x, next) ==
  /\ next \in Work /\ work' = [work EXCEPT ![x] = next]
  /\ LetsGo(next) \/ TakesUp(next) \/ GoesOn(x, next)

LEMMA AbortBecomes ==
  ASSUME NEW x, Abort(x)
  PROVE  Becomes(x, Idle) /\ UNCHANGED interrupts
  BY IdleType DEF Abort, Proceed, Becomes, LetsGo

LEMMA DoneBecomes ==
  ASSUME NEW x, NEW i, work[x] \in Work, Proceed(x, Done(x, i))
  PROVE  (\E next : Becomes(x, next)) /\ UNCHANGED interrupts
  BY DoneType DEF Proceed, Becomes, LetsGo

LEMMA AttemptRecorded ==
  ASSUME TypeOK, NEW p, NEW i, NEW d \in Deliveries, NEW r, NEW manual,
         DeliveryAttempt(p, i, d, r, manual)
  PROVE  delivery'[d].status = "ATTEMPTED" /\ delivery'[d].invocation = i
  BY DEF DeliveryAttempt, TypeOK

LEMMA StartBecomes ==
  ASSUME TypeOK, NEW x \in Dispatchers, StartDispatch(x)
  PROVE  (\E next : Becomes(x, next)) /\ UNCHANGED interrupts
  <1> DEFINE pending == {i \in Invocations : invocation[i].status = "PENDING"}
             route == [i \in Invocations |-> IF i \in pending THEN Route(x, i) ELSE None]
             count == [i \in Invocations |-> Cardinality(AutomaticAttempts(i))]
             seat == [i \in Invocations |-> IF route[i] = None THEN None
                                            ELSE runtime[route[i]].endpoint]
             deferred == {d \in Deliveries : retry[d] = "AHEAD"}
             next == [Idle EXCEPT !.phase = "SCAN", !.lapsed = Lapsed, !.todo = pending,
                                  !.leased = Leased, !.deferred = deferred, !.count = count,
                                  !.route = route, !.seat = seat]
  <1>1. work' = [work EXCEPT ![x] = next] /\ UNCHANGED interrupts
    BY DEF StartDispatch, Proceed
  <1>2. route \in [Invocations -> Runtimes \cup {None}]
    BY RouteType
  <1>3. count \in [Invocations -> Nat]
    BY DeliveriesFinite
  <1>4. seat \in [Invocations -> Endpoints \cup {None}]
    <2>1. ASSUME NEW r \in Runtimes PROVE runtime[r].endpoint \in Endpoints \cup {None}
      BY DEF TypeOK, Runtime
    <2>2. ASSUME NEW i \in Invocations PROVE seat[i] \in Endpoints \cup {None}
      BY <1>2, <2>1
    <2> QED
      BY <2>2
  <1>5. pending \subseteq Invocations /\ Lapsed \subseteq Deliveries /\ Leased \subseteq Deliveries
        /\ deferred \subseteq Deliveries
    BY DEF Lapsed, Leased
  <1> HIDE DEF pending, route, count, seat, deferred
  <1>6. next \in Work /\ next.phase = "SCAN"
    BY <1>2, <1>3, <1>4, <1>5, IdleType DEF Work
  <1> HIDE DEF next
  <1> QED
    BY <1>1, <1>6 DEF Becomes, LetsGo

LEMMA ExpiryBecomes ==
  ASSUME DispatchInv, NEW x \in Dispatchers, NEW d \in Deliveries, CloseLapsed(x, d)
  PROVE  (\E next : Becomes(x, next)) /\ UNCHANGED interrupts
  <1> DEFINE on == [work[x] EXCEPT !.lapsed = @ \ {d}, !.expired = @ \cup {delivery[d].invocation}]
             next == IF work[x].lapsed = {d} /\ work[x].todo = {} THEN Idle ELSE on
  <1>1. Abort(x) \/ Proceed(x, next)
    BY DEF CloseLapsed
  <1>2. CASE Proceed(x, next)
    <2>1. work[x] \in Work /\ work[x].phase = "SCAN"
      BY DEF CloseLapsed, DispatchInv, DispatchTypes
    <2>2. delivery[d].invocation \in Invocations
      BY DEF CloseLapsed, Expiry, DeliveryFailed, DispatchInv, IInv, RecordsLinked
    <2>3. on \in Work /\ on.phase = "SCAN"
      BY <2>1, <2>2 DEF Work
    <2>4. next \in {Idle, on}
      OBVIOUS
    <2> HIDE DEF on, next
    <2>5. next \in Work /\ LetsGo(next)
      BY <2>3, <2>4, IdleType DEF LetsGo
    <2> QED
      BY <1>2, <2>5 DEF Proceed, Becomes
  <1> QED
    BY <1>1, <1>2, AbortBecomes

LEMMA ReservationBecomes ==
  ASSUME DispatchInv, NEW x \in Dispatchers, NEW i \in Invocations, Reserve(x, i)
  PROVE  (\E next : Becomes(x, next)) /\ UNCHANGED interrupts
  <1> DEFINE next == [work[x] EXCEPT !.phase = "DELIVER", !.at = i, !.attempt = Least(Fresh)]
  <1>1. Proceed(x, Done(x, i)) \/ Proceed(x, next)
    BY DEF Reserve
  <1>2. work[x] \in Work
    BY DEF DispatchInv, DispatchTypes
  <1>3. CASE Proceed(x, next)
    <2>1. Fresh # {} /\ DeliveryAttempt(invocation[i].target, i, Least(Fresh), work[x].route[i], FALSE)
      BY DEF Reserve, Reservation
    <2>2. Least(Fresh) \in Deliveries
      BY <2>1, FreshIsUnused
    <2>3. delivery'[Least(Fresh)].status = "ATTEMPTED" /\ delivery'[Least(Fresh)].invocation = i
      BY <2>1, <2>2, AttemptRecorded DEF DispatchInv, IInv
    <2>4. next \in Work /\ next.at = i /\ next.attempt = Least(Fresh)
      BY <1>2, <2>2 DEF Work
    <2> HIDE DEF next
    <2> QED
      BY <1>3, <2>1, <2>3, <2>4 DEF Proceed, Becomes, TakesUp
  <1> QED
    BY <1>1, <1>2, <1>3, DoneBecomes

LEMMA RedeliveryBecomes ==
  ASSUME TypeOK, NEW x \in Dispatchers, NEW p, NEW i \in Invocations, NEW r, Redeliver(x, p, i, r)
  PROVE  (\E next : Becomes(x, next)) /\ UNCHANGED interrupts
  <1> DEFINE next == [Idle EXCEPT !.phase = "DELIVER", !.at = i, !.attempt = Least(Fresh)]
  <1>1. Fresh # {} /\ DeliveryAttempt(p, i, Least(Fresh), r, TRUE) /\ Proceed(x, next)
    BY DEF Redeliver
  <1>2. Least(Fresh) \in Deliveries
    BY <1>1, FreshIsUnused
  <1>3. delivery'[Least(Fresh)].status = "ATTEMPTED" /\ delivery'[Least(Fresh)].invocation = i
    BY <1>1, <1>2, AttemptRecorded
  <1>4. next \in Work /\ next.at = i /\ next.attempt = Least(Fresh)
    BY <1>2, IdleType DEF Work
  <1> HIDE DEF next
  <1> QED
    BY <1>1, <1>3, <1>4 DEF Proceed, Becomes, TakesUp

LEMMA DeliveryBecomes ==
  ASSUME NEW x \in Dispatchers, NEW ok \in BOOLEAN, work[x] \in Work, Deliver(x, ok)
  PROVE  (\E next : Becomes(x, next)) /\ UNCHANGED interrupts
  <1> DEFINE next == [work[x] EXCEPT !.phase = "REPORT", !.ok = ok]
  <1>1. next \in Work /\ next.at = work[x].at /\ next.attempt = work[x].attempt
    BY DEF Work
  <1>2. Proceed(x, next) /\ Holding(x)
    BY DEF Deliver, Holding
  <1> HIDE DEF next
  <1> QED
    BY <1>1, <1>2 DEF Proceed, Becomes, GoesOn

LEMMA DispatchStepBecomes ==
  ASSUME DispatchInv, NEW x \in Dispatchers, DispatchStep(x)
  PROVE  (\E next : Becomes(x, next)) /\ UNCHANGED interrupts
  <1>0. work[x] \in Work /\ TypeOK
    BY DEF DispatchInv, DispatchTypes, IInv
  <1>1. ASSUME NEW d, CloseLapsedRefused(x, d) PROVE Abort(x)
    BY <1>1 DEF CloseLapsedRefused
  <1>2. ASSUME NEW i, PassOver(x, i) PROVE Proceed(x, Done(x, i))
    BY <1>2 DEF PassOver
  <1>3. CASE ReportRefused(x)
    BY <1>3, AbortBecomes DEF ReportRefused
  <1>4. CASE ReportSuccess(x) \/ ReportFailure(x)
    <2>1. Abort(x) \/ Proceed(x, Done(x, work[x].at))
      BY <1>4 DEF ReportSuccess, ReportFailure
    <2> QED
      BY <1>0, <2>1, AbortBecomes, DoneBecomes
  <1> QED
    BY <1>0, <1>1, <1>2, <1>3, <1>4, AbortBecomes, DoneBecomes, StartBecomes, ExpiryBecomes,
       ReservationBecomes, DeliveryBecomes
    DEF DispatchStep

LEMMA WorkEffects ==
  ASSUME DispatchInv, [DispatchNext]_dispatchVars
  PROVE  \/ UNCHANGED work
         \/ \E x \in Dispatchers : \E next : Becomes(x, next)
  <1>1. ASSUME NEW x \in Dispatchers, Interrupt(x) PROVE Becomes(x, Idle)
    BY <1>1, IdleType DEF Interrupt, Becomes, LetsGo
  <1>2. CASE Clock
    BY <1>2 DEF Clock, RetryTimePasses
  <1> QED
    BY <1>1, <1>2, DispatchStepBecomes, RedeliveryBecomes
    DEF DispatchNext, dispatchVars, DispatchInv, IInv

-----------------------------------------------------------------------------
(* The invariant is preserved *)

LEMMA TypesOfWorkStep ==
  ASSUME DispatchInv, [DispatchNext]_dispatchVars
  PROVE  DispatchTypes'
  <1> USE DEF DispatchInv, DispatchTypes
  <1>1. work' \in [Dispatchers -> Work]
    BY WorkEffects DEF Becomes
  <1>2. interrupts' \in 0..MaxInterrupts
    <2>1. ASSUME NEW x \in Dispatchers, Interrupt(x) PROVE interrupts' \in 0..MaxInterrupts
      BY <2>1, DispatchAssumption DEF Interrupt
    <2>2. CASE UNCHANGED interrupts
      BY <2>2
    <2>3. Clock => UNCHANGED interrupts
      BY DEF Clock, RetryTimePasses
    <2> QED
      BY <2>1, <2>2, <2>3, DispatchStepBecomes, RedeliveryBecomes
      DEF DispatchNext, dispatchVars, IInv
  <1>3. retry' \in [Deliveries -> {"NONE", "AHEAD", "PAST"}]
    <2>1. CASE UNCHANGED retry
      BY <2>1
    <2>2. ASSUME NEW d \in Deliveries, RetryTimePasses(d)
          PROVE  retry' \in [Deliveries -> {"NONE", "AHEAD", "PAST"}]
      BY <2>2 DEF RetryTimePasses
    <2>3. ASSUME NEW x \in Dispatchers, NEW d, CloseLapsed(x, d)
          PROVE  retry' \in [Deliveries -> {"NONE", "AHEAD", "PAST"}]
      BY <2>3 DEF CloseLapsed
    <2>4. ASSUME NEW x \in Dispatchers, ReportFailure(x)
          PROVE  retry' \in [Deliveries -> {"NONE", "AHEAD", "PAST"}]
      BY <2>4 DEF ReportFailure
    <2>5. ASSUME NEW x \in Dispatchers, DispatchStep(x)
          PROVE  retry' \in [Deliveries -> {"NONE", "AHEAD", "PAST"}]
      BY <2>1, <2>3, <2>4, <2>5
      DEF DispatchStep, StartDispatch, CloseLapsedRefused, Reserve, PassOver, Deliver,
          ReportSuccess, ReportRefused
    <2>6. ASSUME NEW x, NEW p, NEW i, NEW r, Redeliver(x, p, i, r) \/ Interrupt(x)
          PROVE  UNCHANGED retry
      BY <2>6 DEF Redeliver, Interrupt
    <2> QED
      BY <2>1, <2>2, <2>5, <2>6 DEF DispatchNext, Clock, dispatchVars
  <1> QED
    BY <1>1, <1>2, <1>3

\* No step of the protocol takes back an attempt or gives it to another invocation.
LEMMA AttemptsStay ==
  ASSUME TypeOK, [Next]_vars, NEW d \in Deliveries, delivery[d].status # "ABSENT"
  PROVE  delivery'[d].status # "ABSENT" /\ delivery'[d].invocation = delivery[d].invocation
  <1>1. ASSUME NEW p \in Principals, NEW i \in Invocations, NEW e \in Deliveries,
               NEW r \in Runtimes, NEW manual \in BOOLEAN, DeliveryAttempt(p, i, e, r, manual)
        PROVE  delivery'[d] = delivery[d]
    <2>1. d # e
      BY <1>1 DEF DeliveryAttempt
    <2> QED
      BY <1>1, <2>1 DEF DeliveryAttempt, TypeOK
  <1> QED
    BY <1>1, DeliveriesKeepIdentity DEF SameDeliveries

LEMMA HoldingStep ==
  ASSUME DispatchInv, [DispatchNext]_dispatchVars
  PROVE  HeldIsIssued' /\ HeldByOne'
  <1> USE DEF DispatchInv
  <1>1. [Next]_vars /\ TypeOK
    BY DispatchIsProtocol DEF IInv
  <1>2. ASSUME NEW x \in Dispatchers, Holding(x)
        PROVE  /\ delivery'[work[x].attempt].status # "ABSENT"
               /\ delivery'[work[x].attempt].invocation = work[x].at
    BY <1>1, <1>2, AttemptsStay DEF HeldIsIssued
  <1>3. CASE UNCHANGED work
    BY <1>2, <1>3 DEF HeldIsIssued, HeldByOne, Holding
  <1>4. ASSUME NEW x \in Dispatchers, NEW next, Becomes(x, next)
        PROVE  HeldIsIssued' /\ HeldByOne'
    <2>1. work'[x] = next /\ \A y \in Dispatchers \ {x} : work'[y] = work[y]
      BY <1>4 DEF Becomes, DispatchTypes
    <2>2. \A y \in Dispatchers \ {x} : Holding(y)' <=> Holding(y)
      BY <2>1 DEF Holding
    <2>3. CASE LetsGo(next)
      <3>1. ~Holding(x)'
        BY <2>1, <2>3 DEF LetsGo, Holding
      <3> QED
        BY <1>2, <2>1, <2>2, <3>1 DEF HeldIsIssued, HeldByOne
    <2>4. CASE TakesUp(next)
      <3> DEFINE d == Least(Fresh)
      <3>1. d \in Deliveries /\ delivery[d].status = "ABSENT"
        BY <2>4, FreshIsUnused DEF TakesUp
      <3>2. /\ next.attempt = d /\ next.at \in Invocations
            /\ delivery'[d].status = "ATTEMPTED" /\ delivery'[d].invocation = next.at
        BY <2>4 DEF TakesUp
      <3> HIDE DEF d
      <3>3. \A y \in Dispatchers : Holding(y) => work[y].attempt # d
        BY <3>1 DEF HeldIsIssued
      <3>4. HeldIsIssued'
        BY <1>2, <2>1, <2>2, <3>1, <3>2 DEF HeldIsIssued
      <3>5. HeldByOne'
        BY <2>1, <2>2, <3>2, <3>3 DEF HeldByOne
      <3> QED
        BY <3>4, <3>5
    <2>5. CASE GoesOn(x, next)
      <3>1. Holding(x) /\ next.at = work[x].at /\ next.attempt = work[x].attempt
        BY <2>5 DEF GoesOn
      <3>2. HeldIsIssued'
        BY <1>2, <2>1, <2>2, <3>1 DEF HeldIsIssued
      <3>3. HeldByOne'
        BY <2>1, <2>2, <3>1 DEF HeldByOne
      <3> QED
        BY <3>2, <3>3
    <2> QED
      BY <1>4, <2>3, <2>4, <2>5 DEF Becomes
  <1> QED
    BY <1>3, <1>4, WorkEffects

LEMMA LeaseStep ==
  ASSUME TypeOK, LeaseWhileAttempted, [Next]_vars
  PROVE  LeaseWhileAttempted'
  <1> SUFFICES ASSUME NEW d \in Deliveries PROVE LeaseOfAttempt(d)'
    BY DEF LeaseWhileAttempted
  <1> USE DEF LeaseOfAttempt
  <1>1. delivery[d] \in Delivery /\ LeaseOfAttempt(d)
    BY DEF TypeOK, LeaseWhileAttempted
  <1>2. ASSUME NEW p \in Principals, NEW i \in Invocations, NEW e \in Deliveries,
               NEW r \in Runtimes, NEW manual, DeliveryAttempt(p, i, e, r, manual)
        PROVE  LeaseOfAttempt(d)'
    BY <1>1, <1>2 DEF DeliveryAttempt, TypeOK
  <1>3. ASSUME NEW p \in Principals, NEW i \in Invocations, NEW e \in Deliveries, NEW endpoint,
               Notify(p, i, e, endpoint)
        PROVE  LeaseOfAttempt(d)'
    BY <1>1, <1>3 DEF Notify, TypeOK, Delivery
  <1>4. ASSUME NEW p \in Principals, NEW i \in Invocations, NEW e \in Deliveries, NEW final,
               DeliveryFailed(p, i, e, final)
        PROVE  LeaseOfAttempt(d)'
    BY <1>1, <1>4 DEF DeliveryFailed, TypeOK, Delivery
  <1>5. ASSUME NEW e \in Deliveries, AttemptLeaseLapses(e) PROVE LeaseOfAttempt(d)'
    BY <1>1, <1>5 DEF AttemptLeaseLapses, TypeOK, Delivery
  <1> QED
    BY <1>1, <1>2, <1>3, <1>4, <1>5, StepsChangingDeliveries DEF DeliveryStep

LEMMA InitDispatchInv == DispatchInit => DispatchInv
  <1> SUFFICES ASSUME DispatchInit PROVE DispatchInv
    OBVIOUS
  <1>1. IInv
    BY InitIInv DEF DispatchInit
  <1>2. DispatchTypes
    BY IdleType, DispatchAssumption DEF DispatchInit, DispatchTypes
  <1>3. \A x \in Dispatchers : ~Holding(x)
    BY IdleType DEF DispatchInit, Holding
  <1>4. LeaseWhileAttempted
    BY DEF DispatchInit, Init, AbsentDelivery, LeaseWhileAttempted, LeaseOfAttempt
  <1> QED
    BY <1>1, <1>2, <1>3, <1>4 DEF DispatchInv, HeldIsIssued, HeldByOne

LEMMA StepDispatchInv == DispatchInv /\ [DispatchNext]_dispatchVars => DispatchInv'
  <1> SUFFICES ASSUME DispatchInv, [DispatchNext]_dispatchVars PROVE DispatchInv'
    OBVIOUS
  <1>1. [Next]_vars /\ IInv /\ TypeOK /\ LeaseWhileAttempted
    BY DispatchIsProtocol DEF DispatchInv, IInv
  <1>2. IInv' /\ LeaseWhileAttempted'
    BY <1>1, StepIInv, LeaseStep
  <1> QED
    BY <1>2, TypesOfWorkStep, HoldingStep DEF DispatchInv

-----------------------------------------------------------------------------
(* Theorems *)

\* DispatchInv holds whatever dispatchers, clients and clocks do.
THEOREM DispatchInvariance == DispatchSpec => []DispatchInv
  BY InitDispatchInv, StepDispatchInv, PTL DEF DispatchSpec

\* The protocol's records and what dispatchers keep have the declared types.
THEOREM DispatchTypeCorrect == DispatchSpec => []DispatchTypeOK
  <1>1. DispatchInv => DispatchTypeOK
    BY DEF DispatchInv, DispatchTypes, DispatchTypeOK, IInv
  <1> QED
    BY <1>1, DispatchInvariance, PTL

\* Dispatchers act within the protocol: a behaviour with them is one of it.
THEOREM DispatchImplementsLifecycle == DispatchSpec => Spec
  <1>1. DispatchInit => Init
    BY DEF DispatchInit
  <1> QED
    BY <1>1, DispatchIsProtocol, DispatchInvariance, PTL DEF DispatchSpec, Spec

\* So an invocation is still issued once, taken once and closed for good.
THEOREM DispatchKeepsPromise == DispatchSpec => ImplementsEngagement
  BY DispatchImplementsLifecycle, Refinement, PTL

\* Any number of dispatchers: no attempt is delivered by two of them, and no
\* route is in use by two whose leases both run.
THEOREM DeliveriesAreDisjoint == DispatchSpec => []DeliveriesDisjoint
  <1>1. ASSUME DispatchInv, NEW x \in Dispatchers, NEW y \in Dispatchers, x # y,
               Delivering(x), Delivering(y), work[x].at = work[y].at
        PROVE  /\ work[x].attempt # work[y].attempt
               /\ InHand(x).runtime = InHand(y).runtime =>
                    ~(InHand(x).lease = "RUNNING" /\ InHand(y).lease = "RUNNING")
    <2> USE <1>1 DEF DispatchInv, InHand
    <2>1. Holding(x) /\ Holding(y)
      BY DEF Holding, Delivering
    <2>2. work[x].attempt # work[y].attempt
      BY <2>1 DEF HeldByOne
    <2> DEFINE i == work[x].at
               d == work[x].attempt
               e == work[y].attempt
    <2>3. /\ i \in Invocations /\ d \in Deliveries /\ e \in Deliveries
          /\ delivery[d].invocation = i /\ delivery[e].invocation = i
          /\ delivery[d].status # "ABSENT" /\ delivery[e].status # "ABSENT"
      BY <2>1 DEF HeldIsIssued
    <2>4. ASSUME delivery[d].runtime = delivery[e].runtime,
                 delivery[d].lease = "RUNNING", delivery[e].lease = "RUNNING"
          PROVE  FALSE
      <3>1. delivery[d].status = "ATTEMPTED" /\ delivery[e].status = "ATTEMPTED"
        BY <2>3, <2>4 DEF LeaseWhileAttempted, LeaseOfAttempt
      <3>2. delivery[d].runtime \in Runtimes
        BY <2>3, <2>4 DEF LeaseWhileAttempted, LeaseOfAttempt
      <3>3. d \in LiveAttempts(i, delivery[d].runtime) /\ e \in LiveAttempts(i, delivery[d].runtime)
        BY <2>3, <2>4, <3>1 DEF LiveAttempts, DeliveriesOf
      <3>4. d = e
        BY <2>3, <3>2, <3>3 DEF IInv, ExclusiveRoute
      <3> QED
        BY <2>2, <3>4
    <2> QED
      BY <2>2, <2>4
  <1>2. DispatchInv => DeliveriesDisjoint
    BY <1>1 DEF DeliveriesDisjoint
  <1> QED
    BY <1>2, DispatchInvariance, PTL

-----------------------------------------------------------------------------
(* Dispatchers: retry times *)

\* A dispatch knows of every retry time that is ahead for what it has still to look
\* at: from its snapshot, or because it has set it since.
RetriesSeen ==
  \A x \in Dispatchers : \A i \in work[x].todo : \A e \in DeliveriesOf(i) :
    retry[e] = "AHEAD" => e \in work[x].deferred \/ i \in work[x].expired

\* A delivery has a retry time only after it was attempted.
UnusedNeverTried == \A d \in Deliveries : delivery[d].status = "ABSENT" => retry[d] = "NONE"

\* What is left of a dispatch was in it before, and was read with it.
Shrinks(x, next) ==
  /\ work' = [work EXCEPT ![x] = next]
  /\ next.todo \subseteq work[x].todo
  /\ next.todo # {} => next.deferred = work[x].deferred /\ work[x].expired \subseteq next.expired

LEMMA IdleShrinks ==
  ASSUME NEW x, work' = [work EXCEPT ![x] = Idle]
  PROVE  Shrinks(x, Idle) /\ Idle.todo = {}
  BY DEF Shrinks, Idle

LEMMA DoneShrinks ==
  ASSUME NEW x, NEW i, work[x] \in Work, Proceed(x, Done(x, i))
  PROVE  Shrinks(x, Done(x, i)) /\ i \notin Done(x, i).todo
  <1> DEFINE on == [work[x] EXCEPT !.phase = "SCAN", !.todo = @ \ {i},
                                   !.at = None, !.attempt = None, !.ok = FALSE]
  <1>1. /\ on.todo = work[x].todo \ {i} /\ on.deferred = work[x].deferred
        /\ on.expired = work[x].expired
    BY DEF Work
  <1>2. Done(x, i) \in {Idle, on} /\ Idle.todo = {}
    BY DEF Done, Idle
  <1> HIDE DEF on
  <1> QED
    BY <1>1, <1>2 DEF Shrinks, Proceed

\* What is said of the retry times holds on for a lone dispatcher, if one is set only
\* for what it has let go of or has noted.
LEMMA SeenOn ==
  ASSUME DispatchInv, [Next]_vars, RetriesSeen, UnusedNeverTried,
         NEW x \in Dispatchers, \A y \in Dispatchers : y = x, NEW next, Shrinks(x, next),
         \A e \in Deliveries : retry'[e] = "AHEAD" /\ delivery[e].status # "ABSENT" =>
           \/ retry[e] = "AHEAD"
           \/ delivery[e].invocation \in next.expired \/ delivery[e].invocation \notin next.todo,
         \A e \in Deliveries : delivery[e].status = "ABSENT" => retry'[e] = retry[e]
  PROVE  RetriesSeen'
  <1>1. work' = [work EXCEPT ![x] = next] /\ work \in [Dispatchers -> Work]
    BY DEF Shrinks, DispatchInv, DispatchTypes
  <1>2. work'[x] = next
    BY <1>1
  <1>3. SUFFICES ASSUME NEW i \in next.todo, NEW e \in DeliveriesOf(i)', retry'[e] = "AHEAD"
                 PROVE  e \in next.deferred \/ i \in next.expired
    BY <1>2 DEF RetriesSeen
  <1>4. e \in Deliveries /\ delivery'[e].status # "ABSENT" /\ delivery'[e].invocation = i
    BY DEF DeliveriesOf
  <1>5. delivery[e].status # "ABSENT"
    BY <1>3, <1>4 DEF UnusedNeverTried
  <1>6. delivery[e].invocation = i /\ e \in DeliveriesOf(i)
    BY <1>4, <1>5, AttemptsStay DEF DispatchInv, IInv, DeliveriesOf
  <1>7. CASE retry[e] = "AHEAD"
    BY <1>6, <1>7 DEF RetriesSeen, Shrinks
  <1>8. CASE retry[e] # "AHEAD"
    BY <1>3, <1>4, <1>5, <1>6, <1>8
  <1> QED
    BY <1>7, <1>8

LEMMA ExpirySeen ==
  ASSUME DispatchInv, [Next]_vars, RetriesSeen, UnusedNeverTried,
         NEW x \in Dispatchers, \A y \in Dispatchers : y = x, NEW d \in Deliveries, CloseLapsed(x, d)
  PROVE  RetriesSeen'
  <1> DEFINE on == [work[x] EXCEPT !.lapsed = @ \ {d}, !.expired = @ \cup {delivery[d].invocation}]
  <1>1. work[x] \in Work /\ retry \in [Deliveries -> {"NONE", "AHEAD", "PAST"}]
    BY DEF DispatchInv, DispatchTypes
  <1>2. /\ on.todo = work[x].todo /\ on.deferred = work[x].deferred
        /\ on.expired = work[x].expired \cup {delivery[d].invocation}
    BY <1>1 DEF Work
  <1>3. work' = [work EXCEPT ![x] = Idle] \/ work' = [work EXCEPT ![x] = on]
    BY DEF CloseLapsed, Abort, Proceed
  <1>4. \E next : /\ Shrinks(x, next)
                  /\ delivery[d].invocation \in next.expired \/ next.todo = {}
    <2> HIDE DEF on
    <2> QED
      BY <1>2, <1>3, IdleShrinks DEF Shrinks
  <1>5. delivery[d].status # "ABSENT" /\ \A e \in Deliveries \ {d} : retry'[e] = retry[e]
    BY <1>1 DEF CloseLapsed, Expiry, DeliveryFailed
  <1> QED
    BY <1>4, <1>5, SeenOn

LEMMA FailureSeen ==
  ASSUME DispatchInv, [Next]_vars, RetriesSeen, UnusedNeverTried,
         NEW x \in Dispatchers, \A y \in Dispatchers : y = x, ReportFailure(x)
  PROVE  RetriesSeen'
  <1> DEFINE i == work[x].at
             d == work[x].attempt
  <1>1. work[x] \in Work /\ retry \in [Deliveries -> {"NONE", "AHEAD", "PAST"}]
    BY DEF DispatchInv, DispatchTypes
  <1>2. \E next : Shrinks(x, next) /\ i \notin next.todo
    BY <1>1, DoneShrinks, IdleShrinks DEF ReportFailure, Abort, Proceed
  <1>3. d \in Deliveries /\ delivery[d].status # "ABSENT" /\ delivery[d].invocation = i
    BY DEF ReportFailure, Holding, DispatchInv, HeldIsIssued
  <1>4. \A e \in Deliveries \ {d} : retry'[e] = retry[e]
    BY <1>1 DEF ReportFailure
  <1> HIDE DEF i, d
  <1> QED
    BY <1>2, <1>3, <1>4, SeenOn

LEMMA StartSeen ==
  ASSUME DispatchInv, NEW x \in Dispatchers, \A y \in Dispatchers : y = x, StartDispatch(x)
  PROVE  RetriesSeen'
  <1> DEFINE pending == {i \in Invocations : invocation[i].status = "PENDING"}
             route == [i \in Invocations |-> IF i \in pending THEN Route(x, i) ELSE None]
             count == [i \in Invocations |-> Cardinality(AutomaticAttempts(i))]
             seat == [i \in Invocations |-> IF route[i] = None THEN None
                                            ELSE runtime[route[i]].endpoint]
             deferred == {d \in Deliveries : retry[d] = "AHEAD"}
             next == [Idle EXCEPT !.phase = "SCAN", !.lapsed = Lapsed, !.todo = pending,
                                  !.leased = Leased, !.deferred = deferred, !.count = count,
                                  !.route = route, !.seat = seat]
  <1>1. work' = [work EXCEPT ![x] = next] /\ UNCHANGED <<vars, retry>>
    BY DEF StartDispatch, Proceed
  <1> HIDE DEF pending, route, count, seat
  <1>2. next.deferred = deferred
    BY DEF Idle
  <1> HIDE DEF next
  <1>3. work'[x] = next
    BY <1>1 DEF DispatchInv, DispatchTypes
  <1> QED
    BY <1>1, <1>2, <1>3 DEF RetriesSeen, DeliveriesOf, vars

\* Every other step leaves retry times alone, or lets them pass.
LEMMA QuietSeen ==
  ASSUME DispatchInv, [Next]_vars, RetriesSeen, UnusedNeverTried,
         NEW x \in Dispatchers, \A y \in Dispatchers : y = x,
         \A e \in Deliveries : retry'[e] = retry[e] \/ (retry[e] = "AHEAD" /\ retry'[e] = "PAST"),
         UNCHANGED work \/ \E next : Shrinks(x, next)
  PROVE  RetriesSeen'
  <1>1. work[x] \in Work /\ work \in [Dispatchers -> Work]
    BY DEF DispatchInv, DispatchTypes
  <1>2. UNCHANGED work => Shrinks(x, work[x])
    BY <1>1 DEF Shrinks
  <1>3. PICK next : Shrinks(x, next)
    BY <1>2
  <1>4. \A e \in Deliveries : delivery[e].status = "ABSENT" => retry'[e] = retry[e]
    BY DEF UnusedNeverTried
  <1> QED
    BY <1>3, <1>4, SeenOn

LEMMA StepShrinks ==
  ASSUME DispatchInv, NEW x \in Dispatchers, DispatchStep(x), UNCHANGED retry
  PROVE  StartDispatch(x) \/ \E next : Shrinks(x, next)
  <1>1. work[x] \in Work
    BY DEF DispatchInv, DispatchTypes
  <1>2. Abort(x) => \E next : Shrinks(x, next)
    BY IdleShrinks DEF Abort, Proceed
  <1>3. ASSUME NEW i, Proceed(x, Done(x, i)) PROVE \E next : Shrinks(x, next)
    BY <1>1, <1>3, DoneShrinks
  <1>4. ASSUME NEW i \in Invocations, Reserve(x, i) PROVE \E next : Shrinks(x, next)
    <2> DEFINE next == [work[x] EXCEPT !.phase = "DELIVER", !.at = i, !.attempt = Least(Fresh)]
    <2>1. Proceed(x, Done(x, i)) \/ Proceed(x, next)
      BY <1>4 DEF Reserve
    <2>2. next.todo = work[x].todo /\ next.deferred = work[x].deferred /\ next.expired = work[x].expired
      BY <1>1 DEF Work
    <2>3. CASE Proceed(x, next)
      <3> HIDE DEF next
      <3> QED
        BY <2>2, <2>3 DEF Proceed, Shrinks
    <2> QED
      BY <1>3, <2>1, <2>3
  <1>5. ASSUME NEW ok, Deliver(x, ok) PROVE \E next : Shrinks(x, next)
    <2> DEFINE next == [work[x] EXCEPT !.phase = "REPORT", !.ok = ok]
    <2>1. Proceed(x, next)
      BY <1>5 DEF Deliver
    <2>2. next.todo = work[x].todo /\ next.deferred = work[x].deferred /\ next.expired = work[x].expired
      BY <1>1 DEF Work
    <2> HIDE DEF next
    <2> QED
      BY <2>1, <2>2 DEF Proceed, Shrinks
  <1>6. ASSUME NEW d \in Deliveries, CloseLapsed(x, d) PROVE \E next : Shrinks(x, next)
    <2> DEFINE on == [work[x] EXCEPT !.lapsed = @ \ {d}, !.expired = @ \cup {delivery[d].invocation}]
    <2>1. on.todo = work[x].todo /\ on.deferred = work[x].deferred /\ work[x].expired \subseteq on.expired
      BY <1>1 DEF Work
    <2>2. work' = [work EXCEPT ![x] = Idle] \/ work' = [work EXCEPT ![x] = on]
      BY <1>6 DEF CloseLapsed, Abort, Proceed
    <2> HIDE DEF on
    <2> QED
      BY <2>1, <2>2, IdleShrinks DEF Shrinks
  <1> QED
    BY <1>2, <1>3, <1>4, <1>5, <1>6
    DEF DispatchStep, CloseLapsedRefused, PassOver, ReportSuccess, ReportFailure, ReportRefused

\* Who sets a retry time.
LEMMA RetrySetters ==
  ASSUME DispatchInv, [DispatchNext]_dispatchVars
  PROVE  \/ UNCHANGED retry
         \/ \E x \in Dispatchers, d \in Deliveries : CloseLapsed(x, d)
         \/ \E x \in Dispatchers : ReportFailure(x)
         \/ \E d \in Deliveries : RetryTimePasses(d)
  <1>1. ASSUME NEW x \in Dispatchers, DispatchStep(x)
        PROVE  UNCHANGED retry \/ ReportFailure(x) \/ \E d \in Deliveries : CloseLapsed(x, d)
    BY <1>1 DEF DispatchStep, StartDispatch, CloseLapsedRefused, Reserve, PassOver, Deliver,
       ReportSuccess, ReportRefused
  <1>2. ASSUME NEW x, NEW p, NEW i, NEW r, Redeliver(x, p, i, r) \/ Interrupt(x)
        PROVE  UNCHANGED retry
    BY <1>2 DEF Redeliver, Interrupt
  <1> QED
    BY <1>1, <1>2 DEF DispatchNext, Clock, dispatchVars

LEMMA UnusedStep ==
  ASSUME DispatchInv, UnusedNeverTried, [DispatchNext]_dispatchVars
  PROVE  UnusedNeverTried'
  <1> SUFFICES ASSUME NEW e \in Deliveries, delivery'[e].status = "ABSENT" PROVE retry'[e] = "NONE"
    BY DEF UnusedNeverTried
  <1>1. delivery[e].status = "ABSENT" /\ retry[e] = "NONE"
    BY DispatchIsProtocol, AttemptsStay DEF DispatchInv, IInv, UnusedNeverTried
  <1>2. retry \in [Deliveries -> {"NONE", "AHEAD", "PAST"}]
    BY DEF DispatchInv, DispatchTypes
  <1>3. ASSUME NEW x, NEW d \in Deliveries, CloseLapsed(x, d) PROVE retry'[e] = retry[e]
    <2>1. d # e
      BY <1>1, <1>3 DEF CloseLapsed, Expiry, DeliveryFailed
    <2> QED
      BY <1>2, <1>3, <2>1 DEF CloseLapsed
  <1>4. ASSUME NEW x \in Dispatchers, ReportFailure(x) PROVE retry'[e] = retry[e]
    <2>1. work[x].attempt # e
      BY <1>1, <1>4 DEF ReportFailure, Failure, DeliveryFailed
    <2> QED
      BY <1>2, <1>4, <2>1 DEF ReportFailure
  <1>5. ASSUME NEW d \in Deliveries, RetryTimePasses(d) PROVE retry'[e] = retry[e]
    BY <1>1, <1>2, <1>5 DEF RetryTimePasses
  <1> QED
    BY <1>1, <1>3, <1>4, <1>5, RetrySetters

LEMMA SeenStep ==
  ASSUME DispatchInv, RetriesSeen, UnusedNeverTried, [DispatchNext]_dispatchVars,
         \A x, y \in Dispatchers : x = y
  PROVE  RetriesSeen'
  <1>1. [Next]_vars
    BY DispatchIsProtocol
  <1>2. CASE \E x \in Dispatchers, d \in Deliveries : CloseLapsed(x, d)
    BY <1>1, <1>2, ExpirySeen
  <1>3. CASE \E x \in Dispatchers : ReportFailure(x)
    BY <1>1, <1>3, FailureSeen
  <1>4. CASE \E d \in Deliveries : RetryTimePasses(d)
    <2>1. UNCHANGED work
      BY <1>4 DEF RetryTimePasses
    <2>2. \A e \in Deliveries : retry'[e] = retry[e] \/ (retry[e] = "AHEAD" /\ retry'[e] = "PAST")
      BY <1>4 DEF RetryTimePasses, DispatchInv, DispatchTypes
    <2> QED
      BY <1>1, <2>1, <2>2, QuietSeen DEF RetriesSeen
  <1>5. CASE UNCHANGED retry
    <2>1. CASE UNCHANGED work
      BY <1>1, <1>5, <2>1, QuietSeen DEF RetriesSeen
    <2>2. ASSUME NEW x \in Dispatchers, DispatchStep(x) PROVE RetriesSeen'
      BY <1>1, <1>5, <2>2, StepShrinks, StartSeen, QuietSeen
    <2>3. ASSUME NEW x \in Dispatchers, NEW i, NEW r, Redeliver(x, Owner, i, r) PROVE RetriesSeen'
      <3> DEFINE next == [Idle EXCEPT !.phase = "DELIVER", !.at = i, !.attempt = Least(Fresh)]
      <3>1. next.todo = {} /\ work' = [work EXCEPT ![x] = next]
        BY <2>3 DEF Redeliver, Proceed, Idle
      <3> HIDE DEF next
      <3>2. Shrinks(x, next)
        BY <3>1 DEF Shrinks
      <3> QED
        BY <1>1, <1>5, <3>2, QuietSeen
    <2>4. ASSUME NEW x \in Dispatchers, Interrupt(x) PROVE RetriesSeen'
      <3>1. Shrinks(x, Idle)
        BY <2>4, IdleShrinks DEF Interrupt
      <3> QED
        BY <1>1, <1>5, <3>1, QuietSeen
    <2>5. Clock => UNCHANGED work
      BY DEF Clock, RetryTimePasses
    <2> QED
      BY <2>1, <2>2, <2>3, <2>4, <2>5 DEF DispatchNext, dispatchVars
  <1> QED
    BY <1>2, <1>3, <1>4, <1>5, RetrySetters

\* Only a reservation makes an attempt that nobody asked for by hand.
LEMMA ReservedByTurn ==
  ASSUME DispatchInv, [DispatchNext]_dispatchVars, NEW i \in Invocations, NEW d \in Deliveries,
         Reserved(d, i)
  PROVE  \E x \in Dispatchers : Reserve(x, i)
  <1>1. delivery[d].status = "ABSENT" /\ delivery'[d].status = "ATTEMPTED"
        /\ delivery'[d].invocation = i /\ ~delivery'[d].manual /\ TypeOK
    BY DEF Reserved, DispatchInv, IInv
  <1>2. ASSUME NEW x \in Dispatchers, DispatchStep(x) PROVE Reserve(x, i)
    <2>1. ASSUME NEW e \in Deliveries, CloseLapsed(x, e) PROVE FALSE
      BY <1>1, <2>1 DEF CloseLapsed, Expiry, DeliveryFailed, TypeOK
    <2>2. ASSUME NEW j \in Invocations, Reserve(x, j) PROVE j = i
      <3>1. Least(Fresh) \in Deliveries
        BY <2>2, FreshIsUnused DEF Reserve
      <3>2. DeliveryAttempt(invocation[j].target, j, Least(Fresh), work[x].route[j], FALSE)
        BY <2>2 DEF Reserve, Reservation
      <3>3. delivery'[Least(Fresh)].invocation = j
        <4>1. TypeOK
          BY <1>1
        <4> QED
          BY <4>1, <3>1, <3>2, AttemptRecorded
      <3>4. d = Least(Fresh)
        BY <1>1, <3>1, <3>2 DEF DeliveryAttempt, TypeOK
      <3> QED
        BY <1>1, <3>3, <3>4
    <2>3. ReportSuccess(x) => FALSE
      BY <1>1 DEF ReportSuccess, Success, Notify, TypeOK
    <2>4. ReportFailure(x) => FALSE
      BY <1>1 DEF ReportFailure, Failure, DeliveryFailed, TypeOK
    <2>5. UNCHANGED vars => FALSE
      BY <1>1 DEF vars
    <2> QED
      BY <1>2, <2>1, <2>2, <2>3, <2>4, <2>5
      DEF DispatchStep, StartDispatch, CloseLapsedRefused, PassOver, Deliver, ReportRefused
  <1>3. ASSUME NEW x, NEW p, NEW j, NEW r, Redeliver(x, p, j, r) PROVE FALSE
    BY <1>1, <1>3 DEF Redeliver, DeliveryAttempt, TypeOK
  <1>4. ASSUME NEW e \in Deliveries, AttemptLeaseLapses(e) PROVE FALSE
    BY <1>1, <1>4 DEF AttemptLeaseLapses, TypeOK
  <1>5. ClientStep => UNCHANGED delivery
    <2>1. ASSUME NEW a, NEW r, NEW b, NEW c, NEW m, RuntimeRegister(a, r, b, c, m)
          PROVE  UNCHANGED delivery
      BY <2>1 DEF RuntimeRegister
    <2>2. ASSUME NEW p, NEW j, NEW a, NEW c, NEW r, NEW t, Request(p, j, a, c, r, t)
          PROVE  UNCHANGED delivery
      BY <2>2 DEF Request
    <2>3. ASSUME NEW p, NEW j, Cancel(p, j) PROVE UNCHANGED delivery
      BY <2>3 DEF Cancel
    <2>4. ASSUME NEW p, NEW r, RuntimeDrain(p, r) PROVE UNCHANGED delivery
      BY <2>4 DEF RuntimeDrain, SetRuntimeStatus
    <2>5. ASSUME NEW p, NEW r, NEW b, NEW act,
                 RuntimeHeartbeat(p, r, b, act) \/ RuntimeOffline(p, r, b)
          PROVE  UNCHANGED delivery
      BY <2>5 DEF RuntimeHeartbeat, RuntimeOffline
    <2>6. ASSUME NEW p, NEW a, RevokeAgent(p, a) PROVE UNCHANGED delivery
      BY <2>6 DEF RevokeAgent
    <2> QED
      BY <2>1, <2>2, <2>3, <2>4, <2>5, <2>6 DEF ClientStep
  <1>6. UNCHANGED delivery => FALSE
    BY <1>1
  <1> QED
    BY <1>2, <1>3, <1>4, <1>5, <1>6
    DEF DispatchNext, Interrupt, Clock, RetryTimePasses, dispatchVars, vars

\* A lone dispatcher, its handlers included, attempts nothing before its retry time,
\* whatever its snapshot misses: the times it has set since belong to what it has let
\* go of, or closed itself (connectors.go, Dispatch).
THEOREM LoneDispatcherKeepsRetryTimes ==
  ASSUME \A x, y \in Dispatchers : x = y
  PROVE  DispatchSpec => RetryTimesKept
  <1>1. DispatchInit => RetriesSeen /\ UnusedNeverTried
    BY DEF DispatchInit, RetriesSeen, UnusedNeverTried, Idle
  <1>2. DispatchInv /\ RetriesSeen /\ UnusedNeverTried /\ [DispatchNext]_dispatchVars
        => (RetriesSeen /\ UnusedNeverTried)'
    BY SeenStep, UnusedStep
  <1>3. DispatchInv /\ RetriesSeen /\ [DispatchNext]_dispatchVars =>
          [\A i \in Invocations, d \in Deliveries : Reserved(d, i) =>
             \A e \in DeliveriesOf(i) : retry[e] # "AHEAD"]_dispatchVars
    <2>1. ASSUME DispatchInv, RetriesSeen, [DispatchNext]_dispatchVars, NEW i \in Invocations,
                 NEW d \in Deliveries, Reserved(d, i), NEW e \in DeliveriesOf(i)
          PROVE  retry[e] # "AHEAD"
      <3>1. PICK x \in Dispatchers : Reserve(x, i)
        BY <2>1, ReservedByTurn
      <3>2. i \in work[x].todo /\ i \notin work[x].expired /\ ~Waits(x, e)
        BY <2>1, <3>1 DEF Reserve, Turn, MayDispatch
      <3> QED
        BY <2>1, <3>2 DEF RetriesSeen, Waits
    <2> QED
      BY <2>1
  <1> QED
    BY <1>1, <1>2, <1>3, DispatchInvariance, PTL DEF DispatchSpec, RetryTimesKept

-----------------------------------------------------------------------------
(* Workers: what a step does to the process that takes it *)

Steps == {"DOWN", "LISTEN", "RUN"} \cup Submitting

\* Nothing is in hand, or nothing yet: an invocation that was found may be
\* another worker's by the time it is claimed.
Resting == {"DOWN", "HELLO", "LISTEN", "IDLE"}
HasTaken(w) == worker[w].pc \notin Resting \cup {"CLAIM"}

\* A step of a worker takes it to `step', and forgets what was in hand when it rests.
NextStep(w, step) ==
  /\ worker'[w].pc = step
  /\ worker'[w].at = IF step \in {"DOWN", "LISTEN"} THEN None ELSE worker[w].at
  /\ \A v \in Workers \ {w} : worker'[v] = worker[v]

WorkerTypes ==
  /\ seen \in 0..OfflineAfter
  /\ worker \in [Workers -> Process]
  /\ scenario \in [runs : SUBSET Workers, asked : SUBSET Invocations, faults : Nat, decisions : Nat]
  /\ calm \in BOOLEAN

LEMMA BoundsAreOrdered ==
  /\ Longest \in Nat /\ ListenWait <= Longest /\ WriteInterval <= Longest
  /\ ListenWait \in Nat /\ WriteInterval \in Nat /\ OfflineAfter \in Nat /\ MinInterval \in Nat
  /\ MinInterval < WriteInterval /\ MinInterval < OfflineAfter
  BY IntervalAssumption DEF Longest

LEMMA Zeros == 0 \in 0..Longest /\ 0 \in 0..WriteInterval /\ WriteInterval \in 0..WriteInterval
  BY BoundsAreOrdered

\* What a worker is and has after a step.
LEMMA MovedFields ==
  ASSUME WorkerTypes, NEW w \in Workers, NEW step \in Steps
  PROVE  /\ Moved(w, step) \in Process /\ Moved(w, step).pc = step
         /\ Moved(w, step).at = IF step \in {"DOWN", "LISTEN"} THEN None ELSE worker[w].at
         /\ step # "DOWN" => /\ Moved(w, step).timer = 0 /\ Moved(w, step).last = worker[w].last
                             /\ Moved(w, step).unheard = worker[w].unheard
  <1>1. worker[w] \in Process
    BY DEF WorkerTypes
  <1>2. CASE step = "DOWN"
    BY <1>2, Zeros DEF Moved, Down, Process
  <1>3. CASE step = "LISTEN"
    BY <1>1, <1>3, Zeros DEF Moved, Process
  <1>4. CASE step \notin {"DOWN", "LISTEN"}
    BY <1>1, <1>4, Zeros DEF Moved, Process, Steps
  <1> QED
    BY <1>2, <1>3, <1>4

\* A step moves its worker alone.
LEMMA GotoTurns ==
  ASSUME WorkerTypes, NEW w \in Workers, NEW step \in Steps, Goto(w, step)
  PROVE  NextStep(w, step) /\ worker' \in [Workers -> Process]
  BY MovedFields DEF WorkerTypes, Goto, NextStep

LEMMA GotoFields ==
  ASSUME WorkerTypes, NEW w \in Workers, NEW step \in Steps \ {"DOWN"}, Goto(w, step)
  PROVE  /\ worker'[w].pc = step /\ worker'[w].timer = 0 /\ worker'[w].last = worker[w].last
         /\ worker'[w].unheard = worker[w].unheard
         /\ step # "LISTEN" => worker'[w].at = worker[w].at
         /\ \A v \in Workers \ {w} : worker'[v] = worker[v]
  BY MovedFields DEF WorkerTypes, Goto

LEMMA BeatenFields ==
  ASSUME WorkerTypes, NEW w \in Workers, NEW step \in Steps \ {"DOWN"}, Beaten(w, step)
  PROVE  /\ worker'[w] \in Process
         /\ worker'[w].pc = step /\ worker'[w].timer = 0 /\ worker'[w].last = 0
         /\ worker'[w].at = IF step = "LISTEN" THEN None ELSE worker[w].at
         /\ \A v \in Workers \ {w} : worker'[v] = worker[v]
  <1> DEFINE moved == Moved(w, step)
             next == [moved EXCEPT !.last = 0, !.unheard = FALSE]
  <1>1. /\ moved \in Process /\ moved.pc = step /\ moved.timer = 0
        /\ moved.at = IF step = "LISTEN" THEN None ELSE worker[w].at
    BY MovedFields
  <1>2. worker' = [worker EXCEPT ![w] = next]
    BY DEF Beaten
  <1> HIDE DEF moved
  <1>3. /\ next \in Process /\ next.pc = moved.pc /\ next.timer = moved.timer /\ next.at = moved.at
        /\ next.last = 0
    BY <1>1, Zeros DEF Process
  <1> HIDE DEF next
  <1> QED
    BY <1>1, <1>2, <1>3 DEF WorkerTypes

LEMMA BeatenTurns ==
  ASSUME WorkerTypes, NEW w \in Workers, NEW step \in Steps \ {"DOWN"}, Beaten(w, step)
  PROVE  NextStep(w, step) /\ worker' \in [Workers -> Process]
  <1>1. worker' = [worker EXCEPT ![w] = worker'[w]]
    BY BeatenFields DEF WorkerTypes, Beaten
  <1> QED
    BY <1>1, BeatenFields DEF WorkerTypes, NextStep

LEMMA UnheardTurns ==
  ASSUME WorkerTypes, NEW w \in Workers, NEW step \in Steps, Unheard(w, step)
  PROVE  /\ NextStep(w, step) /\ worker' \in [Workers -> Process]
         /\ step # "DOWN" => worker'[w].unheard
  <1> DEFINE moved == Moved(w, step)
             unheard == step # "DOWN"
             next == [moved EXCEPT !.unheard = unheard]
  <1>1. /\ moved \in Process /\ moved.pc = step
        /\ moved.at = IF step \in {"DOWN", "LISTEN"} THEN None ELSE worker[w].at
    BY MovedFields
  <1>2. worker' = [worker EXCEPT ![w] = next]
    BY DEF Unheard
  <1>3. unheard \in BOOLEAN /\ (step # "DOWN" => unheard)
    OBVIOUS
  <1> HIDE DEF moved, unheard
  <1>4. next \in Process /\ next.pc = moved.pc /\ next.at = moved.at /\ next.unheard = unheard
    BY <1>1, <1>3 DEF Process
  <1> HIDE DEF next
  <1> QED
    BY <1>1, <1>2, <1>3, <1>4 DEF WorkerTypes, NextStep

LEMMA FaultSpends ==
  ASSUME WorkerTypes, Fault
  PROVE  /\ scenario' \in [runs : SUBSET Workers, asked : SUBSET Invocations, faults : Nat, decisions : Nat]
         /\ scenario'.runs = scenario.runs /\ calm' = FALSE
  BY DEF Fault, WorkerTypes

\* Whether a fault or not: it spends from the scenario, and is not forgotten.
LEMMA QuietTypes ==
  ASSUME WorkerTypes, NEW w \in Workers, NEW step \in Steps, Goto(w, step), UNCHANGED seen,
         Fault \/ UNCHANGED <<scenario, calm>>
  PROVE  NextStep(w, step) /\ WorkerTypes' /\ scenario'.runs = scenario.runs /\ (calm' => calm)
  <1>1. NextStep(w, step) /\ worker' \in [Workers -> Process]
    BY GotoTurns
  <1>2. /\ scenario' \in [runs : SUBSET Workers, asked : SUBSET Invocations, faults : Nat, decisions : Nat]
        /\ scenario'.runs = scenario.runs /\ calm' \in BOOLEAN /\ (calm' => calm)
    <2>1. CASE Fault
      BY <2>1, FaultSpends
    <2>2. CASE UNCHANGED <<scenario, calm>>
      BY <2>2 DEF WorkerTypes
    <2> QED
      BY <2>1, <2>2
  <1> QED
    BY <1>1, <1>2 DEF WorkerTypes

LEMMA HeartbeatTurns ==
  ASSUME WorkerTypes, NEW w \in Workers, NEW active, NEW done \in Steps \ {"DOWN"}, NEW failed \in Steps,
         Heartbeat(w, active, done, failed)
  PROVE  /\ WorkerTypes'
         /\ NextStep(w, done) \/ NextStep(w, failed)
         /\ scenario'.runs = scenario.runs /\ (calm' => calm)
         /\ \/ UNCHANGED <<vars, seen>>
            \/ RuntimeHeartbeat(Actor, Served, None, active) /\ seen' = 0
  <1>1. CASE Goto(w, done) /\ UNCHANGED <<vars, seen, scenario, calm>>
    BY <1>1, GotoTurns DEF WorkerTypes
  <1>2. CASE Beat(active) /\ Beaten(w, done) /\ UNCHANGED <<scenario, calm>>
    <2>1. seen' \in 0..OfflineAfter /\ RuntimeHeartbeat(Actor, Served, None, active) /\ seen' = 0
      BY <1>2, BoundsAreOrdered DEF Beat
    <2> QED
      BY <1>2, <2>1, BeatenTurns DEF WorkerTypes
  <1>3. CASE Beat(active) /\ Unheard(w, failed) /\ Fault
    <2>1. seen' \in 0..OfflineAfter /\ RuntimeHeartbeat(Actor, Served, None, active) /\ seen' = 0
      BY <1>3, BoundsAreOrdered DEF Beat
    <2> QED
      BY <1>3, <2>1, UnheardTurns, FaultSpends DEF WorkerTypes
  <1>4. CASE Goto(w, failed) /\ Fault /\ UNCHANGED <<vars, seen>>
    BY <1>4, GotoTurns, FaultSpends DEF WorkerTypes
  <1>5. CASE Goto(w, failed) /\ UNCHANGED <<vars, seen, scenario, calm>>
    BY <1>5, GotoTurns DEF WorkerTypes
  <1> QED
    BY <1>1, <1>2, <1>3, <1>4, <1>5 DEF Heartbeat

-----------------------------------------------------------------------------
(* Workers: who has which invocation *)

\* What becomes of an invocation is known to the worker that took it: what others
\* may do to it closes it.
Fits(step, status) ==
  /\ status \notin Claimable \cup {"ABSENT"}
  /\ step = "START" => status # "RUNNING"
  /\ step # "START" => status # "CLAIMED"
  /\ step \in {"LAST", "WAITBEAT"} => status # "RUNNING"

HandsMatch == \A w \in Workers : worker[w].pc \in Resting <=> worker[w].at = None
HandsFit == \A w \in Workers : HasTaken(w) => Fits(worker[w].pc, invocation[worker[w].at].status)
OneHand == \A w, v \in Workers : HasTaken(w) /\ HasTaken(v) /\ worker[w].at = worker[v].at => w = v
OwnTargets == \A i \in Invocations : invocation[i].status # "ABSENT" => invocation[i].target = Actor
RunsListed == \A w \in Workers : ~At(w, "DOWN") => w \in scenario.runs

HandInv == HandsMatch /\ HandsFit /\ OneHand /\ OwnTargets /\ RunsListed /\ NothingAbandoned

\* One worker moves on, and with it at most the invocation it is at: it is taken
\* by the step that claims it, and is let go when it is waiting or closed.
LEMMA TurnKeepsHands ==
  ASSUME WorkerTypes, WorkerTypes', HandInv, NEW w \in Workers, NEW step \in Steps, NextStep(w, step),
         calm' => calm, scenario'.runs = scenario.runs, revoked \subseteq revoked',
         step = "DOWN" \/ w \in scenario.runs,
         NEW i, i = worker[w].at,
         \A j \in Invocations \ {i} : invocation'[j] = invocation[j],
         i \in Invocations =>
           /\ invocation'[i].target = invocation[i].target
           /\ invocation[i].status = "ABSENT" => invocation'[i].status = "ABSENT",
         step \in Resting <=> worker'[w].at = None,
         step \notin Resting \cup {"CLAIM"} =>
           /\ Fits(step, invocation'[i].status)
           /\ HasTaken(w) \/ invocation[i].status \in Claimable,
         i \in Invocations /\ invocation'[i] # invocation[i] =>
           HasTaken(w) \/ invocation[i].status \in Claimable,
         /\ calm' /\ Active(Actor)
         /\ i \in Invocations /\ invocation'[i].status \in {"CLAIMED", "RUNNING"}
         => step \notin Resting \cup {"CLAIM"} \/ (~HasTaken(w) /\ invocation'[i] = invocation[i])
  PROVE  HandInv'
  <1> USE DEF NextStep, HasTaken
  <1>1. \A v \in Workers : worker[v].pc \in Steps /\ worker[v].at \in Invocations \cup {None}
    BY DEF WorkerTypes, Process, Steps
  <1>2. HandsMatch' /\ RunsListed'
    BY DEF HandInv, HandsMatch, RunsListed, At
  <1>3. \A v \in Workers : HasTaken(v) => worker[v].at \in Invocations
    BY <1>1 DEF HandInv, HandsMatch
  <1>4. ASSUME HasTaken(w)' PROVE i \in Invocations /\ worker'[w].at = i
    BY <1>1, <1>4 DEF Resting
  <1>5. OneHand'
    <2>1. ASSUME NEW v \in Workers \ {w}, HasTaken(v), HasTaken(w)', worker[v].at = i PROVE FALSE
      <3>1. CASE HasTaken(w)
        BY <2>1, <3>1 DEF HandInv, OneHand
      <3>2. CASE invocation[i].status \in Claimable
        BY <2>1, <3>2 DEF HandInv, HandsFit, Fits
      <3> QED
        BY <2>1, <3>1, <3>2
    <2> QED
      BY <1>4, <2>1 DEF HandInv, OneHand
  <1>6. HandsFit'
    <2>1. ASSUME NEW v \in Workers \ {w}, HasTaken(v)
          PROVE  Fits(worker[v].pc, invocation'[worker[v].at].status)
      <3>1. Fits(worker[v].pc, invocation[worker[v].at].status) /\ worker[v].at \in Invocations
        BY <1>3, <2>1 DEF HandInv, HandsFit
      <3>2. CASE worker[v].at # i
        BY <3>1, <3>2
      <3>3. CASE worker[v].at = i
        <4>1. invocation'[i] = invocation[i]
          BY <2>1, <3>1, <3>3 DEF HandInv, OneHand, Fits
        <4> QED
          BY <3>1, <3>3, <4>1
      <3> QED
        BY <3>2, <3>3
    <2> QED
      BY <1>4, <2>1 DEF HandsFit
  <1>7. OwnTargets'
    BY DEF HandInv, OwnTargets
  <1>8. NothingAbandoned'
    <2> SUFFICES ASSUME calm', Active(Actor)', NEW j \in Invocations,
                        invocation'[j].status \in {"CLAIMED", "RUNNING"}
                 PROVE  AtWork(j)'
      BY DEF NothingAbandoned, Abandoned
    <2>1. Active(Actor)
      BY DEF Active
    <2>2. CASE step \notin Resting \cup {"CLAIM"} /\ j = i
      BY <1>4, <2>2 DEF AtWork, At
    <2>3. CASE invocation'[j] = invocation[j] /\ (j # i \/ ~HasTaken(w))
      <3>1. AtWork(j)
        BY <2>1, <2>3 DEF HandInv, NothingAbandoned, Abandoned
      <3>2. PICK v \in Workers : worker[v].at = j /\ ~At(v, "CLAIM")
        BY <3>1 DEF AtWork
      <3>3. v # w
        <4>1. j # None
          BY NoneAssumption
        <4>2. HasTaken(v)
          BY <3>2, <4>1 DEF HandInv, HandsMatch, At
        <4> QED
          BY <2>3, <3>2, <4>2
      <3> QED
        BY <3>2, <3>3 DEF AtWork, At
    <2> QED
      BY <2>1, <2>2, <2>3
  <1> QED
    BY <1>2, <1>5, <1>6, <1>7, <1>8 DEF HandInv

\* Nobody moves, and what happens to an invocation closes it, issues it or leaves
\* its status.
LEMMA OthersKeepHands ==
  ASSUME WorkerTypes, HandInv,
         \A w \in Workers : worker'[w].pc = worker[w].pc /\ worker'[w].at = worker[w].at,
         calm' => calm, scenario'.runs = scenario.runs, revoked \subseteq revoked',
         \A i \in Invocations :
           \/ invocation'[i] = invocation[i]
           \/ /\ invocation'[i].status \in Closed /\ invocation[i].status # "ABSENT"
              /\ invocation'[i].target = invocation[i].target
           \/ /\ invocation[i].status = "ABSENT" /\ invocation'[i].status = "PENDING"
              /\ invocation'[i].target = Actor
  PROVE  HandInv'
  <1> USE DEF HasTaken, Closed, Claimable, At
  <1>1. HandsMatch' /\ RunsListed' /\ OneHand'
    BY DEF HandInv, HandsMatch, RunsListed, OneHand
  <1>2. OwnTargets'
    BY DEF HandInv, OwnTargets
  <1>3. HandsFit'
    <2> SUFFICES ASSUME NEW w \in Workers, HasTaken(w)
                 PROVE  Fits(worker[w].pc, invocation'[worker[w].at].status)
      BY DEF HandsFit
    <2>1. worker[w].at \in Invocations
      BY DEF HandInv, HandsMatch, WorkerTypes, Process
    <2> QED
      BY <2>1 DEF HandInv, HandsFit, Fits
  <1>4. NothingAbandoned'
    BY DEF HandInv, NothingAbandoned, Abandoned, AtWork, Active
  <1> QED
    BY <1>1, <1>2, <1>3, <1>4 DEF HandInv

LEMMA MoveEffect ==
  ASSUME TypeOK, NEW p, NEW i \in Invocations, NEW from, NEW to, Move(p, i, from, to)
  PROVE  /\ invocation[i].status \in from /\ invocation'[i].status = to
         /\ invocation'[i].target = invocation[i].target
         /\ \A j \in Invocations \ {i} : invocation'[j] = invocation[j]
         /\ UNCHANGED revoked
  BY DEF Move, MayMove, TypeOK, Invocation

LEMMA ClaimEffect ==
  ASSUME TypeOK, NEW p, NEW i \in Invocations, NEW r, Claim(p, i, r)
  PROVE  /\ invocation[i].status \in Claimable /\ invocation'[i].status = "CLAIMED"
         /\ invocation'[i].target = invocation[i].target
         /\ \A j \in Invocations \ {i} : invocation'[j] = invocation[j]
         /\ UNCHANGED revoked
  BY DEF Claim, MayClaim, Unclaimed, TypeOK, Invocation

\* A refused move finds the invocation at another status, if its agent is active.
LEMMA RefusedMove ==
  ASSUME HandInv, NEW i \in Invocations, NEW from, ~MayMove(Actor, i, from),
         invocation[i].status # "ABSENT", Active(Actor)
  PROVE  invocation[i].status \notin from
  BY DEF HandInv, OwnTargets, MayMove

LEMMA AtInvocation ==
  ASSUME WorkerTypes, HandInv, NEW w \in Workers, worker[w].pc \notin Resting
  PROVE  /\ worker[w].at \in Invocations /\ w \in scenario.runs
         /\ HasTaken(w) => Fits(worker[w].pc, invocation[worker[w].at].status)
  BY DEF WorkerTypes, Process, HandInv, HandsMatch, HandsFit, RunsListed, At, Resting

\* A worker moves on without a change to any invocation.
LEMMA QuietTurn ==
  ASSUME WorkerTypes, WorkerTypes', HandInv, NEW w \in Workers, NEW step \in Steps, NextStep(w, step),
         UNCHANGED <<invocation, revoked>>, calm' => calm, scenario'.runs = scenario.runs,
         step = "DOWN" \/ w \in scenario.runs,
         \/ step \in {"DOWN", "LISTEN"}
         \/ step \in Resting /\ worker[w].pc \in Resting
         \/ HasTaken(w) /\ step \notin Resting \cup {"CLAIM"} /\ Fits(step, invocation[worker[w].at].status),
         HasTaken(w) /\ step \in {"DOWN", "LISTEN"} =>
           \/ ~calm' \/ ~Active(Actor)
           \/ invocation[worker[w].at].status \notin {"CLAIMED", "RUNNING"}
  PROVE  HandInv'
  <1> DEFINE i == worker[w].at
  <1>1. step \in Resting <=> worker'[w].at = None
    BY NoneAssumption DEF NextStep, Resting, HandInv, HandsMatch, HasTaken, WorkerTypes, Process
  <1>2. \A j \in Invocations \ {i} : invocation'[j] = invocation[j]
    OBVIOUS
  <1>3. step \notin Resting \cup {"CLAIM"} =>
           /\ Fits(step, invocation'[i].status)
           /\ HasTaken(w) \/ invocation[i].status \in Claimable
    BY DEF Resting
  <1>4. /\ calm' /\ Active(Actor)
        /\ i \in Invocations /\ invocation'[i].status \in {"CLAIMED", "RUNNING"}
        => step \notin Resting \cup {"CLAIM"} \/ (~HasTaken(w) /\ invocation'[i] = invocation[i])
    BY DEF HasTaken
  <1> QED
    BY <1>1, <1>2, <1>3, <1>4, TurnKeepsHands

LEMMA BeatKeepsHands ==
  ASSUME WorkerTypes, HandInv, NEW w \in Workers, NEW active,
         NEW done \in Steps \ {"DOWN"}, NEW failed \in Steps, Heartbeat(w, active, done, failed),
         ~At(w, "DOWN"),
         \A step \in {done, failed} :
           \/ /\ step \in {"DOWN", "LISTEN"}
              /\ HasTaken(w) => invocation[worker[w].at].status \notin {"CLAIMED", "RUNNING"}
           \/ /\ HasTaken(w) /\ step \notin Resting \cup {"CLAIM"}
              /\ Fits(step, invocation[worker[w].at].status)
  PROVE  WorkerTypes' /\ HandInv'
  <1>1. UNCHANGED <<invocation, revoked>>
    BY HeartbeatTurns DEF RuntimeHeartbeat, vars
  <1>2. w \in scenario.runs
    BY DEF HandInv, RunsListed
  <1>3. PICK step \in {done, failed} : NextStep(w, step)
    BY HeartbeatTurns
  <1>4. WorkerTypes' /\ scenario'.runs = scenario.runs /\ (calm' => calm)
    BY HeartbeatTurns
  <1>5. \/ step \in {"DOWN", "LISTEN"}
        \/ HasTaken(w) /\ step \notin Resting \cup {"CLAIM"} /\ Fits(step, invocation[worker[w].at].status)
    BY <1>3
  <1>6. HasTaken(w) /\ step \in {"DOWN", "LISTEN"} => invocation[worker[w].at].status \notin {"CLAIMED", "RUNNING"}
    BY <1>3 DEF Resting
  <1> QED
    BY <1>1, <1>2, <1>3, <1>4, <1>5, <1>6, QuietTurn

\* A step that submits a move: it is done, it is refused, or its answer is lost.
LEMMA MoveKeepsHands ==
  ASSUME TypeOK, WorkerTypes, HandInv, NEW w \in Workers, HasTaken(w),
         NEW from, NEW to \in Held \cup Closed, NEW done \in Steps \ Resting, NEW failed \in {"LISTEN", "WAIT"},
         Submit(w, MayMove(Actor, worker[w].at, from), Move(Actor, worker[w].at, from, to), done, failed),
         done # "CLAIM", Fits(done, to),
         invocation[worker[w].at].status \notin from =>
           failed = "WAIT" \/ invocation[worker[w].at].status \notin {"CLAIMED", "RUNNING"},
         failed = "WAIT" => worker[w].pc # "START" /\ to # "CLAIMED"
  PROVE  WorkerTypes' /\ HandInv'
  <1> DEFINE i == worker[w].at
  <1>1. i \in Invocations /\ w \in scenario.runs /\ Fits(worker[w].pc, invocation[i].status)
    BY AtInvocation DEF HasTaken
  <1>2. invocation[i].status # "ABSENT"
    BY <1>1 DEF Fits
  <1>3. done \in Steps /\ failed \in Steps /\ done \notin Resting \cup {"CLAIM"}
    BY DEF Steps, Submitting
  <1>4. CASE Move(Actor, i, from, to) /\ Goto(w, done) /\ UNCHANGED <<seen, scenario, calm>>
    <2>1. NextStep(w, done) /\ WorkerTypes'
      BY <1>3, <1>4, GotoTurns DEF WorkerTypes
    <2>2. /\ invocation'[i].status = to /\ invocation'[i].target = invocation[i].target
          /\ \A j \in Invocations \ {i} : invocation'[j] = invocation[j]
          /\ UNCHANGED revoked
      BY <1>1, <1>4, MoveEffect
    <2>3. worker'[w].at # None
      BY <1>1, <1>3, <2>1, NoneAssumption DEF NextStep, Resting
    <2> QED
      BY <1>1, <1>2, <1>3, <1>4, <2>1, <2>2, <2>3, TurnKeepsHands
  <1>5. CASE ~MayMove(Actor, i, from) /\ Goto(w, failed) /\ UNCHANGED <<vars, seen, scenario, calm>>
    <2>1. NextStep(w, failed) /\ WorkerTypes'
      BY <1>3, <1>5, GotoTurns DEF WorkerTypes
    <2>2. Active(Actor) => invocation[i].status \notin from
      BY <1>1, <1>2, <1>5, RefusedMove
    <2>3. failed = "WAIT" => Fits(failed, invocation[i].status)
      BY <1>1 DEF Fits
    <2>4. UNCHANGED <<invocation, revoked>>
      BY <1>5 DEF vars
    <2> QED
      BY <1>1, <1>3, <1>5, <2>1, <2>2, <2>3, <2>4, QuietTurn DEF Resting
  <1>6. CASE (Move(Actor, i, from, to) \/ UNCHANGED vars) /\ Goto(w, failed) /\ Fault /\ UNCHANGED seen
    <2>1. NextStep(w, failed)
      BY <1>3, <1>6, GotoTurns
    <2>2. WorkerTypes' /\ scenario'.runs = scenario.runs /\ ~calm'
      BY <1>3, <1>6, GotoTurns, FaultSpends DEF WorkerTypes
    <2>3. /\ invocation'[i].status \in {to, invocation[i].status}
          /\ invocation'[i].target = invocation[i].target
          /\ \A j \in Invocations \ {i} : invocation'[j] = invocation[j]
          /\ UNCHANGED revoked
      <3>1. CASE Move(Actor, i, from, to)
        <4> HIDE DEF i
        <4> QED
          BY <1>1, <3>1, MoveEffect
      <3>2. CASE UNCHANGED vars
        BY <3>2 DEF vars
      <3> QED
        BY <1>6, <3>1, <3>2
    <2>4. failed = "WAIT" => Fits(failed, invocation'[i].status)
      BY <1>1, <2>3 DEF Fits, Held, Closed, Claimable
    <2>5. failed \in Resting <=> worker'[w].at = None
      BY <1>1, <2>1, NoneAssumption DEF NextStep, Resting
    <2>6. failed \notin Resting \cup {"CLAIM"} => failed = "WAIT"
      BY DEF Resting
    <2> QED
      BY <1>1, <1>2, <1>3, <2>1, <2>2, <2>3, <2>4, <2>5, <2>6, TurnKeepsHands
  <1> QED
    BY <1>4, <1>5, <1>6 DEF Submit

LEMMA ClaimKeepsHands ==
  ASSUME TypeOK, WorkerTypes, HandInv, NEW w \in Workers, Claiming(w)
  PROVE  WorkerTypes' /\ HandInv'
  <1> DEFINE i == worker[w].at
  <1>1. i \in Invocations /\ w \in scenario.runs /\ ~HasTaken(w)
    BY AtInvocation DEF Claiming, At, Resting, HasTaken
  <1>2. {"START", "LISTEN"} \subseteq Steps
    BY DEF Steps, Submitting
  <1>3. CASE Claim(Actor, i, Served) /\ Goto(w, "START") /\ UNCHANGED <<seen, scenario, calm>>
    <2>1. NextStep(w, "START") /\ WorkerTypes'
      BY <1>2, <1>3, GotoTurns DEF WorkerTypes
    <2>2. /\ invocation[i].status \in Claimable /\ invocation'[i].status = "CLAIMED"
          /\ invocation'[i].target = invocation[i].target
          /\ \A j \in Invocations \ {i} : invocation'[j] = invocation[j]
          /\ UNCHANGED revoked
      BY <1>1, <1>3, ClaimEffect
    <2>3. "START" \notin Resting \cup {"CLAIM"} /\ worker'[w].at # None
      BY <1>1, <2>1, NoneAssumption DEF NextStep, Resting
    <2>4. Fits("START", "CLAIMED") /\ invocation[i].status # "ABSENT"
      BY <2>2 DEF Fits, Claimable
    <2> QED
      BY <1>1, <1>2, <1>3, <2>1, <2>2, <2>3, <2>4, TurnKeepsHands
  <1>4. CASE ~MayClaim(Actor, i, Served) /\ Goto(w, "LISTEN") /\ UNCHANGED <<vars, seen, scenario, calm>>
    <2>1. NextStep(w, "LISTEN") /\ WorkerTypes'
      BY <1>2, <1>4, GotoTurns DEF WorkerTypes
    <2> QED
      BY <1>1, <1>2, <1>4, <2>1, QuietTurn DEF vars
  <1>5. CASE (Claim(Actor, i, Served) \/ UNCHANGED vars) /\ Goto(w, "LISTEN") /\ Fault /\ UNCHANGED seen
    <2>1. NextStep(w, "LISTEN") /\ WorkerTypes' /\ scenario'.runs = scenario.runs /\ ~calm'
      BY <1>2, <1>5, GotoTurns, FaultSpends DEF WorkerTypes
    <2>2. /\ invocation'[i].target = invocation[i].target
          /\ invocation'[i] = invocation[i] \/ invocation[i].status \in Claimable
          /\ \A j \in Invocations \ {i} : invocation'[j] = invocation[j]
          /\ UNCHANGED revoked
      BY <1>1, <1>5, ClaimEffect DEF vars
    <2>3. "LISTEN" \in Resting /\ worker'[w].at = None
      BY <2>1 DEF NextStep, Resting
    <2>4. invocation[i].status \in Claimable => invocation[i].status # "ABSENT"
      BY DEF Claimable
    <2> QED
      BY <1>1, <1>2, <2>1, <2>2, <2>3, <2>4, TurnKeepsHands
  <1> QED
    BY <1>3, <1>4, <1>5 DEF Claiming, Submit

LEMMA PostKeepsHands ==
  ASSUME WorkerTypes, HandInv, NEW w \in Workers, Post(w)
  PROVE  WorkerTypes' /\ HandInv'
  <1> USE DEF Steps, Submitting, Resting, HasTaken, At
  <1>1. HasTaken(w) /\ w \in scenario.runs /\ Fits("POST", invocation[worker[w].at].status)
    BY AtInvocation DEF Post
  <1>2. PICK step \in {"COMPLETE", "WAIT"} : Goto(w, step)
    BY DEF Post, Submit
  <1>3. UNCHANGED <<vars, seen>> /\ (Fault \/ UNCHANGED <<scenario, calm>>)
    BY DEF Post, Submit
  <1>4. NextStep(w, step) /\ WorkerTypes' /\ scenario'.runs = scenario.runs /\ (calm' => calm)
    BY <1>2, <1>3, QuietTypes
  <1>5. Fits(step, invocation[worker[w].at].status)
    BY <1>1 DEF Fits
  <1> QED
    BY <1>1, <1>3, <1>4, <1>5, QuietTurn DEF vars

LEMMA TurnEndsKeepsHands ==
  ASSUME WorkerTypes, HandInv, NEW w \in Workers, TurnEnds(w) \/ FollowUp(w)
  PROVE  WorkerTypes' /\ HandInv'
  <1> USE DEF Steps, Submitting, Resting, HasTaken, At
  <1>1. HasTaken(w) /\ w \in scenario.runs /\ Fits(worker[w].pc, invocation[worker[w].at].status)
    BY AtInvocation DEF TurnEnds, FollowUp
  <1>2. PICK step \in {"WAIT", "FOLLOW", "POST"} : Goto(w, step)
    BY DEF TurnEnds, FollowUp
  <1>3. UNCHANGED <<vars, seen, scenario, calm>> /\ worker[w].pc \in {"RUN", "FOLLOW"}
    BY DEF TurnEnds, FollowUp
  <1>4. NextStep(w, step) /\ WorkerTypes'
    BY <1>2, <1>3, GotoTurns DEF WorkerTypes
  <1>5. Fits(step, invocation[worker[w].at].status)
    BY <1>1, <1>3 DEF Fits
  <1> QED
    BY <1>1, <1>3, <1>4, <1>5, QuietTurn DEF vars

LEMMA ListenKeepsHands ==
  ASSUME WorkerTypes, HandInv, NEW w \in Workers, Begin(w) \/ Found(w) \/ NothingFound(w) \/ Kill(w)
  PROVE  WorkerTypes' /\ HandInv'
  <1> USE DEF Steps, Submitting, Resting, HasTaken, At
  <1>0. worker \in [Workers -> Process] /\ worker[w] \in Process
    BY DEF WorkerTypes
  <1>1. CASE Begin(w)
    <2> DEFINE last == IF seen < MinInterval THEN seen ELSE WriteInterval
               next == [Down EXCEPT !.pc = "HELLO", !.last = last]
    <2>1. last \in 0..WriteInterval
      BY BoundsAreOrdered DEF WorkerTypes
    <2>2. worker' = [worker EXCEPT ![w] = next]
      BY <1>1 DEF Begin
    <2>3. next \in Process /\ next.pc = "HELLO" /\ next.at = None
      <3> HIDE DEF last
      <3> QED
        BY <2>1, Zeros DEF Down, Process
    <2>4. worker[w].at = None /\ worker[w].pc = "DOWN" /\ w \in scenario.runs
      BY <1>1 DEF Begin, HandInv, HandsMatch
    <2> HIDE DEF next
    <2>5. NextStep(w, "HELLO")
      BY <1>0, <2>2, <2>3, <2>4 DEF NextStep
    <2>6. WorkerTypes' /\ UNCHANGED <<vars, seen, scenario, calm>>
      BY <1>0, <1>1, <2>2, <2>3 DEF WorkerTypes, Begin
    <2> QED
      BY <2>4, <2>5, <2>6, QuietTurn DEF vars
  <1>2. CASE Found(w)
    <2>1. PICK i \in Offered : worker' = [worker EXCEPT ![w].pc = "CLAIM", ![w].at = i, ![w].timer = 0]
      BY <1>2 DEF Found
    <2> DEFINE next == [worker[w] EXCEPT !.pc = "CLAIM", !.at = i, !.timer = 0]
    <2>2. i \in Invocations /\ i # None
      BY NoneAssumption DEF Offered
    <2>3. next \in Process /\ next.pc = "CLAIM" /\ next.at = i
      BY <1>0, <2>2, Zeros DEF Process
    <2>4. worker' = [worker EXCEPT ![w] = next]
      BY <1>0, <2>1
    <2> HIDE DEF next
    <2>5. worker'[w].pc = "CLAIM" /\ worker'[w].at = i /\ \A v \in Workers \ {w} : worker'[v] = worker[v]
      BY <1>0, <2>3, <2>4
    <2>6. worker[w].pc = "LISTEN" /\ worker[w].at = None /\ UNCHANGED <<vars, seen, scenario, calm>>
      BY <1>2 DEF Found, HandInv, HandsMatch
    <2>7. WorkerTypes'
      BY <1>0, <2>3, <2>4, <2>6 DEF WorkerTypes
    <2>8. HandsMatch' /\ HandsFit' /\ OneHand' /\ OwnTargets' /\ RunsListed'
      BY <2>2, <2>5, <2>6 DEF HandInv, HandsMatch, HandsFit, OneHand, OwnTargets, RunsListed, vars
    <2>9. NothingAbandoned'
      BY <2>5, <2>6, NoneAssumption DEF HandInv, NothingAbandoned, Abandoned, AtWork, Active, vars
    <2> QED
      BY <2>7, <2>8, <2>9 DEF HandInv
  <1>3. CASE NothingFound(w) \/ Kill(w)
    <2>1. PICK step \in {"IDLE", "DOWN"} :
            /\ Goto(w, step)
            /\ \/ Fault /\ step = "DOWN"
               \/ UNCHANGED <<scenario, calm>> /\ worker[w].pc = "LISTEN"
      BY <1>3 DEF NothingFound, Kill
    <2>2. UNCHANGED <<vars, seen>> /\ ~At(w, "DOWN")
      BY <1>3 DEF NothingFound, Kill
    <2>3. \/ ~calm' /\ step = "DOWN"
          \/ worker[w].pc = "LISTEN"
      BY <2>1, FaultSpends
    <2>4. WorkerTypes' /\ NextStep(w, step) /\ scenario'.runs = scenario.runs /\ (calm' => calm)
      BY <2>1, <2>2, QuietTypes
    <2>5. w \in scenario.runs
      BY <2>2 DEF HandInv, RunsListed
    <2>6. calm' => worker[w].pc = "LISTEN"
      BY <2>3
    <2>7. step = "DOWN" \/ (step \in Resting /\ worker[w].pc \in Resting)
      BY <2>3
    <2> QED
      BY <2>2, <2>4, <2>5, <2>6, <2>7, QuietTurn DEF vars
  <1> QED
    BY <1>1, <1>2, <1>3

LEMMA BeatsKeepHands ==
  ASSUME WorkerTypes, HandInv, NEW w \in Workers,
         Hello(w) \/ IdleBeat(w) \/ TurnBeat(w) \/ LoopBeat(w) \/ LastBeat(w) \/ WaitBeat(w)
  PROVE  WorkerTypes' /\ HandInv'
  <1> DEFINE i == worker[w].at
  <1>0. {"LISTEN", "DOWN", "RUN", "WAIT"} \subseteq Steps
    BY DEF Steps, Submitting
  <1>1. CASE Hello(w) \/ IdleBeat(w)
    <2>1. ~HasTaken(w) /\ ~At(w, "DOWN") /\ Heartbeat(w, {}, "LISTEN", "DOWN")
      BY <1>1 DEF Hello, IdleBeat, At, HasTaken, Resting
    <2> QED
      BY <1>0, <2>1, BeatKeepsHands
  <1>2. CASE TurnBeat(w) \/ LoopBeat(w)
    <2>1. PICK failed \in {"WAIT", "RUN"} : Heartbeat(w, {i}, "RUN", failed)
      BY <1>2 DEF TurnBeat, LoopBeat
    <2>2. worker[w].pc \in {"TURN", "RUN"}
      BY <1>2 DEF TurnBeat, LoopBeat, At
    <2>3. HasTaken(w) /\ ~At(w, "DOWN") /\ Fits(worker[w].pc, invocation[i].status)
      BY <2>2, AtInvocation DEF At, HasTaken, Resting
    <2>4. \A step \in {"RUN", failed} :
            step \notin Resting \cup {"CLAIM"} /\ Fits(step, invocation[i].status)
      BY <2>2, <2>3 DEF Fits, Resting
    <2> QED
      BY <1>0, <2>1, <2>3, <2>4, BeatKeepsHands
  <1>3. CASE LastBeat(w) \/ WaitBeat(w)
    <2>1. PICK active \in {{}, {i}} : Heartbeat(w, active, "LISTEN", "LISTEN")
      BY <1>3 DEF LastBeat, WaitBeat
    <2>2. worker[w].pc \in {"LAST", "WAITBEAT"}
      BY <1>3 DEF LastBeat, WaitBeat, At
    <2>3. invocation[i].status \notin {"CLAIMED", "RUNNING"} /\ ~At(w, "DOWN")
      BY <2>2, AtInvocation DEF At, HasTaken, Resting, Fits
    <2> QED
      BY <1>0, <2>1, <2>3, BeatKeepsHands
  <1> QED
    BY <1>1, <1>2, <1>3

LEMMA MovesKeepHands ==
  ASSUME TypeOK, WorkerTypes, HandInv, NEW w \in Workers,
         Starting(w) \/ Completing(w) \/ Waiting(w)
  PROVE  WorkerTypes' /\ HandInv'
  <1> DEFINE i == worker[w].at
  <1> USE DEF Resting, HasTaken, Fits, Held, Closed, Claimable, Steps, Submitting
  <1>1. CASE Starting(w)
    <2>1. /\ worker[w].pc = "START"
          /\ Submit(w, MayMove(Actor, i, {"CLAIMED"}), Move(Actor, i, {"CLAIMED"}, "RUNNING"), "TURN", "LISTEN")
      BY <1>1 DEF Starting, Start, At
    <2>2. HasTaken(w) /\ invocation[i].status # "RUNNING"
      BY <2>1, AtInvocation
    <2>3. Fits("TURN", "RUNNING") /\ "RUNNING" \in Held \cup Closed
      OBVIOUS
    <2>4. "TURN" \in Steps \ Resting
      OBVIOUS
    <2> QED
      BY <2>1, <2>2, <2>3, <2>4, MoveKeepsHands
  <1>2. CASE Completing(w)
    <2>1. /\ worker[w].pc = "COMPLETE"
          /\ Submit(w, MayMove(Actor, i, {"RUNNING", "WAITING"}),
                    Move(Actor, i, {"RUNNING", "WAITING"}, "COMPLETED"), "LAST", "WAIT")
      BY <1>2 DEF Completing, Complete, At
    <2> QED
      BY <2>1, MoveKeepsHands
  <1>3. CASE Waiting(w)
    <2>1. /\ worker[w].pc = "WAIT"
          /\ Submit(w, MayMove(Actor, i, {"RUNNING"}), Move(Actor, i, {"RUNNING"}, "WAITING"), "WAITBEAT", "LISTEN")
      BY <1>3 DEF Waiting, Wait, At
    <2>2. HasTaken(w) /\ invocation[i].status # "CLAIMED"
      BY <2>1, AtInvocation
    <2>3. Fits("WAITBEAT", "WAITING") /\ "WAITING" \in Held \cup Closed
      OBVIOUS
    <2>4. "WAITBEAT" \in Steps \ Resting
      OBVIOUS
    <2> QED
      BY <2>1, <2>2, <2>3, <2>4, MoveKeepsHands
  <1> QED
    BY <1>1, <1>2, <1>3

LEMMA WorkersKeepHands ==
  ASSUME TypeOK, WorkerTypes, HandInv, NEW w \in Workers, WorkerStep(w) \/ Kill(w)
  PROVE  WorkerTypes' /\ HandInv'
  BY ListenKeepsHands, BeatsKeepHands, ClaimKeepsHands, MovesKeepHands, TurnEndsKeepsHands,
     PostKeepsHands DEF WorkerStep

LEMMA TickKeepsHands ==
  ASSUME TypeOK, WorkerTypes, HandInv, Tick
  PROVE  WorkerTypes' /\ HandInv'
  <1>1. \A w \in Workers : /\ worker'[w] \in Process
                           /\ worker'[w].pc = worker[w].pc /\ worker'[w].at = worker[w].at
    <2> SUFFICES ASSUME NEW w \in Workers
                 PROVE  /\ worker'[w] \in Process
                        /\ worker'[w].pc = worker[w].pc /\ worker'[w].at = worker[w].at
      OBVIOUS
    <2>1. worker[w] \in Process
      BY DEF WorkerTypes
    <2>2. CASE At(w, "DOWN")
      BY <2>1, <2>2 DEF Tick
    <2>3. CASE ~At(w, "DOWN")
      <3> DEFINE timer == worker[w].timer + 1
                 last == IF worker[w].last < WriteInterval THEN worker[w].last + 1 ELSE worker[w].last
      <3>1. worker'[w] = [worker[w] EXCEPT !.timer = timer, !.last = last]
        BY <2>1, <2>3 DEF Tick, Process
      <3>2. worker[w].timer < ListenWait \/ worker[w].timer < WriteInterval
        BY <2>3 DEF Tick, At
      <3>3. timer \in 0..Longest /\ last \in 0..WriteInterval
        BY <2>1, <3>2, BoundsAreOrdered DEF Process
      <3> HIDE DEF timer, last
      <3> QED
        BY <2>1, <3>1, <3>3 DEF Process
    <2> QED
      BY <2>2, <2>3
  <1>2. worker' \in [Workers -> Process]
    BY <1>1 DEF Tick
  <1>3. seen' \in 0..OfflineAfter
    <2>1. seen' = IF seen < OfflineAfter THEN seen + 1 ELSE seen
      BY DEF Tick
    <2> QED
      BY <2>1, BoundsAreOrdered DEF WorkerTypes
  <1>4. UNCHANGED <<invocation, revoked, scenario, calm>>
    BY DEF Tick, HeartbeatGrowsOld, vars
  <1>5. WorkerTypes'
    BY <1>2, <1>3, <1>4 DEF WorkerTypes
  <1> QED
    BY <1>1, <1>4, <1>5, OthersKeepHands

LEMMA PeopleKeepHands ==
  ASSUME TypeOK, WorkerTypes, HandInv, Decide \/ TakeUp \/ \E i \in Invocations : Ask(i)
  PROVE  WorkerTypes' /\ HandInv'
  <1>1. UNCHANGED <<seen, worker, calm>>
    BY DEF Decide, TakeUp, Ask
  <1>2. CASE Decide
    <2>1. /\ scenario' \in [runs : SUBSET Workers, asked : SUBSET Invocations, faults : Nat, decisions : Nat]
          /\ scenario'.runs = scenario.runs
      BY <1>2 DEF Decide, WorkerTypes
    <2>2. CASE \E i \in Invocations : Cancel(Owner, i)
      <3>1. PICK i \in Invocations : Cancel(Owner, i)
        BY <2>2
      <3>2. /\ invocation'[i].status = "CANCELLED" /\ invocation[i].status # "ABSENT"
            /\ invocation'[i].target = invocation[i].target
            /\ \A j \in Invocations \ {i} : invocation'[j] = invocation[j]
            /\ UNCHANGED revoked
        BY <3>1 DEF Cancel, TypeOK, Invocation, Closed
      <3> QED
        BY <1>1, <2>1, <3>2, OthersKeepHands DEF WorkerTypes, Closed
    <2>3. CASE ~\E i \in Invocations : Cancel(Owner, i)
      <3>1. UNCHANGED invocation /\ revoked \subseteq revoked'
        BY <1>2, <2>3 DEF Decide, Decision, RuntimeDrain, RuntimeConfigure, RevokeAgent, SetRuntimeStatus
      <3> QED
        BY <1>1, <2>1, <3>1, OthersKeepHands DEF WorkerTypes
    <2> QED
      BY <2>2, <2>3
  <1>3. CASE TakeUp
    <2>1. UNCHANGED scenario
      BY <1>3 DEF TakeUp
    <2>2. CASE RuntimeResume(Owner, Served)
      <3>1. UNCHANGED <<invocation, revoked>>
        BY <2>2 DEF RuntimeResume, SetRuntimeStatus
      <3> QED
        BY <1>1, <2>1, <3>1, OthersKeepHands DEF WorkerTypes
    <2>3. CASE \E i \in Invocations : invocation[i].status = "WAITING" /\ Complete(Actor, i)
      <3>1. PICK i \in Invocations : invocation[i].status = "WAITING" /\ Complete(Actor, i)
        BY <2>3
      <3>2. /\ invocation'[i].status = "COMPLETED"
            /\ invocation'[i].target = invocation[i].target
            /\ \A j \in Invocations \ {i} : invocation'[j] = invocation[j]
            /\ UNCHANGED revoked
        BY <3>1, MoveEffect DEF Complete
      <3> QED
        BY <1>1, <2>1, <3>1, <3>2, OthersKeepHands DEF WorkerTypes, Closed
    <2> QED
      BY <1>3, <2>2, <2>3 DEF TakeUp
  <1>4. CASE \E i \in Invocations : Ask(i)
    <2>1. PICK i \in Invocations : Ask(i)
      BY <1>4
    <2>2. /\ scenario' \in [runs : SUBSET Workers, asked : SUBSET Invocations, faults : Nat, decisions : Nat]
          /\ scenario'.runs = scenario.runs
      BY <2>1 DEF Ask, WorkerTypes
    <2>3. PICK consumer \in ConsumerModes : Request(Owner, i, Actor, consumer, None, "NONE")
      BY <2>1 DEF Ask
    <2>4. /\ invocation[i].status = "ABSENT"
          /\ invocation'[i].status = "PENDING" /\ invocation'[i].target = Actor
          /\ \A j \in Invocations \ {i} : invocation'[j] = invocation[j]
          /\ UNCHANGED revoked
      BY <2>3 DEF Request, TypeOK, Invocation, AbsentInvocation
    <2> QED
      BY <1>1, <2>2, <2>4, OthersKeepHands DEF WorkerTypes
  <1> QED
    BY <1>2, <1>3, <1>4

-----------------------------------------------------------------------------
(* Workers: every step is one of the protocol, or none *)

LEMMA ServedIsGiven ==
  /\ Actor \in Agents /\ Actor \in Principals /\ Owner \in Principals /\ Served \in Runtimes
  /\ "PULL" \in Connectors /\ "NONE" \in Deadlines
  BY ServedAssumption, PrincipalAssumption

LEMMA BeatIsStep ==
  ASSUME WorkerTypes, NEW w \in Workers, NEW active \in SUBSET Invocations,
         NEW done \in Steps \ {"DOWN"}, NEW failed \in Steps, Heartbeat(w, active, done, failed)
  PROVE  [Next]_vars
  <1>1. CASE RuntimeHeartbeat(Actor, Served, None, active)
    <2>1. RuntimeStep(Actor, Served)
      BY <1>1 DEF RuntimeStep
    <2> QED
      BY <2>1, ServedIsGiven DEF Next
  <1> QED
    BY <1>1, HeartbeatTurns

LEMMA SubmissionIsStep ==
  ASSUME NEW i \in Invocations,
         \/ \E r \in Runtimes : Claim(Actor, i, r)
         \/ Start(Actor, i) \/ Wait(Actor, i) \/ Complete(Actor, i) \/ Cancel(Owner, i)
         \/ \E consumer \in ConsumerModes : Request(Owner, i, Actor, consumer, None, "NONE")
  PROVE  Next
  <1>1. InvocationStep(Actor, i) \/ InvocationStep(Owner, i)
    BY ServedIsGiven DEF InvocationStep
  <1> QED
    BY <1>1, ServedIsGiven DEF Next

LEMMA WorkerStepIsStep ==
  ASSUME WorkerTypes, HandInv, NEW w \in Workers, WorkerStep(w) \/ Kill(w)
  PROVE  [Next]_vars
  <1> DEFINE i == worker[w].at
  <1>1. CASE Hello(w) \/ IdleBeat(w)
    BY <1>1, BeatIsStep DEF Hello, IdleBeat, Steps
  <1>2. CASE TurnBeat(w) \/ LoopBeat(w) \/ LastBeat(w) \/ WaitBeat(w)
    <2>1. i \in Invocations
      BY <1>2, AtInvocation DEF TurnBeat, LoopBeat, LastBeat, WaitBeat, At, Resting
    <2>2. {i} \in SUBSET Invocations /\ {} \in SUBSET Invocations
      BY <2>1
    <2> QED
      BY <1>2, <2>2, BeatIsStep DEF TurnBeat, LoopBeat, LastBeat, WaitBeat, Steps, Submitting
  <1>3. CASE Claiming(w) \/ Starting(w) \/ Completing(w) \/ Waiting(w)
    <2>1. i \in Invocations
      BY <1>3, AtInvocation DEF Claiming, Starting, Completing, Waiting, At, Resting
    <2>2. \/ Claim(Actor, i, Served) \/ Start(Actor, i) \/ Wait(Actor, i) \/ Complete(Actor, i)
          \/ UNCHANGED vars
      BY <1>3 DEF Claiming, Starting, Completing, Waiting, Submit
    <2> QED
      BY <2>1, <2>2, SubmissionIsStep, ServedIsGiven
  <1>4. CASE Begin(w) \/ Found(w) \/ NothingFound(w) \/ TurnEnds(w) \/ FollowUp(w) \/ Post(w) \/ Kill(w)
    BY <1>4 DEF Begin, Found, NothingFound, TurnEnds, FollowUp, Post, Submit, Kill
  <1> QED
    BY <1>1, <1>2, <1>3, <1>4 DEF WorkerStep

LEMMA WorkersFollowProtocol == WorkerTypes /\ HandInv /\ [WorkerNext]_workerVars => [Next]_vars
  <1> SUFFICES ASSUME WorkerTypes, HandInv, [WorkerNext]_workerVars PROVE [Next]_vars
    OBVIOUS
  <1>1. CASE \E w \in Workers : WorkerStep(w) \/ Kill(w)
    BY <1>1, WorkerStepIsStep
  <1>2. CASE Tick
    <2>1. HeartbeatGrowsOld(Served) \/ UNCHANGED vars
      BY <1>2 DEF Tick
    <2>2. HeartbeatGrowsOld(Served) => Next
      BY ServedIsGiven DEF Next, Time
    <2> QED
      BY <2>1, <2>2
  <1>3. CASE \E i \in Invocations : Ask(i)
    BY <1>3, SubmissionIsStep DEF Ask
  <1>4. CASE Decide \/ TakeUp
    <2>1. \/ \E i \in Invocations : Cancel(Owner, i) \/ Complete(Actor, i)
          \/ RuntimeStep(Owner, Served) \/ RuntimeStep(Actor, Served)
          \/ RevokeAgent(Owner, Actor)
      BY <1>4, ServedIsGiven DEF Decide, Decision, TakeUp, RuntimeStep
    <2> QED
      BY <2>1, SubmissionIsStep, ServedIsGiven DEF Next
  <1>5. CASE UNCHANGED workerVars
    BY <1>5 DEF workerVars
  <1> QED
    BY <1>1, <1>2, <1>3, <1>4, <1>5 DEF WorkerNext

-----------------------------------------------------------------------------
(* Workers: what a process knows of the last heartbeat *)

\* A worker knows how old a heartbeat is while the next one would be too soon, unless
\* it missed the answer.
Noted(w) == ~At(w, "DOWN") /\ ~worker[w].unheard /\ seen < MinInterval => worker[w].last = seen
Noting == Lone => \A w \in Workers : Noted(w)

LEMMA GotoNotes ==
  ASSUME WorkerTypes, NEW w \in Workers, NEW step \in Steps, Goto(w, step), UNCHANGED seen,
         ~At(w, "DOWN"), Noted(w)
  PROVE  Noted(w)'
  <1>1. CASE step = "DOWN"
    BY <1>1, GotoTurns DEF NextStep, Noted, At
  <1>2. CASE step # "DOWN"
    BY <1>2, GotoFields DEF Noted, At
  <1> QED
    BY <1>1, <1>2

LEMMA BeatNotes ==
  ASSUME WorkerTypes, NEW w \in Workers, NEW active, NEW done \in Steps \ {"DOWN"}, NEW failed \in Steps,
         Heartbeat(w, active, done, failed), ~At(w, "DOWN"), Noted(w)
  PROVE  Noted(w)'
  <1>1. CASE (Goto(w, done) \/ Goto(w, failed)) /\ UNCHANGED seen
    BY <1>1, GotoNotes
  <1>2. CASE Beat(active) /\ Beaten(w, done)
    BY <1>2, BeatenFields DEF Beat, Noted
  <1>3. CASE Unheard(w, failed)
    BY <1>3, UnheardTurns DEF NextStep, Noted, At
  <1> QED
    BY <1>1, <1>2, <1>3 DEF Heartbeat

LEMMA TurnNotes ==
  ASSUME WorkerTypes, NEW w \in Workers, WorkerStep(w) \/ Kill(w), Noted(w)
  PROVE  Noted(w)'
  <1>1. CASE Begin(w)
    <2>1. worker'[w].last = (IF seen < MinInterval THEN seen ELSE WriteInterval) /\ UNCHANGED seen
      BY <1>1 DEF Begin, Down, WorkerTypes
    <2> QED
      BY <2>1 DEF Noted
  <1>2. CASE Found(w)
    <2>1. ASSUME NEW i, worker' = [worker EXCEPT ![w].pc = "CLAIM", ![w].at = i, ![w].timer = 0]
          PROVE  worker'[w].last = worker[w].last /\ worker'[w].unheard = worker[w].unheard
      BY <2>1 DEF WorkerTypes, Process
    <2> QED
      BY <1>2, <2>1 DEF Found, Noted, At
  <1>3. CASE Hello(w) \/ IdleBeat(w) \/ TurnBeat(w) \/ LoopBeat(w) \/ LastBeat(w) \/ WaitBeat(w)
    <2>1. PICK active \in {{}, {worker[w].at}}, done \in {"LISTEN", "RUN"},
               failed \in {"DOWN", "LISTEN", "RUN", "WAIT"} : Heartbeat(w, active, done, failed) /\ ~At(w, "DOWN")
      BY <1>3 DEF Hello, IdleBeat, TurnBeat, LoopBeat, LastBeat, WaitBeat, At
    <2>2. done \in Steps \ {"DOWN"} /\ failed \in Steps
      BY DEF Steps, Submitting
    <2> QED
      BY <2>1, <2>2, BeatNotes
  <1>4. CASE \/ NothingFound(w) \/ Claiming(w) \/ Starting(w) \/ TurnEnds(w) \/ FollowUp(w)
             \/ Post(w) \/ Completing(w) \/ Waiting(w) \/ Kill(w)
    <2>1. PICK step \in Steps : Goto(w, step) /\ UNCHANGED seen /\ ~At(w, "DOWN")
      BY <1>4 DEF NothingFound, Claiming, Starting, TurnEnds, FollowUp, Post, Completing, Waiting,
                  Kill, Submit, Steps, Submitting, At
    <2> QED
      BY <2>1, GotoNotes
  <1> QED
    BY <1>1, <1>2, <1>3, <1>4 DEF WorkerStep

\* The others of a worker that runs alone stay down.
LEMMA AloneSteps ==
  ASSUME HandInv, Lone, NEW u \in scenario.runs, NEW w \in Workers, WorkerStep(w) \/ Kill(w)
  PROVE  w = u
  <1>1. w # u => At(w, "DOWN") /\ w \notin scenario.runs
    BY DEF Lone, HandInv, RunsListed
  <1> QED
    BY <1>1 DEF WorkerStep, At, Begin, Hello, Found, NothingFound, IdleBeat, Claiming, Starting,
       TurnBeat, LoopBeat, TurnEnds, FollowUp, Post, Completing, LastBeat, Waiting, WaitBeat, Kill

LEMMA NotingStep ==
  ASSUME WorkerTypes, HandInv, HandInv', Noting, [WorkerNext]_workerVars, scenario'.runs = scenario.runs
  PROVE  Noting'
  <1> SUFFICES ASSUME Lone', NEW u \in Workers, ~At(u, "DOWN")' PROVE Noted(u)'
    BY DEF Noting, Noted
  <1>1. Lone /\ u \in scenario.runs /\ Noted(u)
    BY DEF HandInv, RunsListed, Lone, Noting
  <1>2. CASE \E w \in Workers : WorkerStep(w) \/ Kill(w)
    BY <1>1, <1>2, AloneSteps, TurnNotes
  <1>3. CASE Tick
    <2>1. worker[u] \in Process /\ seen \in Nat /\ seen <= OfflineAfter
      BY BoundsAreOrdered DEF WorkerTypes
    <2>2. /\ worker'[u].pc = worker[u].pc /\ worker'[u].unheard = worker[u].unheard
          /\ ~At(u, "DOWN") =>
               worker'[u].last = IF worker[u].last < WriteInterval THEN worker[u].last + 1 ELSE worker[u].last
      BY <1>3, <2>1 DEF Tick, Process, At
    <2>3. seen' = IF seen < OfflineAfter THEN seen + 1 ELSE seen
      BY <1>3 DEF Tick
    <2>4. seen' < MinInterval => seen' = seen + 1 /\ seen < MinInterval
      BY <2>1, <2>3, BoundsAreOrdered
    <2> QED
      BY <1>1, <2>1, <2>2, <2>4, BoundsAreOrdered DEF Noted, At
  <1>4. CASE UNCHANGED <<seen, worker>>
    BY <1>1, <1>4 DEF Noted, At
  <1> QED
    BY <1>2, <1>3, <1>4 DEF WorkerNext, Decide, TakeUp, Ask, workerVars

-----------------------------------------------------------------------------
(* Workers: the theorems *)

WorkerInv == IInv /\ WorkerTypes /\ HandInv /\ Noting

LEMMA InitWorkerInv == WorkerInit => WorkerInv
  <1> SUFFICES ASSUME WorkerInit PROVE WorkerInv
    OBVIOUS
  <1>1. PICK max \in Capacities : runtime = [r \in Runtimes |->
          IF r = Served THEN [AbsentRuntime EXCEPT !.status = "OFFLINE", !.agent = Actor, !.max = max]
          ELSE AbsentRuntime]
    BY DEF WorkerInit
  <1>2. TypeOK
    BY <1>1, ServedIsGiven, InputAssumption DEF WorkerInit, TypeOK, AbsentInvocation, AbsentDelivery,
       AbsentRuntime, Invocation, Delivery, Runtime
  <1>3. \A i \in Invocations : DeliveriesOf(i) = {} /\ AutomaticAttempts(i) = {}
    BY DEF WorkerInit, AbsentDelivery, DeliveriesOf, AutomaticAttempts
  <1>4. AttemptsNumbered /\ AutomaticAttemptsBounded
    <2>1. Cardinality({}) = 0 /\ 1..0 = {} /\ 0 <= MaxDeliveryAttempts
      BY FS_EmptySet, InputAssumption
    <2> QED
      BY <1>3, <2>1, Zenon DEF AttemptsNumbered, AutomaticAttemptsBounded
  <1>5. ExclusiveRoute
    BY <1>3 DEF ExclusiveRoute, LiveAttempts
  <1>6. RecordsLinked /\ NotifiedIffDelivered
    BY DEF WorkerInit, RecordsLinked, NotifiedIffDelivered, AbsentDelivery, AbsentInvocation, Claimable, Held
  <1>7. RevocationSticks /\ ActiveListsAssigned
    BY <1>1 DEF WorkerInit, RevocationSticks, ActiveListsAssigned, AbsentRuntime
  <1>8. WorkerTypes
    BY Zeros, BoundsAreOrdered, ScenarioAssumption DEF WorkerInit, WorkerTypes, Down, Process
  <1>9. HandInv
    BY DEF WorkerInit, Down, HandInv, HandsMatch, HandsFit, OneHand, OwnTargets, RunsListed, HasTaken,
       Resting, At, NothingAbandoned, Abandoned, AbsentInvocation
  <1>10. Noting
    BY DEF WorkerInit, Down, Noting, Noted, At
  <1> QED
    BY <1>2, <1>4, <1>5, <1>6, <1>7, <1>8, <1>9, <1>10 DEF IInv, WorkerInv

LEMMA RunsStay ==
  ASSUME WorkerTypes, [WorkerNext]_workerVars
  PROVE  scenario'.runs = scenario.runs
  <1>1. Fault => scenario'.runs = scenario.runs
    BY FaultSpends
  <1>2. \A w \in Workers : WorkerStep(w) \/ Kill(w) => Fault \/ UNCHANGED scenario
    BY DEF WorkerStep, Begin, Hello, Found, NothingFound, IdleBeat, Claiming, Starting, TurnBeat, LoopBeat,
       TurnEnds, FollowUp, Post, Completing, LastBeat, Waiting, WaitBeat, Kill, Heartbeat, Submit
  <1>3. Decide \/ TakeUp \/ Tick \/ (\E i \in Invocations : Ask(i)) => scenario'.runs = scenario.runs
    BY DEF WorkerTypes, Decide, TakeUp, Tick, Ask
  <1> QED
    BY <1>1, <1>2, <1>3 DEF WorkerNext, workerVars

LEMMA StepWorkerInv == WorkerInv /\ [WorkerNext]_workerVars => WorkerInv'
  <1> SUFFICES ASSUME WorkerInv, [WorkerNext]_workerVars PROVE WorkerInv'
    OBVIOUS
  <1> USE DEF WorkerInv
  <1>1. TypeOK
    BY DEF IInv
  <1>2. IInv'
    BY WorkersFollowProtocol, StepIInv
  <1>3. WorkerTypes' /\ HandInv'
    <2>1. CASE \E w \in Workers : WorkerStep(w) \/ Kill(w)
      BY <1>1, <2>1, WorkersKeepHands
    <2>2. CASE Tick
      BY <1>1, <2>2, TickKeepsHands
    <2>3. CASE Decide \/ TakeUp \/ \E i \in Invocations : Ask(i)
      BY <1>1, <2>3, PeopleKeepHands
    <2>4. CASE UNCHANGED workerVars
      BY <2>4 DEF workerVars, vars, WorkerTypes, HandInv, HandsMatch, HandsFit, OneHand, OwnTargets,
         RunsListed, HasTaken, At, NothingAbandoned, Abandoned, AtWork, Active
    <2> QED
      BY <2>1, <2>2, <2>3, <2>4 DEF WorkerNext
  <1>4. Noting'
    BY <1>3, RunsStay, NotingStep
  <1> QED
    BY <1>2, <1>3, <1>4

\* The invariant of the protocol holds of workers at work, and with it what each
\* process has in hand.
THEOREM WorkerInvariance == WorkerSpec => []WorkerInv
  BY InitWorkerInv, StepWorkerInv, PTL DEF WorkerSpec

\* The state of workers stays well-formed.
THEOREM WorkerTypeCorrect == WorkerSpec => []WorkerTypeOK
  <1>1. WorkerInv => WorkerTypeOK
    BY DEF WorkerInv, IInv, WorkerTypes, WorkerTypeOK
  <1> QED
    BY <1>1, WorkerInvariance, PTL

\* Any number of workers of one runtime: while nothing fails, an invocation that
\* is taken has a worker on it, whatever is refused.
THEOREM WorkersAbandonNothing == WorkerSpec => []NothingAbandoned
  <1>1. WorkerInv => NothingAbandoned
    BY DEF WorkerInv, HandInv
  <1> QED
    BY <1>1, WorkerInvariance, PTL

\* Workers keep to the capacity of their runtime, however many look for work.
THEOREM WorkersKeepToCapacity == WorkerSpec => NeverOvercommits
  <1>1. WorkerInv /\ [WorkerNext]_workerVars =>
          [\A r \in Runtimes :
             Load(r)' \subseteq Load(r) \/ Cardinality(Load(r)') <= runtime'[r].max]_vars
    BY WorkersFollowProtocol, CommitStep DEF WorkerInv, IInv
  <1> QED
    BY <1>1, WorkerInvariance, PTL DEF WorkerSpec, NeverOvercommits

\* Workers, their failures and their restarts keep what an invocation promises.
THEOREM WorkersKeepPromise == WorkerSpec => ImplementsEngagement
  <1>1. WorkerInit => Promise!Init
    <2> SUFFICES ASSUME WorkerInit PROVE Promise!Init
      OBVIOUS
    <2>1. TypeOK /\ \A i \in Invocations :
            invocation[i].status = "ABSENT" /\ invocation[i].runtime = None
      BY InitWorkerInv DEF WorkerInit, WorkerInv, IInv, AbsentInvocation
    <2> QED
      BY <2>1, PhaseOf DEF Promise!Init
  <1>2. WorkerInv /\ WorkerInv' /\ [WorkerNext]_workerVars => [Promise!Next]_(Promise!vars)
    BY WorkersFollowProtocol, PromiseStep DEF WorkerInv, IInv
  <1> QED
    BY <1>1, <1>2, WorkerInvariance, PTL DEF WorkerSpec, ImplementsEngagement, Promise!Spec

-----------------------------------------------------------------------------
(* Workers: how old the heartbeat of a worker that runs alone may grow *)

\* Few enough decisions for the intervals: each may send a worker back to listen for
\* another window without a heartbeat.  With 10, 11 and 45 s, as in the code, two.
FewDecisions ==
  /\ ListenWait <= WriteInterval
  /\ \A s \in Scenarios : 2 * WriteInterval + ListenWait * s.decisions <= OfflineAfter

\* The time to spare once the decisions still to come have cost a window each.
Spare == OfflineAfter - 2 * WriteInterval - ListenWait * scenario.decisions
Latest == 2 * WriteInterval - 1 + Spare

\* The runtime stays the agent's, and what its workers have taken stays with it.
ServedKept ==
  /\ runtime[Served].status # "ABSENT"
  /\ runtime[Served].agent = Actor /\ runtime[Served].connector = "PULL" /\ runtime[Served].max >= 1
  /\ runtime[Served].heartbeat # "NONE" =>
       runtime[Served].status = "ONLINE" /\ runtime[Served].health = "REPORTED" /\ Active(Actor)
  /\ \A w \in Workers : HasTaken(w) => invocation[worker[w].at].runtime = Served

Recent == runtime[Served].heartbeat = "RECENT"

\* A worker knows how old the last heartbeat is, until it may write the next one.
Reckons(w) == IF worker[w].last < WriteInterval THEN seen = worker[w].last ELSE seen >= WriteInterval

\* What a worker has in hand is running, unless a decision has been spent on it.
Pursued(w) ==
  worker[w].pc \in {"TURN", "RUN", "FOLLOW", "POST", "COMPLETE", "WAIT"} =>
    invocation[worker[w].at].status = "RUNNING" \/ Spare >= ListenWait

\* How old the heartbeat may be where a worker is, or what else is known there.
ShownAt(w) ==
  /\ ~At(w, "DOWN") /\ ~At(w, "HELLO")
  /\ At(w, "LISTEN") => worker[w].timer <= ListenWait /\ seen + ListenWait <= Latest + worker[w].timer
  /\ At(w, "CLAIM") => seen <= Latest /\ (worker[w].at \in Offered \/ seen + ListenWait <= Latest)
  /\ At(w, "START") =>
       /\ seen <= Latest
       /\ invocation[worker[w].at].status = "CLAIMED" \/ seen + ListenWait <= Latest
  /\ At(w, "RUN") => seen < WriteInterval + worker[w].timer
  /\ worker[w].pc \in {"FOLLOW", "POST", "COMPLETE", "WAIT"} => seen < 2 * WriteInterval

Shown(w) ==
  /\ runtime[Served].heartbeat # "OLD"
  /\ Pursued(w)
  /\ Recent => Reckons(w) /\ ShownAt(w)

ShownInv ==
  /\ Spare >= 0
  /\ ServedKept
  /\ calm /\ Lone => \A w \in scenario.runs : Shown(w)

LEMMA SpareMoves ==
  ASSUME WorkerTypes
  PROVE  /\ Spare \in Int /\ Latest = 2 * WriteInterval - 1 + Spare /\ Spare <= OfflineAfter - 2 * WriteInterval
         /\ scenario'.decisions = scenario.decisions => Spare' = Spare /\ Latest' = Latest
         /\ Decide => Spare' = Spare + ListenWait /\ Latest' = Latest + ListenWait
  <1> DEFINE n == scenario.decisions
             m == scenario'.decisions
             cost == ListenWait * n
             left == ListenWait * m
  <1>1. n \in Nat /\ ListenWait \in Nat /\ WriteInterval \in Nat /\ OfflineAfter \in Nat
    BY BoundsAreOrdered DEF WorkerTypes
  <1>2. cost \in Nat
    BY <1>1
  <1>3. m = n => left = cost
    OBVIOUS
  <1>4. Decide => left = cost - ListenWait
    <2>1. Decide => m = n - 1
      BY DEF Decide, WorkerTypes
    <2>2. ListenWait * (n - 1) = ListenWait * n - ListenWait
      BY <1>1
    <2> QED
      BY <2>1, <2>2
  <1>5. Spare = OfflineAfter - 2 * WriteInterval - cost /\ Latest = 2 * WriteInterval - 1 + Spare
    BY DEF Spare, Latest
  <1>6. Spare' = OfflineAfter - 2 * WriteInterval - left /\ Latest' = 2 * WriteInterval - 1 + Spare'
    BY DEF Spare, Latest
  <1> HIDE DEF n, m, cost, left
  <1>7. Spare \in Int /\ Spare <= OfflineAfter - 2 * WriteInterval
    BY <1>1, <1>2, <1>5
  <1>8. m = n => Spare' = Spare /\ Latest' = Latest
    BY <1>3, <1>5, <1>6
  <1>9. Decide => Spare' = Spare + ListenWait /\ Latest' = Latest + ListenWait
    BY <1>1, <1>2, <1>4, <1>5, <1>6
  <1> QED
    BY <1>5, <1>7, <1>8, <1>9 DEF n, m

\* While nothing fails, a heartbeat is refused only of a runtime that is not shown.
LEMMA BeatShows ==
  ASSUME TypeOK, WorkerTypes, ServedKept, NEW w \in Workers, NEW active \in {{}, {worker[w].at}},
         active # {} => worker[w].at \in Invocations /\ AssignedTo(worker[w].at, Served),
         NEW done \in {"LISTEN", "RUN"}, NEW failed \in Steps, Heartbeat(w, active, done, failed),
         calm', Recent => Reckons(w), runtime[Served].heartbeat # "OLD"
  PROVE  /\ runtime'[Served].heartbeat # "OLD"
         /\ UNCHANGED <<invocation, scenario>>
         /\ Recent' => /\ worker'[w].pc = done /\ worker'[w].timer = 0 /\ Reckons(w)'
                       /\ seen' < WriteInterval
                       /\ done # "LISTEN" => worker'[w].at = worker[w].at
  <1>1. seen \in Nat /\ worker[w].last \in 0..WriteInterval /\ WriteInterval \in Nat /\ MinInterval \in Nat
        /\ 0 < WriteInterval /\ MinInterval < WriteInterval /\ done \in Steps \ {"DOWN"}
    BY BoundsAreOrdered, IntervalAssumption DEF WorkerTypes, Process, Steps
  <1>2. ~Fault
    BY DEF Fault
  <1>3. CASE worker[w].last < WriteInterval /\ Goto(w, done) /\ UNCHANGED <<vars, seen, scenario, calm>>
    BY <1>1, <1>3, GotoFields DEF Recent, Reckons, vars
  <1>4. CASE Beat(active) /\ Beaten(w, done) /\ UNCHANGED <<scenario, calm>>
    <2>1. seen' = 0 /\ runtime'[Served].heartbeat = "RECENT" /\ UNCHANGED invocation
      BY <1>4, ServedIsGiven DEF Beat, RuntimeHeartbeat, TypeOK
    <2> QED
      BY <1>1, <1>4, <2>1, BeatenFields DEF Reckons
  <1>5. CASE worker[w].last = WriteInterval /\ ~BeatAllowed(active) /\ UNCHANGED <<vars, seen, scenario, calm>>
    <2>1. ~Recent
      <3> SUFFICES ASSUME Recent PROVE FALSE
        OBVIOUS
      <3>1. ~TooSoon
        BY <1>1, <1>5 DEF Reckons, TooSoon
      <3>2. Cardinality(active) <= runtime[Served].max
        <4>1. Cardinality({}) = 0 /\ Cardinality({worker[w].at}) = 1
          BY FS_EmptySet, FS_Singleton
        <4>2. runtime[Served].max \in Nat /\ runtime[Served].max >= 1
          BY ServedIsGiven DEF ServedKept, TypeOK, Runtime
        <4>3. CASE active = {}
          BY <4>1, <4>2, <4>3
        <4>4. CASE active = {worker[w].at}
          BY <4>1, <4>2, <4>4
        <4> QED
          BY <4>3, <4>4
      <3>3. MayBeat(Actor, Served, None, active)
        BY <3>2 DEF MayBeat, ServedKept, Recent
      <3> QED
        BY <1>5, <3>1, <3>3 DEF BeatAllowed
    <2> QED
      BY <1>5, <2>1 DEF Recent, vars
  <1> QED
    BY <1>2, <1>3, <1>4, <1>5 DEF Heartbeat

LEMMA DecisionsStay ==
  ASSUME WorkerTypes, [WorkerNext]_workerVars, ~Decide
  PROVE  scenario'.decisions = scenario.decisions
  <1>1. Fault => scenario'.decisions = scenario.decisions
    BY DEF Fault, WorkerTypes
  <1>2. \A w \in Workers : WorkerStep(w) \/ Kill(w) => Fault \/ UNCHANGED scenario
    BY DEF WorkerStep, Begin, Hello, Found, NothingFound, IdleBeat, Claiming, Starting, TurnBeat, LoopBeat,
       TurnEnds, FollowUp, Post, Completing, LastBeat, Waiting, WaitBeat, Kill, Heartbeat, Submit
  <1>3. TakeUp \/ Tick \/ (\E i \in Invocations : Ask(i)) => scenario'.decisions = scenario.decisions
    BY DEF WorkerTypes, TakeUp, Tick, Ask
  <1> QED
    BY <1>1, <1>2, <1>3 DEF WorkerNext, workerVars

\* Only a claim puts an invocation into a worker's hands.
LEMMA TakenStays ==
  ASSUME TypeOK, WorkerTypes, NEW v \in Workers, WorkerStep(v) \/ Kill(v), NEW w \in Workers, HasTaken(w)',
         worker[v].pc \notin Resting => worker[v].at \in Invocations
  PROVE  \/ HasTaken(w) /\ worker'[w].at = worker[w].at
         \/ invocation'[worker'[w].at].runtime = Served
  <1> DEFINE Goal == \/ HasTaken(w) /\ worker'[w].at = worker[w].at
                     \/ invocation'[worker'[w].at].runtime = Served
  <1>1. ASSUME NEW step, NextStep(v, step), step \in Resting \cup {"CLAIM"} \/ HasTaken(v) PROVE Goal
    <2>1. CASE v # w
      BY <1>1, <2>1 DEF NextStep, HasTaken
    <2>2. CASE v = w
      BY <1>1, <2>2 DEF NextStep, HasTaken, Resting
    <2> QED
      BY <2>1, <2>2
  <1>2. CASE Begin(v) \/ Found(v)
    <2>1. \A u \in Workers \ {v} : worker'[u] = worker[u]
      BY <1>2 DEF Begin, Found, WorkerTypes
    <2>2. worker'[v].pc \in {"HELLO", "CLAIM"}
      <3>1. Begin(v) => worker'[v] = [Down EXCEPT !.pc = "HELLO", !.last = IF seen < MinInterval THEN seen ELSE WriteInterval]
        BY DEF Begin, WorkerTypes
      <3>2. ASSUME NEW i, worker' = [worker EXCEPT ![v].pc = "CLAIM", ![v].at = i, ![v].timer = 0]
            PROVE  worker'[v].pc = "CLAIM"
        BY <3>2 DEF WorkerTypes, Process
      <3> QED
        BY <1>2, <3>1, <3>2 DEF Found, Down
    <2> QED
      BY <2>1, <2>2 DEF HasTaken, Resting
  <1>3. CASE Hello(v) \/ IdleBeat(v) \/ TurnBeat(v) \/ LoopBeat(v) \/ LastBeat(v) \/ WaitBeat(v)
    <2>1. PICK active \in {{}, {worker[v].at}}, done \in {"LISTEN", "RUN"},
               failed \in {"DOWN", "LISTEN", "RUN", "WAIT"} :
            /\ Heartbeat(v, active, done, failed)
            /\ HasTaken(v) \/ {done, failed} \subseteq Resting
      BY <1>3 DEF Hello, IdleBeat, TurnBeat, LoopBeat, LastBeat, WaitBeat, At, HasTaken, Resting
    <2>2. done \in Steps \ {"DOWN"} /\ failed \in Steps
      BY DEF Steps, Submitting
    <2>3. NextStep(v, done) \/ NextStep(v, failed)
      BY <2>1, <2>2, HeartbeatTurns
    <2> QED
      BY <1>1, <2>1, <2>3
  <1>4. CASE \/ NothingFound(v) \/ Starting(v) \/ TurnEnds(v) \/ FollowUp(v)
             \/ Post(v) \/ Completing(v) \/ Waiting(v) \/ Kill(v)
    <2>1. PICK step \in Steps : Goto(v, step) /\ (step \in Resting \/ HasTaken(v))
      BY <1>4 DEF NothingFound, Starting, TurnEnds, FollowUp, Post, Completing, Waiting,
                  Kill, Submit, Steps, Submitting, At, HasTaken, Resting
    <2> QED
      BY <1>1, <2>1, GotoTurns
  <1>5. CASE Claiming(v)
    <2>1. CASE Claim(Actor, worker[v].at, Served) /\ Goto(v, "START")
      <3>1. NextStep(v, "START") /\ worker[v].at \in Invocations
        BY <1>5, <2>1, GotoTurns DEF Steps, Submitting, Claiming, At, Resting
      <3>2. invocation'[worker[v].at].runtime = Served
        BY <2>1, <3>1 DEF Claim, TypeOK, Invocation
      <3> QED
        BY <3>1, <3>2 DEF NextStep, HasTaken
    <2>2. CASE Goto(v, "LISTEN")
      BY <1>1, <2>2, GotoTurns DEF Steps, Resting
    <2> QED
      BY <1>5, <2>1, <2>2 DEF Claiming, Submit
  <1> QED
    BY <1>2, <1>3, <1>4, <1>5 DEF WorkerStep

\* Which heartbeat a runtime has, and that of the served one is its agent's.
LEMMA ServedRuntime ==
  ASSUME TypeOK, WorkerTypes, ServedKept, [WorkerNext]_workerVars
  PROVE  /\ runtime'[Served].status # "ABSENT"
         /\ runtime'[Served].agent = Actor /\ runtime'[Served].connector = "PULL" /\ runtime'[Served].max >= 1
         /\ runtime'[Served].heartbeat # "NONE" =>
              runtime'[Served].status = "ONLINE" /\ runtime'[Served].health = "REPORTED" /\ Active(Actor)'
         /\ Decide \/ TakeUp => runtime'[Served].heartbeat \in {runtime[Served].heartbeat, "NONE"}
  <1> DEFINE Goal == /\ runtime'[Served].status # "ABSENT"
                     /\ runtime'[Served].agent = Actor /\ runtime'[Served].connector = "PULL"
                     /\ runtime'[Served].max >= 1
                     /\ runtime'[Served].heartbeat # "NONE" =>
                          /\ runtime'[Served].status = "ONLINE" /\ runtime'[Served].health = "REPORTED"
                          /\ Active(Actor)'
             Younger == runtime'[Served].heartbeat \in {runtime[Served].heartbeat, "NONE"}
  <1> USE ServedIsGiven
  <1>0. runtime[Served] \in Runtime /\ runtime \in [Runtimes -> Runtime]
    BY DEF TypeOK
  <1>1. UNCHANGED <<runtime, revoked>> => Goal /\ Younger
    BY DEF ServedKept, Active
  <1>2. ASSUME NEW active, RuntimeHeartbeat(Actor, Served, None, active) PROVE Goal
    BY <1>0, <1>2 DEF RuntimeHeartbeat, MayBeat, ServedKept, Active, Runtime
  <1>3. HeartbeatGrowsOld(Served) => Goal
    BY <1>0 DEF HeartbeatGrowsOld, ServedKept, Active, Runtime
  <1>4. ASSUME NEW status \in {"DRAINING", "OFFLINE"}, SetRuntimeStatus(Served, status) PROVE Goal /\ Younger
    BY <1>0, <1>4 DEF SetRuntimeStatus, ServedKept, Active, Runtime
  <1>5. ASSUME NEW max \in Capacities, RuntimeConfigure(Actor, Served, "PULL", max) PROVE Goal /\ Younger
    <2>1. runtime[Served].heartbeat = "NONE" /\ max \in Nat /\ max >= 1
      BY <1>5, InputAssumption DEF RuntimeConfigure, ServedKept
    <2> QED
      BY <1>0, <1>5, <2>1 DEF RuntimeConfigure, ServedKept, Active, Runtime
  <1>6. RevokeAgent(Owner, Actor) => Goal /\ Younger
    <2> SUFFICES ASSUME RevokeAgent(Owner, Actor) PROVE Goal /\ Younger
      OBVIOUS
    <2>1. CASE runtime[Served].status \notin {"ABSENT", "REVOKED"}
      <3>1. runtime'[Served] = [runtime[Served] EXCEPT !.status = "REVOKED", !.heartbeat = "NONE"]
        BY <2>1 DEF RevokeAgent, ServedKept
      <3> QED
        BY <1>0, <3>1 DEF ServedKept, Runtime
    <2>2. CASE runtime[Served].status \in {"ABSENT", "REVOKED"}
      <3>1. runtime'[Served] = runtime[Served]
        BY <2>2 DEF RevokeAgent
      <3> QED
        BY <2>2, <3>1 DEF ServedKept
    <2> QED
      BY <2>1, <2>2
  <1>7. \A w \in Workers : WorkerStep(w) \/ Kill(w) =>
          \/ UNCHANGED <<runtime, revoked>>
          \/ \E active : RuntimeHeartbeat(Actor, Served, None, active)
    BY DEF WorkerStep, Begin, Hello, Found, NothingFound, IdleBeat, Claiming, Starting, TurnBeat, LoopBeat,
       TurnEnds, FollowUp, Post, Completing, LastBeat, Waiting, WaitBeat, Kill, Heartbeat, Submit, vars, Beat,
       Claim, Start, Complete, Wait, Move
  <1>8. Tick => HeartbeatGrowsOld(Served) \/ UNCHANGED <<runtime, revoked>>
    BY DEF Tick, vars
  <1>9. Decide \/ TakeUp =>
          \/ UNCHANGED <<runtime, revoked>>
          \/ \E status \in {"DRAINING", "OFFLINE"} : SetRuntimeStatus(Served, status)
          \/ \E max \in Capacities : RuntimeConfigure(Actor, Served, "PULL", max)
          \/ RevokeAgent(Owner, Actor)
    BY DEF Decide, Decision, TakeUp, RuntimeDrain, RuntimeResume, Cancel, Complete, Move
  <1>10. (\E i \in Invocations : Ask(i)) => UNCHANGED <<runtime, revoked>>
    BY DEF Ask, Request
  <1>11. Decide \/ TakeUp => Goal /\ Younger
    BY <1>1, <1>4, <1>5, <1>6, <1>9
  <1>12. Goal
    BY <1>1, <1>2, <1>3, <1>7, <1>8, <1>10, <1>11 DEF WorkerNext, workerVars, vars
  <1> QED
    BY <1>11, <1>12

LEMMA ServedStep ==
  ASSUME WorkerInv, ServedKept, [WorkerNext]_workerVars
  PROVE  ServedKept'
  <1>1. TypeOK /\ RecordsLinked /\ WorkerTypes /\ HandInv /\ [Next]_vars
    BY WorkersFollowProtocol DEF WorkerInv, IInv
  <1>2. ASSUME NEW w \in Workers, HasTaken(w), worker'[w].at = worker[w].at
        PROVE  invocation'[worker'[w].at].runtime = Served
    <2>1. worker[w].at \in Invocations /\ invocation[worker[w].at].runtime = Served
      BY <1>1, <1>2, AtInvocation DEF HasTaken, ServedKept
    <2>2. SameWork(worker[w].at)
      BY <1>1, <2>1, WorkStaysPut, ServedIsGiven, NoneAssumption
    <2> QED
      BY <1>2, <2>1, <2>2 DEF SameWork
  <1>3. \A w \in Workers : HasTaken(w)' => invocation'[worker'[w].at].runtime = Served
    <2> SUFFICES ASSUME NEW w \in Workers, HasTaken(w)'
                 PROVE  invocation'[worker'[w].at].runtime = Served
      OBVIOUS
    <2>1. CASE \E v \in Workers : WorkerStep(v) \/ Kill(v)
      <3>1. PICK v \in Workers : WorkerStep(v) \/ Kill(v)
        BY <2>1
      <3>2. worker[v].pc \notin Resting => worker[v].at \in Invocations
        BY <1>1, AtInvocation
      <3> QED
        BY <1>1, <1>2, <3>1, <3>2, TakenStays
    <2>2. CASE Tick
      <3>1. worker'[w].pc = worker[w].pc /\ worker'[w].at = worker[w].at
        BY <1>1, <2>2 DEF Tick, WorkerTypes, Process
      <3> QED
        BY <1>2, <3>1 DEF HasTaken
    <2>3. CASE UNCHANGED worker
      BY <1>2, <2>3 DEF HasTaken
    <2> QED
      BY <2>1, <2>2, <2>3 DEF WorkerNext, workerVars, Ask, Decide, TakeUp
  <1> QED
    BY <1>1, <1>3, ServedRuntime DEF ServedKept

\* A heartbeat that fails without a failure is one too many, or of a runtime that
\* people have taken out of service.
LEMMA RefusedBeat ==
  ASSUME WorkerInv, ServedKept, NEW w \in Workers, NEW active \in {{}, {worker[w].at}},
         active # {} => HasTaken(w), ~BeatAllowed(active),
         runtime[Served].status \notin {"DRAINING", "REVOKED"}
  PROVE  TooSoon
  <1>1. TypeOK /\ RevocationSticks /\ WorkerTypes /\ HandInv
    BY DEF WorkerInv, IInv
  <1>2. runtime[Served].status \in {"OFFLINE", "ONLINE"} /\ runtime[Served].max \in Nat
    BY <1>1, ServedIsGiven DEF TypeOK, Runtime, ServedKept
  <1>3. Active(Actor)
    BY <1>1, <1>2, ServedIsGiven, InputAssumption DEF RevocationSticks, ServedKept, Active
  <1>4. Cardinality(active) <= runtime[Served].max
    <2>1. Cardinality(active) \in {0, 1}
      BY FS_EmptySet, FS_Singleton
    <2> QED
      BY <1>2, <2>1 DEF ServedKept
  <1>5. \A i \in active : AssignedTo(i, Served)
    <2>1. HasTaken(w) => AssignedTo(worker[w].at, Served)
      BY <1>1, AtInvocation DEF HasTaken, Fits, HandInv, OwnTargets, ServedKept, AssignedTo
    <2> QED
      BY <2>1
  <1>6. MayBeat(Actor, Served, None, active)
    BY <1>2, <1>3, <1>4, <1>5 DEF MayBeat, ServedKept
  <1> QED
    BY <1>6 DEF BeatAllowed

LEMMA TurnedAwayStep ==
  ASSUME WorkerInv, ServedKept, [WorkerNext]_workerVars, Lone, NEW w \in Workers, TurnedAway(w),
         runtime[Served].status \notin {"DRAINING", "REVOKED"}, ~(scenario'.faults < scenario.faults)
  PROVE  worker[w].unheard /\ TooSoon
  <1>1. WorkerTypes /\ HandInv /\ Noted(w) /\ worker[w] \in Process
    BY DEF WorkerInv, Noting, WorkerTypes
  <1>2. ~Fault
    BY <1>1 DEF Fault, WorkerTypes
  <1>3. worker[w].pc \in {"HELLO", "IDLE", "TURN"} /\ worker'[w].pc # worker[w].pc
    BY DEF TurnedAway, At
  <1>4. w \in scenario.runs
    BY <1>1, <1>3 DEF HandInv, RunsListed, At
  <1>5. WorkerStep(w) \/ Kill(w)
    <2>1. CASE \E v \in Workers : WorkerStep(v) \/ Kill(v)
      BY <1>1, <1>4, <2>1, AloneSteps
    <2>2. CASE Tick
      BY <1>1, <1>3, <2>2 DEF Tick, At
    <2> QED
      BY <1>3, <2>1, <2>2 DEF WorkerNext, workerVars, Decide, TakeUp, Ask
  <1>6. Hello(w) \/ IdleBeat(w) \/ TurnBeat(w)
    BY <1>2, <1>3, <1>5 DEF WorkerStep, At, Begin, Found, NothingFound, Claiming, Starting,
       LoopBeat, TurnEnds, FollowUp, Post, Completing, LastBeat, Waiting, WaitBeat, Kill
  <1>7. PICK active \in {{}, {worker[w].at}}, done \in {"LISTEN", "RUN"}, failed \in {"DOWN", "WAIT"} :
          /\ Heartbeat(w, active, done, failed) /\ worker'[w].pc = failed
          /\ active # {} => HasTaken(w)
    BY <1>6 DEF Hello, IdleBeat, TurnBeat, TurnedAway, At, HasTaken, Resting
  <1>8. ~Goto(w, done) /\ ~Beaten(w, done)
    BY <1>1, <1>7, GotoFields, BeatenFields DEF Steps
  <1>9. ~BeatAllowed(active) /\ worker[w].last = WriteInterval
    BY <1>2, <1>7, <1>8 DEF Heartbeat
  <1>10. TooSoon
    BY <1>7, <1>9, RefusedBeat
  <1>11. ~At(w, "DOWN") /\ worker[w].last # seen
    BY <1>1, <1>3, <1>9, <1>10, BoundsAreOrdered DEF TooSoon, At, WorkerTypes
  <1> QED
    BY <1>1, <1>10, <1>11 DEF Noted, TooSoon

LEMMA InitServed == WorkerInit => ServedKept
  <1> SUFFICES ASSUME WorkerInit PROVE ServedKept
    OBVIOUS
  <1>1. PICK max \in Capacities : runtime = [r \in Runtimes |->
          IF r = Served THEN [AbsentRuntime EXCEPT !.status = "OFFLINE", !.agent = Actor, !.max = max]
          ELSE AbsentRuntime]
    BY DEF WorkerInit
  <1>2. max \in Nat /\ max >= 1
    BY InputAssumption
  <1>3. /\ runtime[Served].status = "OFFLINE"
        /\ runtime[Served].agent = Actor /\ runtime[Served].connector = "PULL" /\ runtime[Served].max = max
        /\ runtime[Served].heartbeat = "NONE"
    BY <1>1, ServedIsGiven DEF AbsentRuntime
  <1>4. \A w \in Workers : worker[w].pc = "DOWN"
    BY DEF WorkerInit, Down
  <1> QED
    BY <1>2, <1>3, <1>4 DEF ServedKept, HasTaken, Resting

\* Any number of workers and failures, and any intervals in the code's order: no
\* heartbeat of a worker that runs alone is turned away but for what people decided,
\* a failure of that very step, or one before whose answer it missed.
THEOREM LoneWorkersAreTurnedAwayForCause == WorkerSpec => TurnedAwayForCause
  <1>1. WorkerInit => WorkerInv /\ ServedKept
    BY InitWorkerInv, InitServed
  <1>2. WorkerInv /\ ServedKept /\ [WorkerNext]_workerVars => WorkerInv' /\ ServedKept'
    BY StepWorkerInv, ServedStep
  <1>3. WorkerInv /\ ServedKept /\ [WorkerNext]_workerVars =>
          [Lone => \A w \in Workers : TurnedAway(w) =>
             \/ runtime[Served].status \in {"DRAINING", "REVOKED"}
             \/ scenario'.faults < scenario.faults
             \/ worker[w].unheard /\ TooSoon]_workerVars
    BY TurnedAwayStep
  <1> QED
    BY <1>1, <1>2, <1>3, PTL DEF WorkerSpec, TurnedAwayForCause

\* One worker at work, while nothing fails.
Solo(w) ==
  /\ WorkerInv /\ ServedKept /\ FewDecisions /\ Spare >= 0
  /\ scenario.runs = {w} /\ calm'
  /\ Shown(w)

\* The steps of people take nothing up that a worker has in hand, unless by a decision.
LEMMA PeopleLeaveHands ==
  ASSUME TypeOK, WorkerTypes, HandInv, Decide \/ TakeUp \/ \E i \in Invocations : Ask(i)
  PROVE  /\ UNCHANGED <<seen, worker, calm>>
         /\ ~Decide => /\ UNCHANGED runtime \/ runtime'[Served].heartbeat = "NONE"
                       /\ \A i \in Invocations : invocation[i].status \notin {"ABSENT", "WAITING"} =>
                            invocation'[i] = invocation[i]
                       /\ \A r \in Runtimes : Load(r)' \subseteq Load(r)
  <1>1. ASSUME NEW i \in Invocations, Ask(i)
        PROVE  /\ UNCHANGED runtime
               /\ invocation[i].status = "ABSENT" /\ invocation'[i].status = "PENDING"
               /\ \A j \in Invocations \ {i} : invocation'[j] = invocation[j]
    BY <1>1 DEF Ask, Request, TypeOK
  <1>2. ASSUME NEW i \in Invocations, invocation[i].status = "WAITING", Complete(Actor, i)
        PROVE  /\ UNCHANGED runtime
               /\ invocation'[i].status = "COMPLETED"
               /\ \A j \in Invocations \ {i} : invocation'[j] = invocation[j]
    <2>1. UNCHANGED runtime /\ Move(Actor, i, {"RUNNING", "WAITING"}, "COMPLETED")
      BY <1>2 DEF Complete, Move
    <2> QED
      BY <2>1, MoveEffect
  <1>3. RuntimeResume(Owner, Served) => runtime'[Served].heartbeat = "NONE" /\ UNCHANGED invocation
    BY ServedIsGiven DEF RuntimeResume, SetRuntimeStatus, TypeOK, Runtime
  <1> QED
    BY <1>1, <1>2, <1>3 DEF Decide, TakeUp, Ask, Load, Held

LEMMA SoloTypes ==
  ASSUME NEW w \in Workers, Solo(w)
  PROVE  /\ TypeOK /\ WorkerTypes /\ HandInv
         /\ worker[w].timer \in Nat /\ worker[w].last \in 0..WriteInterval /\ worker[w].pc \in Steps
         /\ seen \in Nat /\ seen <= OfflineAfter
         /\ ListenWait \in Nat /\ WriteInterval \in Nat /\ OfflineAfter \in Nat
         /\ 0 < WriteInterval /\ ListenWait <= WriteInterval
         /\ Spare \in Int /\ Spare >= 0 /\ Latest = 2 * WriteInterval - 1 + Spare /\ Latest < OfflineAfter
         /\ ~Fault
         /\ \A v \in Workers \ {w} : At(v, "DOWN")
  <1>1. TypeOK /\ WorkerTypes /\ HandInv /\ ~Fault /\ ListenWait <= WriteInterval /\ Spare >= 0
    BY DEF Solo, WorkerInv, IInv, Fault, FewDecisions
  <1>2. /\ worker[w].timer \in Nat /\ worker[w].last \in 0..WriteInterval /\ worker[w].pc \in Steps
        /\ seen \in Nat /\ seen <= OfflineAfter
    BY <1>1, BoundsAreOrdered DEF WorkerTypes, Process, Steps
  <1>3. \A v \in Workers \ {w} : At(v, "DOWN")
    BY <1>1 DEF Solo, HandInv, RunsListed
  <1>4. /\ ListenWait \in Nat /\ WriteInterval \in Nat /\ OfflineAfter \in Nat /\ 0 < WriteInterval
    BY BoundsAreOrdered
  <1>5. Spare \in Int /\ Latest = 2 * WriteInterval - 1 + Spare /\ Spare <= OfflineAfter - 2 * WriteInterval
    BY <1>1, SpareMoves
  <1> QED
    BY <1>1, <1>2, <1>3, <1>4, <1>5

\* What is in hand is finished, is let go, or was taken back by a decision.
LEMMA PursuedTurn ==
  ASSUME NEW w \in Workers, Solo(w), WorkerStep(w), Spare' = Spare
  PROVE  Pursued(w)'
  <1> DEFINE Working == {"TURN", "RUN", "FOLLOW", "POST", "COMPLETE", "WAIT"}
  <1>0. TypeOK /\ WorkerTypes /\ HandInv /\ ~Fault /\ Pursued(w)
    BY SoloTypes DEF Solo, Shown
  <1>1. ASSUME worker'[w].pc \notin Working PROVE Pursued(w)'
    BY <1>1 DEF Pursued
  <1>2. ASSUME worker[w].pc \in Working, worker'[w].at = worker[w].at, UNCHANGED invocation
        PROVE  Pursued(w)'
    BY <1>0, <1>2 DEF Pursued
  <1>3. CASE Begin(w) \/ Found(w)
    <2>1. Begin(w) => worker'[w] = [Down EXCEPT !.pc = "HELLO", !.last = IF seen < MinInterval THEN seen ELSE WriteInterval]
      BY <1>0 DEF Begin, WorkerTypes
    <2>2. ASSUME NEW i, worker' = [worker EXCEPT ![w].pc = "CLAIM", ![w].at = i, ![w].timer = 0]
          PROVE  worker'[w].pc = "CLAIM"
      BY <1>0, <2>2 DEF WorkerTypes, Process
    <2> QED
      BY <1>1, <1>3, <2>1, <2>2 DEF Found, Down
  <1>4. CASE Hello(w) \/ IdleBeat(w) \/ LastBeat(w) \/ WaitBeat(w)
    <2>1. PICK active \in {{}, {worker[w].at}}, failed \in {"DOWN", "LISTEN"} :
            Heartbeat(w, active, "LISTEN", failed)
      BY <1>4 DEF Hello, IdleBeat, LastBeat, WaitBeat
    <2>2. "LISTEN" \in Steps \ {"DOWN"} /\ failed \in Steps
      BY DEF Steps, Submitting
    <2>3. NextStep(w, "LISTEN") \/ NextStep(w, failed)
      BY <1>0, <2>1, <2>2, HeartbeatTurns
    <2> QED
      BY <1>1, <2>3 DEF NextStep
  <1>5. CASE TurnBeat(w) \/ LoopBeat(w)
    <2>1. PICK failed \in {"RUN", "WAIT"} : Heartbeat(w, {worker[w].at}, "RUN", failed)
      BY <1>5 DEF TurnBeat, LoopBeat
    <2>2. "RUN" \in Steps \ {"DOWN"} /\ failed \in Steps
      BY DEF Steps, Submitting
    <2>3. NextStep(w, "RUN") \/ NextStep(w, failed)
      BY <1>0, <2>1, <2>2, HeartbeatTurns
    <2>4. UNCHANGED invocation
      BY <1>0, <2>1, <2>2, HeartbeatTurns DEF vars, RuntimeHeartbeat
    <2> QED
      BY <1>2, <1>5, <2>3, <2>4 DEF NextStep, TurnBeat, LoopBeat, At
  <1>6. CASE NothingFound(w) \/ Claiming(w)
    <2>1. PICK step \in {"IDLE", "START", "LISTEN"} : Goto(w, step)
      BY <1>0, <1>6 DEF NothingFound, Claiming, Submit
    <2> QED
      BY <1>0, <1>1, <2>1, GotoFields DEF Steps, Submitting
  <1>7. CASE Starting(w)
    <2>1. CASE Goto(w, "LISTEN")
      BY <1>0, <1>1, <2>1, GotoFields DEF Steps
    <2>2. CASE Start(Actor, worker[w].at) /\ Goto(w, "TURN")
      <3>1. worker[w].at \in Invocations /\ worker'[w].at = worker[w].at
        BY <1>0, <1>7, <2>2, AtInvocation, GotoFields DEF Starting, At, Resting, Steps, Submitting
      <3>2. invocation'[worker[w].at].status = "RUNNING"
        BY <1>0, <2>2, <3>1, MoveEffect DEF Start
      <3> QED
        BY <3>1, <3>2 DEF Pursued
    <2> QED
      BY <1>7, <2>1, <2>2 DEF Starting, Submit
  <1>8. CASE TurnEnds(w) \/ FollowUp(w) \/ Post(w)
    <2>1. PICK step \in Working : Goto(w, step)
      BY <1>8 DEF TurnEnds, FollowUp, Post, Submit
    <2>2. worker'[w].at = worker[w].at
      BY <1>0, <2>1, GotoFields DEF Steps, Submitting
    <2> QED
      BY <1>2, <1>8, <2>2 DEF TurnEnds, FollowUp, Post, Submit, vars, At
  <1>9. CASE Completing(w) \/ Waiting(w)
    <2>1. CASE \E step \in {"LAST", "WAITBEAT", "LISTEN"} : Goto(w, step)
      BY <1>0, <1>1, <2>1, GotoFields DEF Steps, Submitting
    <2>2. CASE Goto(w, "WAIT") /\ UNCHANGED vars
      <3>1. worker'[w].at = worker[w].at
        BY <1>0, <2>2, GotoFields DEF Steps, Submitting
      <3> QED
        BY <1>2, <1>9, <2>2, <3>1 DEF Completing, Waiting, vars, At
    <2> QED
      BY <1>0, <1>9, <2>1, <2>2 DEF Completing, Waiting, Submit
  <1> QED
    BY <1>3, <1>4, <1>5, <1>6, <1>7, <1>8, <1>9 DEF WorkerStep

LEMMA BeatStaysShown ==
  ASSUME NEW w \in Workers, Solo(w), Spare' = Spare, Latest' = Latest,
         Hello(w) \/ IdleBeat(w) \/ TurnBeat(w) \/ LoopBeat(w) \/ LastBeat(w) \/ WaitBeat(w)
  PROVE  Shown(w)'
  <1> DEFINE i == worker[w].at
  <1>0. TypeOK /\ WorkerTypes /\ HandInv /\ ServedKept /\ Shown(w) /\ calm'
    BY SoloTypes DEF Solo
  <1>1. PICK active \in {{}, {i}}, done \in {"LISTEN", "RUN"}, failed \in {"DOWN", "LISTEN", "RUN", "WAIT"} :
          /\ Heartbeat(w, active, done, failed)
          /\ active # {} => HasTaken(w)
    BY DEF Hello, IdleBeat, TurnBeat, LoopBeat, LastBeat, WaitBeat, At, HasTaken, Resting
  <1>2. active # {} => i \in Invocations /\ AssignedTo(i, Served)
    <2> SUFFICES ASSUME HasTaken(w) PROVE i \in Invocations /\ AssignedTo(i, Served)
      BY <1>1
    <2>1. i \in Invocations /\ invocation[i].status # "ABSENT"
      BY <1>0, AtInvocation DEF HasTaken, Fits
    <2> QED
      BY <1>0, <2>1 DEF HandInv, OwnTargets, ServedKept, AssignedTo
  <1>3. failed \in Steps
    BY DEF Steps, Submitting
  <1>4. /\ runtime'[Served].heartbeat # "OLD"
        /\ Recent' => /\ worker'[w].pc = done /\ worker'[w].timer = 0 /\ Reckons(w)'
                      /\ seen' < WriteInterval
    <2>1. (Recent => Reckons(w)) /\ runtime[Served].heartbeat # "OLD"
      BY <1>0 DEF Shown
    <2> QED
      BY <1>0, <1>1, <1>2, <1>3, <2>1, BeatShows
  <1>5. ASSUME Recent' PROVE ShownAt(w)'
    <2>1. worker'[w].pc = done /\ worker'[w].timer = 0 /\ seen' < WriteInterval /\ seen' \in Nat
      <3>1. WorkerTypes'
        BY <1>0, <1>1, <1>3, HeartbeatTurns DEF Steps
      <3> QED
        BY <1>4, <1>5, <3>1, BoundsAreOrdered DEF WorkerTypes
    <2>2. seen' + ListenWait <= Latest /\ 0 <= ListenWait
      BY <2>1, SoloTypes
    <2> QED
      BY <2>1, <2>2, SoloTypes DEF ShownAt, At
  <1>6. Pursued(w)'
    BY PursuedTurn DEF WorkerStep
  <1> QED
    BY <1>4, <1>5, <1>6 DEF Shown

\* Without a heartbeat, in no time: what is left is where the worker is then.
LEMMA QuietStaysShown ==
  ASSUME NEW w \in Workers, Solo(w), WorkerStep(w), Spare' = Spare, Latest' = Latest,
         UNCHANGED <<runtime, seen>>, worker'[w].last = worker[w].last,
         Recent /\ Reckons(w) /\ ShownAt(w) => ShownAt(w)'
  PROVE  Shown(w)'
  BY PursuedTurn DEF Solo, Shown, Recent, Reckons

LEMMA ListeningStaysShown ==
  ASSUME NEW w \in Workers, Solo(w), Spare' = Spare, Latest' = Latest, Found(w) \/ NothingFound(w)
  PROVE  Shown(w)'
  <1>0. TypeOK /\ WorkerTypes /\ ~Fault
    BY SoloTypes
  <1>1. UNCHANGED <<vars, seen>> /\ At(w, "LISTEN")
    BY DEF Found, NothingFound
  <1>2. CASE Found(w)
    <2>1. PICK i \in Offered : worker' = [worker EXCEPT ![w].pc = "CLAIM", ![w].at = i, ![w].timer = 0]
      BY <1>2 DEF Found
    <2>2. worker'[w].pc = "CLAIM" /\ worker'[w].at = i /\ worker'[w].last = worker[w].last
      BY <1>0, <2>1 DEF WorkerTypes, Process
    <2>3. Offered' = Offered
      BY <1>1 DEF vars, Offered, Presence, HasCapacity, Load, Unclaimed, Eligible
    <2>4. ShownAt(w) => seen <= Latest
      BY <1>1, SoloTypes DEF ShownAt
    <2>5. ShownAt(w) => ShownAt(w)'
      BY <1>1, <2>2, <2>3, <2>4 DEF ShownAt, At
    <2> QED
      BY <1>1, <1>2, <2>2, <2>5, QuietStaysShown DEF vars, WorkerStep
  <1>3. CASE NothingFound(w)
    <2>1. worker'[w].pc = "IDLE" /\ worker'[w].last = worker[w].last
      BY <1>0, <1>3, GotoFields DEF NothingFound, Steps, Submitting
    <2>2. ShownAt(w)'
      BY <2>1 DEF ShownAt, At
    <2> QED
      BY <1>1, <1>3, <2>1, <2>2, QuietStaysShown DEF vars, WorkerStep
  <1> QED
    BY <1>2, <1>3

LEMMA ClaimStaysShown ==
  ASSUME NEW w \in Workers, Solo(w), Spare' = Spare, Latest' = Latest, Claiming(w)
  PROVE  Shown(w)'
  <1> DEFINE i == worker[w].at
  <1>0. TypeOK /\ WorkerTypes /\ HandInv /\ ServedKept /\ ~Fault
    BY SoloTypes DEF Solo
  <1>1. At(w, "CLAIM") /\ i \in Invocations /\ UNCHANGED <<runtime, seen>>
    BY <1>0, AtInvocation DEF Claiming, At, Resting, Submit, Claim, vars
  <1>2. CASE Claim(Actor, i, Served) /\ Goto(w, "START")
    <2>1. worker'[w].pc = "START" /\ worker'[w].at = i /\ worker'[w].last = worker[w].last
      BY <1>0, <1>2, GotoFields DEF Steps, Submitting
    <2>2. invocation'[i].status = "CLAIMED"
      BY <1>0, <1>1, <1>2, ClaimEffect
    <2>3. ShownAt(w) => ShownAt(w)'
      BY <1>1, <2>1, <2>2 DEF ShownAt, At
    <2> QED
      BY <1>1, <2>1, <2>3, QuietStaysShown DEF WorkerStep
  <1>3. CASE ~MayClaim(Actor, i, Served) /\ Goto(w, "LISTEN") /\ UNCHANGED vars
    <2>1. worker'[w].pc = "LISTEN" /\ worker'[w].timer = 0 /\ worker'[w].last = worker[w].last
      BY <1>0, <1>3, GotoFields DEF Steps
    <2>2. Recent => i \notin Offered
      <3> SUFFICES ASSUME Recent, i \in Offered PROVE MayClaim(Actor, i, Served)
        BY <1>3
      <3>1. invocation[i].target = Actor
        BY <1>0, <1>1 DEF Offered, Unclaimed, Claimable, HandInv, OwnTargets
      <3>2. Active(Actor) /\ runtime[Served].status = "ONLINE" /\ runtime[Served].health = "REPORTED"
        BY <1>0 DEF ServedKept, Recent
      <3> QED
        BY <3>1, <3>2 DEF Offered, MayClaim
    <2>3. Recent /\ ShownAt(w) => ShownAt(w)'
      BY <1>1, <2>1, <2>2, SoloTypes DEF ShownAt, At
    <2> QED
      BY <1>1, <2>1, <2>3, QuietStaysShown DEF WorkerStep
  <1> QED
    BY <1>0, <1>2, <1>3 DEF Claiming, Submit

LEMMA MoveStaysShown ==
  ASSUME NEW w \in Workers, Solo(w), Spare' = Spare, Latest' = Latest,
         Starting(w) \/ Completing(w) \/ Waiting(w) \/ TurnEnds(w) \/ FollowUp(w) \/ Post(w)
  PROVE  Shown(w)'
  <1> DEFINE i == worker[w].at
  <1>0. TypeOK /\ WorkerTypes /\ HandInv /\ ServedKept /\ ~Fault
    BY SoloTypes DEF Solo
  <1>1. i \in Invocations /\ invocation[i].status # "ABSENT" /\ UNCHANGED <<runtime, seen>>
    <2>1. HasTaken(w)
      BY DEF Starting, Completing, Waiting, TurnEnds, FollowUp, Post, At, HasTaken, Resting
    <2> QED
      BY <1>0, <2>1, AtInvocation DEF HasTaken, Fits, Starting, Completing, Waiting, TurnEnds, FollowUp,
         Post, Submit, Start, Complete, Wait, Move, vars
  <1>2. ASSUME NEW step \in {"TURN", "FOLLOW", "POST", "COMPLETE", "WAIT", "LAST", "WAITBEAT"}, Goto(w, step),
               ShownAt(w) /\ step \in {"FOLLOW", "POST", "COMPLETE", "WAIT"} => seen < 2 * WriteInterval
        PROVE  Shown(w)'
    <2>1. worker'[w].pc = step /\ worker'[w].last = worker[w].last
      BY <1>0, <1>2, GotoFields DEF Steps, Submitting
    <2>2. ShownAt(w) => ShownAt(w)'
      BY <1>1, <1>2, <2>1 DEF ShownAt, At
    <2> QED
      BY <1>1, <2>1, <2>2, QuietStaysShown DEF WorkerStep
  <1>3. ASSUME Goto(w, "LISTEN"), UNCHANGED vars, Recent /\ ShownAt(w) => seen + ListenWait <= Latest
        PROVE  Shown(w)'
    <2>1. worker'[w].pc = "LISTEN" /\ worker'[w].timer = 0 /\ worker'[w].last = worker[w].last
      BY <1>0, <1>3, GotoFields DEF Steps
    <2>2. Recent /\ ShownAt(w) => ShownAt(w)'
      BY <1>1, <1>3, <2>1, SoloTypes DEF ShownAt, At
    <2> QED
      BY <1>1, <2>1, <2>2, QuietStaysShown DEF WorkerStep
  <1>4. ASSUME NEW from, ~MayMove(Actor, i, from), Recent PROVE invocation[i].status \notin from
    BY <1>0, <1>1, <1>4, RefusedMove DEF ServedKept, Recent
  <1>5. CASE Starting(w)
    <2>1. CASE Goto(w, "TURN")
      BY <1>2, <2>1
    <2>2. CASE ~MayMove(Actor, i, {"CLAIMED"}) /\ Goto(w, "LISTEN") /\ UNCHANGED vars
      <3>1. Recent /\ ShownAt(w) => seen + ListenWait <= Latest
        BY <1>4, <1>5, <2>2 DEF Starting, ShownAt
      <3> QED
        BY <1>3, <2>2, <3>1
    <2> QED
      BY <1>0, <1>5, <2>1, <2>2 DEF Starting, Submit
  <1>6. CASE Waiting(w)
    <2>1. CASE Goto(w, "WAITBEAT")
      BY <1>2, <2>1
    <2>2. CASE ~MayMove(Actor, i, {"RUNNING"}) /\ Goto(w, "LISTEN") /\ UNCHANGED vars
      <3>1. Recent => Spare >= ListenWait
        BY <1>4, <1>6, <2>2 DEF Solo, Shown, Pursued, Waiting, At
      <3>2. ShownAt(w) => seen < 2 * WriteInterval
        BY <1>6 DEF ShownAt, Waiting, At
      <3>3. Recent /\ ShownAt(w) => seen + ListenWait <= Latest
        BY <3>1, <3>2, SoloTypes
      <3> QED
        BY <1>3, <2>2, <3>3
    <2> QED
      BY <1>0, <1>6, <2>1, <2>2 DEF Waiting, Submit
  <1>7. CASE TurnEnds(w)
    <2>1. ShownAt(w) => seen < 2 * WriteInterval
      <3>1. worker[w].timer <= WriteInterval
        <4>1. Longest = WriteInterval
          BY SoloTypes DEF Longest
        <4> QED
          BY <1>0, <4>1, SoloTypes DEF WorkerTypes, Process
      <3> QED
        BY <1>7, <3>1, SoloTypes DEF ShownAt, TurnEnds
    <2> QED
      BY <1>2, <1>7, <2>1 DEF TurnEnds
  <1>8. CASE FollowUp(w) \/ Post(w) \/ Completing(w)
    <2>1. ShownAt(w) => seen < 2 * WriteInterval
      BY <1>8 DEF ShownAt, FollowUp, Post, Completing, At
    <2> QED
      BY <1>0, <1>2, <1>8, <2>1 DEF FollowUp, Post, Completing, Submit
  <1> QED
    BY <1>5, <1>6, <1>7, <1>8

LEMMA TurnStaysShown ==
  ASSUME NEW w \in Workers, Solo(w), Spare' = Spare, Latest' = Latest, WorkerStep(w)
  PROVE  Shown(w)'
  <1>1. CASE Begin(w)
    <2>1. ~Recent /\ UNCHANGED runtime
      BY <1>1 DEF Begin, Solo, Shown, ShownAt, vars
    <2> QED
      BY <2>1, PursuedTurn DEF Solo, Shown, Recent
  <1> QED
    BY <1>1, BeatStaysShown, ListeningStaysShown, ClaimStaysShown, MoveStaysShown DEF WorkerStep

\* Time passes only for a worker that may listen or work on, and so not too long.
LEMMA TickStaysShown ==
  ASSUME NEW w \in Workers, Solo(w), Spare' = Spare, Latest' = Latest, Tick
  PROVE  Shown(w)'
  <1>0. TypeOK /\ WorkerTypes /\ worker[w] \in Process
    BY SoloTypes DEF WorkerTypes
  <1>1. UNCHANGED invocation /\ worker'[w].pc = worker[w].pc /\ worker'[w].at = worker[w].at
    BY <1>0 DEF Tick, Process, HeartbeatGrowsOld, vars
  <1>2. Pursued(w)'
    BY <1>1 DEF Solo, Shown, Pursued
  <1>3. CASE ~Recent
    <2>1. UNCHANGED vars
      BY <1>3 DEF Tick, Recent
    <2> QED
      BY <1>2, <1>3, <2>1 DEF Solo, Shown, Recent, vars
  <1>4. CASE Recent
    <2>1. Reckons(w) /\ ShownAt(w) /\ ~At(w, "DOWN")
      BY <1>4 DEF Solo, Shown, ShownAt
    <2>2. /\ worker'[w].timer = worker[w].timer + 1
          /\ worker'[w].last = IF worker[w].last < WriteInterval THEN worker[w].last + 1 ELSE worker[w].last
      BY <1>0, <2>1 DEF Tick, Process
    <2>3. \/ At(w, "LISTEN") /\ worker[w].timer < ListenWait
          \/ At(w, "RUN") /\ worker[w].timer < WriteInterval
      BY <2>1 DEF Tick
    <2>4. seen + 1 < OfflineAfter
      BY <2>1, <2>3, SoloTypes DEF ShownAt
    <2>5. seen' = seen + 1
      <3>1. seen' = IF seen < OfflineAfter THEN seen + 1 ELSE seen
        BY DEF Tick
      <3> QED
        BY <2>4, <3>1, SoloTypes
    <2>6. UNCHANGED vars
      <3>1. seen' # OfflineAfter
        BY <2>4, <2>5, SoloTypes
      <3> QED
        BY <3>1 DEF Tick
    <2>7. Reckons(w)'
      BY <2>1, <2>2, <2>5, SoloTypes DEF Reckons
    <2>8. ShownAt(w)'
      BY <1>1, <2>1, <2>2, <2>3, <2>5, SoloTypes DEF ShownAt, At
    <2> QED
      BY <1>2, <2>6, <2>7, <2>8 DEF Solo, Shown, vars
  <1> QED
    BY <1>3, <1>4

LEMMA PeopleStayShown ==
  ASSUME NEW w \in Workers, Solo(w), Decide \/ TakeUp \/ \E i \in Invocations : Ask(i),
         IF Decide THEN Spare' = Spare + ListenWait /\ Latest' = Latest + ListenWait
         ELSE Spare' = Spare /\ Latest' = Latest,
         ServedKept', runtime'[Served].heartbeat \in {runtime[Served].heartbeat, "NONE"}
  PROVE  Shown(w)'
  <1> DEFINE i == worker[w].at
  <1>0. TypeOK /\ WorkerTypes /\ HandInv /\ Shown(w)
    BY SoloTypes DEF Solo
  <1>1. UNCHANGED <<seen, worker, calm>>
    BY <1>0, PeopleLeaveHands
  <1>2. /\ runtime'[Served].heartbeat # "OLD" /\ (Recent' => Recent)
        /\ Reckons(w) => Reckons(w)'
    BY <1>0, <1>1 DEF Shown, Recent, Reckons
  <1>3. CASE Decide
    <2>1. Pursued(w)'
      BY <1>3, SoloTypes DEF Pursued
    <2>2. ShownAt(w) => ShownAt(w)'
      BY <1>1, <1>3, SoloTypes DEF ShownAt, At
    <2> QED
      BY <1>0, <1>2, <2>1, <2>2 DEF Shown
  <1>4. CASE ~Decide
    <2>1. /\ \A j \in Invocations : invocation[j].status \notin {"ABSENT", "WAITING"} =>
               invocation'[j] = invocation[j]
          /\ UNCHANGED runtime \/ runtime'[Served].heartbeat = "NONE"
          /\ \A r \in Runtimes : Load(r)' \subseteq Load(r)
      BY <1>0, <1>4, PeopleLeaveHands
    <2>2. Pursued(w)'
      <3>1. CASE HasTaken(w)
        <4>1. i \in Invocations /\ Fits(worker[w].pc, invocation[i].status)
          BY <1>0, <3>1, AtInvocation DEF HasTaken
        <4>2. invocation[i].status = "RUNNING" => invocation'[i] = invocation[i]
          BY <2>1, <4>1
        <4> QED
          BY <1>0, <1>1, <1>4, <4>2 DEF Shown, Pursued
      <3>2. CASE ~HasTaken(w)
        BY <1>1, <3>2 DEF HasTaken, Resting, Pursued
      <3> QED
        BY <3>1, <3>2
    <2>3. ASSUME Recent' PROVE ShownAt(w) => ShownAt(w)'
      <3>1. UNCHANGED runtime
        BY <2>1, <2>3 DEF Recent
      <3>2. Offered \subseteq Offered'
        <4> SUFFICES ASSUME NEW j \in Offered PROVE j \in Offered'
          OBVIOUS
        <4>1. j \in Invocations /\ invocation'[j] = invocation[j]
          BY <2>1 DEF Offered, Unclaimed, Claimable
        <4>2. Load(Served)' \subseteq Load(Served)
          BY <2>1, ServedIsGiven
        <4>3. Cardinality(Load(Served)') <= Cardinality(Load(Served)) /\ Cardinality(Load(Served)') \in Nat
          BY <4>2, LoadFinite, FS_Subset, FS_CardinalityType
        <4>4. runtime[Served].max \in Nat
          BY <1>0, ServedIsGiven DEF TypeOK, Runtime
        <4>5. HasCapacity(Served) => HasCapacity(Served)'
          BY <3>1, <4>3, <4>4, LoadFinite DEF HasCapacity
        <4> QED
          BY <3>1, <4>1, <4>5 DEF Offered, Presence, Unclaimed, Eligible
      <3>3. At(w, "START") /\ invocation[i].status = "CLAIMED" => invocation'[i] = invocation[i]
        BY <1>0, <2>1, AtInvocation DEF At, Resting
      <3> QED
        BY <1>1, <1>4, <3>2, <3>3 DEF ShownAt, At
    <2> QED
      BY <1>0, <1>2, <2>2, <2>3 DEF Shown
  <1> QED
    BY <1>3, <1>4

LEMMA InitShown == WorkerInit /\ FewDecisions => ShownInv
  <1> SUFFICES ASSUME WorkerInit, FewDecisions PROVE ShownInv
    OBVIOUS
  <1>1. \A w \in Workers : worker[w].pc = "DOWN"
    BY DEF WorkerInit, Down
  <1>2. runtime[Served].heartbeat = "NONE"
    BY ServedIsGiven DEF WorkerInit, AbsentRuntime
  <1>3. ServedKept
    BY InitServed
  <1>4. scenario.runs \subseteq Workers /\ 2 * WriteInterval + ListenWait * scenario.decisions <= OfflineAfter
    BY ScenarioAssumption DEF WorkerInit, FewDecisions
  <1>5. Spare >= 0
    <2> DEFINE cost == ListenWait * scenario.decisions
    <2>1. cost \in Nat /\ WriteInterval \in Nat /\ OfflineAfter \in Nat
      <3>1. scenario.decisions \in Nat
        BY ScenarioAssumption DEF WorkerInit
      <3> QED
        BY <3>1, BoundsAreOrdered
    <2>2. 2 * WriteInterval + cost <= OfflineAfter /\ Spare = OfflineAfter - 2 * WriteInterval - cost
      BY <1>4 DEF Spare
    <2> HIDE DEF cost
    <2> QED
      BY <2>1, <2>2
  <1> QED
    BY <1>1, <1>2, <1>3, <1>4, <1>5 DEF ShownInv, Shown, Pursued, Recent

LEMMA StepShown ==
  ASSUME WorkerInv, ShownInv, FewDecisions, [WorkerNext]_workerVars
  PROVE  ShownInv'
  <1>0. TypeOK /\ WorkerTypes /\ HandInv /\ ServedKept /\ Spare >= 0
    BY DEF WorkerInv, IInv, ShownInv
  <1>1. ServedKept'
    BY <1>0, ServedStep
  <1>2. IF Decide THEN Spare' = Spare + ListenWait /\ Latest' = Latest + ListenWait
        ELSE Spare' = Spare /\ Latest' = Latest
    BY <1>0, SpareMoves, DecisionsStay
  <1>3. Spare' >= 0
    BY <1>0, <1>2, SpareMoves, BoundsAreOrdered
  <1>4. ASSUME calm', Lone', NEW w \in scenario'.runs PROVE Shown(w)'
    <2>1. scenario.runs = {w} /\ w \in Workers /\ Lone
      BY <1>0, <1>4, RunsStay DEF Lone, WorkerTypes
    <2>2. calm
      BY <1>0, <1>4 DEF WorkerNext, WorkerStep, Begin, Hello, Found, NothingFound, IdleBeat, Claiming, Starting,
         TurnBeat, LoopBeat, TurnEnds, FollowUp, Post, Completing, LastBeat, Waiting, WaitBeat, Kill, Heartbeat,
         Submit, Fault, Tick, Ask, Decide, TakeUp, workerVars
    <2>3. Solo(w)
      BY <1>0, <1>4, <2>1, <2>2 DEF Solo, ShownInv
    <2>4. CASE \E v \in Workers : WorkerStep(v) \/ Kill(v)
      <3>1. PICK v \in Workers : WorkerStep(v) \/ Kill(v)
        BY <2>4
      <3>2. v = w
        <4> SUFFICES ASSUME v # w PROVE FALSE
          OBVIOUS
        <4>1. At(v, "DOWN") /\ v \notin scenario.runs
          BY <2>1, <2>3, SoloTypes
        <4> QED
          BY <3>1, <4>1 DEF WorkerStep, At, Begin, Hello, Found, NothingFound, IdleBeat, Claiming, Starting,
             TurnBeat, LoopBeat, TurnEnds, FollowUp, Post, Completing, LastBeat, Waiting, WaitBeat, Kill
      <3>3. WorkerStep(w)
        BY <1>4, <3>1, <3>2 DEF Kill, Fault
      <3>4. UNCHANGED scenario
        BY <1>4, <3>3 DEF WorkerStep, Begin, Hello, Found, NothingFound, IdleBeat, Claiming, Starting, TurnBeat,
           LoopBeat, TurnEnds, FollowUp, Post, Completing, LastBeat, Waiting, WaitBeat, Heartbeat, Submit, Fault
      <3> QED
        BY <1>0, <2>1, <2>3, <3>3, <3>4, SpareMoves, TurnStaysShown
    <2>5. CASE Tick
      <3>1. Spare' = Spare /\ Latest' = Latest
        BY <1>0, <2>5, SpareMoves DEF Tick
      <3> QED
        BY <2>1, <2>3, <2>5, <3>1, TickStaysShown
    <2>6. CASE Decide \/ TakeUp \/ \E i \in Invocations : Ask(i)
      <3>1. runtime'[Served].heartbeat \in {runtime[Served].heartbeat, "NONE"}
        BY <1>0, <2>6, ServedRuntime DEF Ask, Request
      <3> QED
        BY <1>1, <1>2, <2>1, <2>3, <2>6, <3>1, PeopleStayShown
    <2>7. CASE UNCHANGED workerVars
      <3>1. Spare' = Spare /\ Latest' = Latest
        BY <2>7 DEF workerVars, Spare, Latest
      <3>2. Offered' = Offered
        BY <2>7 DEF workerVars, vars, Offered, Presence, HasCapacity, Load, Unclaimed, Eligible
      <3> QED
        BY <2>3, <2>7, <3>1, <3>2 DEF workerVars, vars, Solo, Shown, Pursued, Recent, Reckons, ShownAt, At
    <2> QED
      BY <2>4, <2>5, <2>6, <2>7 DEF WorkerNext
  <1> QED
    BY <1>1, <1>3, <1>4 DEF ShownInv

\* A worker that runs alone is never shown as offline while nothing fails, if people
\* decide so seldom that the windows of listening their decisions cost fit in.
THEOREM LoneWorkersStayShown ==
  ASSUME FewDecisions
  PROVE  WorkerSpec => []ShownWhileServing
  <1>1. WorkerInit => WorkerInv /\ ShownInv
    BY InitWorkerInv, InitShown
  <1>2. WorkerInv /\ ShownInv /\ [WorkerNext]_workerVars => WorkerInv' /\ ShownInv'
    BY StepWorkerInv, StepShown
  <1>3. WorkerInv /\ ShownInv => ShownWhileServing
    BY DEF WorkerInv, HandInv, RunsListed, ShownInv, Shown, ShownWhileServing
  <1> QED
    BY <1>1, <1>2, <1>3, PTL DEF WorkerSpec

=============================================================================
