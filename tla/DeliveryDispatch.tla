-------------------------- MODULE DeliveryDispatch --------------------------
(***************************************************************************)
(* Dispatchers at work on the protocol of InvocationLifecycle: the         *)
(* delivery coordinator and the command handlers of daemons                *)
(* (internal/daemon/connectors.go, daemon.go).  A dispatcher reads a       *)
(* snapshot of the local cache, then closes lapsed attempts and reserves,  *)
(* delivers and reports new ones, one submission at a time, while other    *)
(* dispatchers, clients and clocks move on.  The authority judges each     *)
(* submission by its present state: what it refuses ends the dispatch or   *)
(* passes the invocation over, as the code does for that submission.       *)
(*                                                                         *)
(* A submission whose answer is lost, or which the cache cannot apply      *)
(* because it lacks an earlier event, is committed and taken for failed.   *)
(* A crash of the daemon, a client that hangs up and a context that runs   *)
(* out end a dispatch between any two steps.  A snapshot is reduced to     *)
(* what the dispatch goes on to use of it.  Invocations, deliveries and    *)
(* runtimes are numbers because dispatch goes by the order of identifiers. *)
(***************************************************************************)
EXTENDS InvocationLifecycle

CONSTANTS
  Dispatchers,   \* goroutines that may dispatch: coordinators, handlers
  Signs,         \* <<x, a>>: the host of x holds the credential of a
  Configured,    \* <<x, r>>: the host of x has the connector of r
  Revocable,     \* agents the owner may revoke
  MaxRedeliveries, MaxInterrupts  \* bounds of what clients and crashes do

ASSUME DispatchAssumption ==
  /\ Signs \subseteq Dispatchers \X Agents
  /\ Configured \subseteq Dispatchers \X Runtimes
  /\ Revocable \subseteq Agents
  /\ "NONE" \in Deadlines
  /\ MaxRedeliveries \in Nat /\ MaxInterrupts \in Nat

ASSUME OrderAssumption ==
  Invocations \subseteq Nat /\ Deliveries \subseteq Nat /\ Runtimes \subseteq Nat

VARIABLES
  retry,      \* retry[d]: NextRetryAt of a delivery, ahead or past
  work,       \* work[x]: what dispatcher x is doing
  interrupts  \* dispatches cut short so far

dispatchVars == <<vars, retry, work, interrupts>>

Idle ==
  [phase |-> "IDLE",
   lapsed |-> {},    \* deliveries seen ATTEMPTED after their lease, to be closed
   expired |-> {},   \* invocations of those closed by this dispatch
   todo |-> {},      \* invocations seen PENDING, not looked at yet
   leased |-> {},    \* deliveries seen ATTEMPTED within their lease
   deferred |-> {},  \* deliveries seen with a retry time ahead
   count |-> [i \in Invocations |-> 0],          \* automatic attempts seen
   route |-> [i \in Invocations |-> None],       \* runtime selected
   seat |-> [i \in Invocations |-> None],        \* and the endpoint seen of it
   at |-> None, attempt |-> None, ok |-> FALSE]  \* the delivery in hand

Work ==
  [phase: {"IDLE", "SCAN", "DELIVER", "REPORT"},
   lapsed: SUBSET Deliveries, expired: SUBSET Invocations, todo: SUBSET Invocations,
   leased: SUBSET Deliveries, deferred: SUBSET Deliveries,
   count: [Invocations -> Nat], route: [Invocations -> Runtimes \cup {None}],
   seat: [Invocations -> Endpoints \cup {None}],
   at: Invocations \cup {None}, attempt: Deliveries \cup {None}, ok: BOOLEAN]

DispatchTypeOK ==
  /\ TypeOK
  /\ retry \in [Deliveries -> {"NONE", "AHEAD", "PAST"}]
  /\ work \in [Dispatchers -> Work]
  /\ interrupts \in 0..MaxInterrupts

DispatchInit ==
  /\ Init
  /\ retry = [d \in Deliveries |-> "NONE"]
  /\ work = [x \in Dispatchers |-> Idle]
  /\ interrupts = 0

-----------------------------------------------------------------------------
(* What a dispatch reads *)

Least(S) == CHOOSE n \in S : \A m \in S : n <= m
Fresh == {d \in Deliveries : delivery[d].status = "ABSENT"}

Leased == {d \in Deliveries : delivery[d].status = "ATTEMPTED" /\ delivery[d].lease = "RUNNING"}
LapsedOfPending ==
  {d \in Deliveries : /\ delivery[d].status = "ATTEMPTED" /\ delivery[d].lease = "LAPSED"
                      /\ invocation[delivery[d].invocation].status = "PENDING"}
Lapsed == {d \in Deliveries : delivery[d].status = "ATTEMPTED" /\ delivery[d].lease = "LAPSED"}

\* Runtimes a snapshot offers x for invocation i.  A runtime whose heartbeat is
\* old is shown offline and without work.
Candidates(x, i) ==
  {r \in Runtimes :
     /\ Eligible(i, r)
     /\ runtime[r].status \notin {"DRAINING", "REVOKED"}
     /\ runtime[r].connector # "PULL" /\ <<x, r>> \in Configured
     /\ runtime[r].connector = "INTERACTIVE" => Presence(r) = "ONLINE"
     /\ Presence(r) = runtime[r].status => Cardinality(runtime[r].active) < runtime[r].max}

\* More than one interactive session is ambiguous: none of them is taken.
Usable(x, i) ==
  LET interactive == {r \in Candidates(x, i) : runtime[r].connector = "INTERACTIVE"} IN
  IF Cardinality(interactive) > 1 THEN Candidates(x, i) \ interactive ELSE Candidates(x, i)

Route(x, i) == IF Usable(x, i) = {} THEN None ELSE Least(Usable(x, i))

FinalExpiry(x, d) ==
  ~delivery[d].manual /\ work[x].count[delivery[d].invocation] >= MaxDeliveryAttempts

\* The attempt in hand fails for good: a manual one always does.
FinalFailure(x) ==
  \/ delivery[work[x].attempt].manual
  \/ work[x].count[work[x].at] + 1 >= MaxDeliveryAttempts

\* An attempt or retry time of the snapshot is still ahead of the clock.  What
\* the snapshot says of an attempt closed since is no longer known here.
Waits(x, d) ==
  \/ (d \in work[x].leased /\ delivery[d].lease = "RUNNING")
  \/ (d \in work[x].deferred /\ retry[d] = "AHEAD")
MayWait(x, d) ==
  Waits(x, d) \/ (d \in work[x].leased /\ delivery[d].status # "ATTEMPTED")

\* Dispatcher x has dealt with invocation i.
Done(x, i) ==
  IF work[x].todo \ {i} = {} THEN Idle
  ELSE [work[x] EXCEPT !.phase = "SCAN", !.todo = @ \ {i},
                       !.at = None, !.attempt = None, !.ok = FALSE]

Proceed(x, next) == work' = [work EXCEPT ![x] = next] /\ UNCHANGED interrupts
Abort(x) == Proceed(x, Idle)

-----------------------------------------------------------------------------
(* Dispatch *)

\* One single snapshot serves the whole dispatch.
StartDispatch(x) ==
  LET pending == {i \in Invocations : invocation[i].status = "PENDING"}
      route == [i \in Invocations |-> IF i \in pending THEN Route(x, i) ELSE None]
  IN
  /\ work[x].phase = "IDLE"
  /\ pending \cup Lapsed # {}
  /\ Proceed(x, [Idle EXCEPT
       !.phase = "SCAN", !.lapsed = Lapsed, !.todo = pending, !.leased = Leased,
       !.deferred = {d \in Deliveries : retry[d] = "AHEAD"},
       !.count = [i \in Invocations |-> Cardinality(AutomaticAttempts(i))],
       !.route = route,
       !.seat = [i \in Invocations |-> IF route[i] = None THEN None ELSE runtime[route[i]].endpoint]])
  /\ UNCHANGED <<vars, retry>>

\* Every lapsed attempt of the project is closed first, in any order, each as
\* the target of its invocation.
Expiry(x, d) == DeliveryFailed(invocation[delivery[d].invocation].target,
                                delivery[d].invocation, d, FinalExpiry(x, d))
MayExpire(x, d) == <<x, invocation[delivery[d].invocation].target>> \in Signs

CloseLapsed(x, d) ==
  /\ work[x].phase = "SCAN" /\ d \in work[x].lapsed
  /\ MayExpire(x, d) /\ Expiry(x, d)
  /\ retry' = [retry EXCEPT ![d] = IF FinalExpiry(x, d) THEN "NONE" ELSE "AHEAD"]
  /\ \/ Abort(x)   \* the answer is lost
     \/ Proceed(x, IF work[x].lapsed = {d} /\ work[x].todo = {} THEN Idle
                   ELSE [work[x] EXCEPT !.lapsed = @ \ {d},
                                        !.expired = @ \cup {delivery[d].invocation}])

CloseLapsedRefused(x, d) ==
  /\ work[x].phase = "SCAN" /\ d \in work[x].lapsed
  /\ ~(MayExpire(x, d) /\ ENABLED Expiry(x, d))
  /\ Abort(x)
  /\ UNCHANGED <<vars, retry>>

\* Invocations are then looked at in the order of their identifiers.
Turn(x, i) ==
  /\ work[x].phase = "SCAN" /\ work[x].lapsed = {}
  /\ i \in work[x].todo /\ i = Least(work[x].todo)

MayDispatchOffByOne(x, i) ==
  /\ i \notin work[x].expired
  /\ work[x].route[i] # None
  /\ work[x].count[i] + 1 < MaxDeliveryAttempts
  /\ <<x, invocation[i].target>> \in Signs
MayDispatchExpired(x, i) ==
  /\ work[x].route[i] # None
  /\ work[x].count[i] < MaxDeliveryAttempts
  /\ <<x, invocation[i].target>> \in Signs
MayDispatch(x, i) ==
  /\ i \notin work[x].expired
  /\ work[x].route[i] # None
  /\ work[x].count[i] < MaxDeliveryAttempts
  /\ <<x, invocation[i].target>> \in Signs

\* The endpoint of the snapshot must still be the one of the runtime.
Reservation(x, i, d) ==
  /\ work[x].seat[i] = runtime[work[x].route[i]].endpoint
  /\ DeliveryAttempt(invocation[i].target, i, d, work[x].route[i], FALSE)

Reserve(x, i) ==
  /\ Turn(x, i)
  /\ MayDispatch(x, i)
  /\ \A e \in DeliveriesOf(i) : ~Waits(x, e)
  /\ Fresh # {} /\ Reservation(x, i, Least(Fresh))
  /\ \/ Proceed(x, Done(x, i))   \* the answer is lost
     \/ Proceed(x, [work[x] EXCEPT !.phase = "DELIVER", !.at = i, !.attempt = Least(Fresh)])
  /\ UNCHANGED retry

PassOver(x, i) ==
  /\ Turn(x, i)
  /\ \/ ~MayDispatch(x, i)
     \/ \E e \in DeliveriesOf(i) : MayWait(x, e)
     \/ MayDispatch(x, i) /\ (Fresh # {} => ~ENABLED Reservation(x, i, Least(Fresh)))
  /\ Proceed(x, Done(x, i))
  /\ UNCHANGED <<vars, retry>>

\* The command handler delivers an attempt a client reserved by hand.
Redeliver(x, p, i, r) ==
  /\ work[x].phase = "IDLE"
  /\ Cardinality({d \in Deliveries : delivery[d].manual}) < MaxRedeliveries
  /\ Fresh # {} /\ DeliveryAttempt(p, i, Least(Fresh), r, TRUE)
  /\ Proceed(x, [Idle EXCEPT !.phase = "DELIVER", !.at = i, !.attempt = Least(Fresh)])
  /\ UNCHANGED retry

\* The connector accepts the notification or fails to.  It may take longer than
\* the lease: handlers wait as long as the connector's own timeout.
Deliver(x, ok) ==
  /\ work[x].phase = "DELIVER"
  /\ ok => <<x, delivery[work[x].attempt].runtime>> \in Configured
  /\ Proceed(x, [work[x] EXCEPT !.phase = "REPORT", !.ok = ok])
  /\ UNCHANGED <<vars, retry>>

Success(x) == LET d == work[x].attempt IN
  Notify(invocation[work[x].at].target, work[x].at, d, delivery[d].endpoint)
Failure(x) ==
  DeliveryFailed(invocation[work[x].at].target, work[x].at, work[x].attempt, FinalFailure(x))
MaySign(x) == <<x, invocation[work[x].at].target>> \in Signs

ReportSuccess(x) ==
  /\ work[x].phase = "REPORT" /\ work[x].ok
  /\ MaySign(x) /\ Success(x)
  /\ (Abort(x) \/ Proceed(x, Done(x, work[x].at)))
  /\ UNCHANGED retry

ReportFailure(x) ==
  /\ work[x].phase = "REPORT" /\ ~work[x].ok
  /\ MaySign(x) /\ Failure(x)
  /\ retry' = [retry EXCEPT ![work[x].attempt] = IF FinalFailure(x) THEN "NONE" ELSE "AHEAD"]
  /\ (Abort(x) \/ Proceed(x, Done(x, work[x].at)))

ReportRefused(x) ==
  /\ work[x].phase = "REPORT"
  /\ ~(MaySign(x) /\ IF work[x].ok THEN ENABLED Success(x) ELSE ENABLED Failure(x))
  /\ Abort(x)
  /\ UNCHANGED <<vars, retry>>

Interrupt(x) ==
  /\ work[x].phase # "IDLE"
  /\ interrupts < MaxInterrupts
  /\ interrupts' = interrupts + 1
  /\ work' = [work EXCEPT ![x] = Idle]
  /\ UNCHANGED <<vars, retry>>

RetryTimePasses(d) ==
  /\ retry[d] = "AHEAD"
  /\ retry' = [retry EXCEPT ![d] = "PAST"]
  /\ UNCHANGED <<vars, work, interrupts>>

-----------------------------------------------------------------------------

\* Events of the protocol that others submit and that change what dispatch
\* reads: routes appear, move and drain, invocations appear and close, agents
\* go.  Heartbeats matter to interactive sessions alone.  Drained runtimes stay
\* drained: no fairness serves a route that for ever goes just when it is chosen.
ClientStep ==
  \/ \E a \in Agents, r \in Runtimes, connector \in Connectors, max \in Capacities :
        RuntimeRegister(a, r, a, connector, max)
  \/ \E i \in Invocations, a \in Agents, consumer \in ConsumerModes :
        Request(Owner, i, a, consumer, None, "NONE")
  \/ \E i \in Invocations : Cancel(Owner, i)
  \/ \E r \in Runtimes : RuntimeDrain(Owner, r)
  \/ \E a \in Agents, r \in Runtimes, endpoint \in Endpoints :
        RuntimeHeartbeat(a, r, endpoint, {}) \/ RuntimeOffline(a, r, endpoint)
  \/ \E a \in Revocable : RevokeAgent(Owner, a)

DispatchStep(x) ==
  \/ StartDispatch(x)
  \/ \E d \in Deliveries : CloseLapsed(x, d) \/ CloseLapsedRefused(x, d)
  \/ \E i \in Invocations : Reserve(x, i) \/ PassOver(x, i)
  \/ \E ok \in BOOLEAN : Deliver(x, ok)
  \/ ReportSuccess(x)
  \/ ReportFailure(x)
  \/ ReportRefused(x)

\* Marks turn once each, so fairness to all of them together is fairness to each.
Clock ==
  \/ \E d \in Deliveries : AttemptLeaseLapses(d) /\ UNCHANGED <<retry, work, interrupts>>
  \/ \E d \in Deliveries : RetryTimePasses(d)

DispatchNext ==
  \/ \E x \in Dispatchers : DispatchStep(x)
  \/ \E x \in Dispatchers, i \in Invocations, r \in Runtimes : Redeliver(x, Owner, i, r)
  \/ \E x \in Dispatchers : Interrupt(x)
  \/ ClientStep /\ UNCHANGED <<retry, work, interrupts>>
  \/ Clock

\* The coordinator ticks, connectors have timeouts and time passes.
DispatchFairness ==
  WF_dispatchVars(Clock) /\ \A x \in Dispatchers : WF_dispatchVars(DispatchStep(x))

DispatchSpec == DispatchInit /\ [][DispatchNext]_dispatchVars /\ DispatchFairness

-----------------------------------------------------------------------------
(* Safety *)

InHand(x) == delivery[work[x].attempt]
Delivering(x) == work[x].phase = "DELIVER"

\* No attempt is ever delivered by two dispatchers, and no route is used by two
\* at once while the lease of either attempt could still be reported on.
DeliveriesDisjoint ==
  \A x, y \in Dispatchers :
    x # y /\ Delivering(x) /\ Delivering(y) /\ work[x].at = work[y].at =>
      /\ work[x].attempt # work[y].attempt
      /\ InHand(x).runtime = InHand(y).runtime =>
           ~(InHand(x).lease = "RUNNING" /\ InHand(y).lease = "RUNNING")

Reserved(d, i) ==
  /\ delivery[d].status = "ABSENT" /\ delivery'[d].status = "ATTEMPTED"
  /\ delivery'[d].invocation = i /\ ~delivery'[d].manual

\* A lone dispatcher never bypasses a retry time, its own expiries included,
\* though it acts on a snapshot taken before it set them.
RetryTimesKept ==
  [][\A i \in Invocations, d \in Deliveries : Reserved(d, i) =>
       \A e \in DeliveriesOf(i) : retry[e] # "AHEAD"]_dispatchVars

(* Liveness *)

\* Abandoned attempts recover: crashes, lost answers, late reports and stale
\* snapshots leave no attempt open for ever.  (With finitely many attempts there
\* are then always moments to come at which none is open.)
AttemptsConclude == []<>(\A d \in Deliveries : delivery[d].status # "ATTEMPTED")

\* A pending invocation that some dispatcher has a route for is attempted until
\* it is notified, closed or out of attempts, or until the route is gone.
Routable(i) ==
  \E x \in Dispatchers : Route(x, i) # None /\ <<x, invocation[i].target>> \in Signs
PendingIsServed ==
  \A i \in Invocations :
    (invocation[i].status = "PENDING" /\ Routable(i))
      ~> (invocation[i].status # "PENDING" \/ ~Routable(i) \/ ~RetriesLeft(i))

-----------------------------------------------------------------------------
(* What the documentation says and the code does not do *)

\* docs/site/operations/recovery.md: after a crash an expired attempt is recorded
\* as timed out before retry.
LapsedClosedFirst ==
  [][\A i \in Invocations, d \in Deliveries : Reserved(d, i) =>
       \A e \in DeliveriesOf(i) : delivery[e].lease # "LAPSED"]_dispatchVars

\* docs/site/agents/delivery.md: attempt leases allow abandoned attempts to
\* recover after expiry; connectors_recovery_test.go has unrelated invocations
\* dispatched all the same.
UnrelatedStillServed == PendingIsServed

=============================================================================
