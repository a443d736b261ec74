---------------------------- MODULE WorkerTurns ----------------------------
(***************************************************************************)
(* Workers at work on the protocol of InvocationLifecycle: `runtime        *)
(* worker' (internal/worker/worker.go) listens for an invocation, claims   *)
(* and starts it, has an agent execute it, publishes the result and        *)
(* completes it, and shows its runtime as online all the while.  Each step *)
(* is a submission of its own, judged by the present state of the          *)
(* authority; what is refused, or whose answer is lost, takes the error    *)
(* path of that step.                                                      *)
(*                                                                         *)
(* All workers serve one runtime: a supervisor starts them again whenever  *)
(* they end, and may start a second one beside the first.  Submissions     *)
(* take no time; listening and executions do.  A unit of time is 5 s.      *)
(***************************************************************************)
EXTENDS InvocationLifecycle

CONSTANTS
  Workers,        \* processes that run the command
  Actor, Served,  \* the agent and the runtime they run it for
  MinInterval,    \* controlplane.MinHeartbeatInterval, 10 s
  WriteInterval,  \* heartbeatWriteInterval and heartbeatInterval, 11 s
  ListenWait,     \* MaxInvocationListen, 10 s
  OfflineAfter,   \* RuntimeOfflineAfter, 45 s
  Scenarios       \* bound: which workers and requests there are in a behaviour, how
                  \* many failures and how many decisions of people

ASSUME ServedAssumption ==
  /\ Actor \in Agents /\ Served \in Runtimes
  /\ "PULL" \in Connectors /\ "NONE" \in Deadlines

\* An agent that heard of nothing beats before it is taken for gone.
ASSUME IntervalAssumption ==
  /\ MinInterval \in Nat \ {0} /\ WriteInterval \in Nat /\ ListenWait \in Nat /\ OfflineAfter \in Nat
  /\ MinInterval < WriteInterval /\ ListenWait + WriteInterval < OfflineAfter

ASSUME ScenarioAssumption ==
  Scenarios \subseteq [runs : SUBSET Workers, asked : SUBSET Invocations, faults : Nat, decisions : Nat]

VARIABLES
  seen,      \* time since the runtime's LastSeenAt
  worker,    \* worker[w]: where the process is, and with what
  scenario,  \* what may still happen
  calm       \* no failure so far

workerVars == <<vars, seen, worker, scenario, calm>>

Longest == IF ListenWait < WriteInterval THEN WriteInterval ELSE ListenWait

Submitting ==
  {"HELLO", "IDLE", "CLAIM", "START", "TURN", "FOLLOW", "POST", "COMPLETE", "LAST", "WAIT", "WAITBEAT"}

Process ==
  [pc : {"DOWN", "LISTEN", "RUN"} \cup Submitting, at : Invocations \cup {None},
   timer : 0..Longest, last : 0..WriteInterval, unheard : BOOLEAN]

WorkerTypeOK ==
  /\ TypeOK
  /\ seen \in 0..OfflineAfter
  /\ worker \in [Workers -> Process]
  /\ scenario \in [runs : SUBSET Workers, asked : SUBSET Invocations, faults : Nat, decisions : Nat]
  /\ calm \in BOOLEAN

\* last: time since the worker's own last heartbeat, or long enough.  unheard (for
\* the properties alone): a later one was written whose answer the worker missed.
Down == [pc |-> "DOWN", at |-> None, timer |-> 0, last |-> WriteInterval, unheard |-> FALSE]

WorkerInit ==
  /\ invocation = [i \in Invocations |-> AbsentInvocation]
  /\ delivery = [d \in Deliveries |-> AbsentDelivery]
  /\ revoked = {}
  /\ \E max \in Capacities : runtime = [r \in Runtimes |->
       IF r = Served THEN [AbsentRuntime EXCEPT !.status = "OFFLINE", !.agent = Actor, !.max = max]
       ELSE AbsentRuntime]
  /\ seen = OfflineAfter
  /\ worker = [w \in Workers |-> Down]
  /\ scenario \in Scenarios
  /\ calm = TRUE

-----------------------------------------------------------------------------
(* Submissions *)

Fault ==
  /\ scenario.faults > 0
  /\ scenario' = [scenario EXCEPT !.faults = @ - 1]
  /\ calm' = FALSE

\* The worker's next step: it listens, or is gone, with nothing in hand.
Moved(w, step) ==
  CASE step = "DOWN" -> Down
    [] step = "LISTEN" -> [worker[w] EXCEPT !.pc = step, !.at = None, !.timer = 0]
    [] OTHER -> [worker[w] EXCEPT !.pc = step, !.timer = 0]

Goto(w, step) == worker' = [worker EXCEPT ![w] = Moved(w, step)]

\* Service.Execute: the event is committed, or refused, or its answer is lost
\* after every retry, be it committed or not.
Submit(w, allowed, Event, done, failed) ==
  /\ UNCHANGED seen
  /\ \/ Event /\ Goto(w, done) /\ UNCHANGED <<scenario, calm>>
     \/ ~allowed /\ Goto(w, failed) /\ UNCHANGED <<vars, scenario, calm>>
     \/ (Event \/ UNCHANGED vars) /\ Goto(w, failed) /\ Fault

TooSoon == runtime[Served].status = "ONLINE" /\ seen < MinInterval

BeatAllowed(active) == ~TooSoon /\ MayBeat(Actor, Served, None, active)

Beat(active) == ~TooSoon /\ RuntimeHeartbeat(Actor, Served, None, active) /\ seen' = 0

\* Mutant: what the worker knows of its last heartbeat is not brought up to date.
BeatenUnnoted(w, step) == worker' = [worker EXCEPT ![w] = [Moved(w, step) EXCEPT !.unheard = FALSE]]

\* The worker notes when the heartbeat was written, unless it missed the answer.
Beaten(w, step) == worker' = [worker EXCEPT ![w] = [Moved(w, step) EXCEPT !.last = 0, !.unheard = FALSE]]

Unheard(w, step) == worker' = [worker EXCEPT ![w] = [Moved(w, step) EXCEPT !.unheard = step # "DOWN"]]

\* Worker.heartbeat: nothing is submitted within heartbeatWriteInterval of the
\* worker's own last one.
Heartbeat(w, active, done, failed) ==
  \/ /\ worker[w].last < WriteInterval
     /\ Goto(w, done)
     /\ UNCHANGED <<vars, seen, scenario, calm>>
  \/ /\ worker[w].last = WriteInterval
     /\ \/ Beat(active) /\ Beaten(w, done) /\ UNCHANGED <<scenario, calm>>
        \/ Beat(active) /\ Unheard(w, failed) /\ Fault
        \/ Goto(w, failed) /\ Fault /\ UNCHANGED <<vars, seen>>
        \/ ~BeatAllowed(active) /\ Goto(w, failed) /\ UNCHANGED <<vars, seen, scenario, calm>>

At(w, step) == worker[w].pc = step

-----------------------------------------------------------------------------
(* Worker.Run *)

\* A heartbeat of less than MinHeartbeatInterval ago counts as the worker's own.
Begin(w) ==
  /\ At(w, "DOWN") /\ w \in scenario.runs
  /\ Presence(Served) \notin {"DRAINING", "REVOKED"}
  /\ worker' = [worker EXCEPT ![w] =
       [Down EXCEPT !.pc = "HELLO", !.last = IF seen < MinInterval THEN seen ELSE WriteInterval]]
  /\ UNCHANGED <<vars, seen, scenario, calm>>

Hello(w) == At(w, "HELLO") /\ Heartbeat(w, {}, "LISTEN", "DOWN")

\* Mutant: a runtime with work in hand is offered nothing.
OfferedIdle ==
  {i \in Invocations : /\ Presence(Served) = "ONLINE" /\ Load(Served) = {}
                       /\ Unclaimed(i) /\ Eligible(i, Served)}

\* SelectNextInvocation, on a snapshot that shows old heartbeats as offline.
Offered ==
  {i \in Invocations : /\ Presence(Served) = "ONLINE" /\ HasCapacity(Served)
                       /\ Unclaimed(i) /\ Eligible(i, Served)}

Found(w) ==
  /\ At(w, "LISTEN")
  /\ \E i \in Offered : worker' = [worker EXCEPT ![w].pc = "CLAIM", ![w].at = i, ![w].timer = 0]
  /\ UNCHANGED <<vars, seen, scenario, calm>>

\* The window ends without an invocation, or listening fails and Run with it.
NothingFound(w) ==
  /\ At(w, "LISTEN")
  /\ \/ worker[w].timer = ListenWait /\ Offered = {} /\ Goto(w, "IDLE") /\ UNCHANGED <<scenario, calm>>
     \/ Goto(w, "DOWN") /\ Fault
  /\ UNCHANGED <<vars, seen>>

\* Mutant: only work is a reason to beat.
IdleSilently(w) ==
  /\ At(w, "IDLE")
  /\ Goto(w, "LISTEN")
  /\ UNCHANGED <<vars, seen, scenario, calm>>

IdleBeat(w) == At(w, "IDLE") /\ Heartbeat(w, {}, "LISTEN", "DOWN")

-----------------------------------------------------------------------------
(* Worker.process: the error of a step is reported, and the worker listens on *)

Claiming(w) ==
  /\ At(w, "CLAIM")
  /\ Submit(w, MayClaim(Actor, worker[w].at, Served), Claim(Actor, worker[w].at, Served), "START", "LISTEN")

Starting(w) ==
  /\ At(w, "START")
  /\ Submit(w, MayMove(Actor, worker[w].at, {"CLAIMED"}), Start(Actor, worker[w].at), "TURN", "LISTEN")

\* Mutant: the error is returned, as those of the steps before are.
TurnBeatOrLeave(w) == At(w, "TURN") /\ Heartbeat(w, {worker[w].at}, "RUN", "LISTEN")

TurnBeat(w) == At(w, "TURN") /\ Heartbeat(w, {worker[w].at}, "RUN", "WAIT")

\* heartbeatLoop: a failure is only reported.
LoopBeat(w) ==
  /\ At(w, "RUN") /\ worker[w].timer = WriteInterval
  /\ Heartbeat(w, {worker[w].at}, "RUN", "RUN")

\* The agent's execution ends with an error or its timeout, with a follow-up to
\* request, or with a plain result.
TurnEnds(w) ==
  /\ At(w, "RUN")
  /\ \E next \in {"WAIT", "FOLLOW", "POST"} : Goto(w, next)
  /\ UNCHANGED <<vars, seen, scenario, calm>>

\* executeInvocationAction: policy and validation may refuse what the agent wrote.
FollowUp(w) ==
  /\ At(w, "FOLLOW")
  /\ \E next \in {"WAIT"} \cup IF Active(Actor) THEN {"POST"} ELSE {} : Goto(w, next)
  /\ UNCHANGED <<vars, seen, scenario, calm>>

\* message.post asks for an active author; the completion names the message.
Post(w) == At(w, "POST") /\ Submit(w, Active(Actor), Active(Actor) /\ UNCHANGED vars, "COMPLETE", "WAIT")

Completing(w) ==
  /\ At(w, "COMPLETE")
  /\ Submit(w, MayMove(Actor, worker[w].at, {"RUNNING", "WAITING"}), Complete(Actor, worker[w].at), "LAST", "WAIT")

LastBeat(w) == At(w, "LAST") /\ Heartbeat(w, {}, "LISTEN", "LISTEN")

\* Worker.wait
Waiting(w) ==
  /\ At(w, "WAIT")
  /\ Submit(w, MayMove(Actor, worker[w].at, {"RUNNING"}), Wait(Actor, worker[w].at), "WAITBEAT", "LISTEN")

WaitBeat(w) == At(w, "WAITBEAT") /\ Heartbeat(w, {worker[w].at}, "LISTEN", "LISTEN")

Kill(w) ==
  /\ ~At(w, "DOWN")
  /\ Goto(w, "DOWN") /\ Fault
  /\ UNCHANGED <<vars, seen>>

-----------------------------------------------------------------------------
(* Everything else *)

\* Nobody is late: submissions and answers to what is offered take no time.
Tick ==
  /\ \A w \in Workers :
       \/ At(w, "DOWN")
       \/ At(w, "LISTEN") /\ worker[w].timer < ListenWait /\ Offered = {}
       \/ At(w, "RUN") /\ worker[w].timer < WriteInterval
  /\ seen' = IF seen < OfflineAfter THEN seen + 1 ELSE seen
  /\ worker' = [w \in Workers |->
       IF At(w, "DOWN") THEN worker[w]
       ELSE [worker[w] EXCEPT !.timer = @ + 1, !.last = IF @ < WriteInterval THEN @ + 1 ELSE @]]
  /\ IF seen' = OfflineAfter /\ runtime[Served].heartbeat = "RECENT"
     THEN HeartbeatGrowsOld(Served) ELSE UNCHANGED vars
  /\ UNCHANGED <<scenario, calm>>

Ask(i) ==
  /\ i \in scenario.asked
  /\ \E consumer \in ConsumerModes : Request(Owner, i, Actor, consumer, None, "NONE")
  /\ scenario' = [scenario EXCEPT !.asked = @ \ {i}]
  /\ UNCHANGED <<seen, worker, calm>>

\* What people do meanwhile, with the runtime, the agent and its invocations.
Decision ==
  \/ RuntimeDrain(Owner, Served)
  \/ \E max \in Capacities : RuntimeConfigure(Actor, Served, "PULL", max)
  \/ \E i \in Invocations : Cancel(Owner, i)
  \/ RevokeAgent(Owner, Actor)

Decide ==
  /\ scenario.decisions > 0
  /\ scenario' = [scenario EXCEPT !.decisions = @ - 1]
  /\ Decision
  /\ UNCHANGED <<seen, worker, calm>>

\* What was left to people is taken up by them.
TakeUp ==
  /\ \/ RuntimeResume(Owner, Served)
     \/ \E i \in Invocations : invocation[i].status = "WAITING" /\ Complete(Actor, i)
  /\ UNCHANGED <<seen, worker, scenario, calm>>

WorkerStep(w) ==
  \/ Begin(w) \/ Hello(w) \/ Found(w) \/ NothingFound(w) \/ IdleBeat(w)
  \/ Claiming(w) \/ Starting(w) \/ TurnBeat(w) \/ LoopBeat(w) \/ TurnEnds(w)
  \/ FollowUp(w) \/ Post(w) \/ Completing(w) \/ LastBeat(w) \/ Waiting(w) \/ WaitBeat(w)

WorkerNext ==
  \/ \E w \in Workers : WorkerStep(w) \/ Kill(w)
  \/ Tick
  \/ \E i \in Invocations : Ask(i)
  \/ Decide
  \/ TakeUp

\* Time passes, a supervisor keeps workers running, and executions have timeouts.
WorkerFairness ==
  /\ WF_workerVars(Tick)
  /\ \A w \in Workers : WF_workerVars(WorkerStep(w)) /\ WF_workerVars(TurnEnds(w))

WorkerSpec == WorkerInit /\ [][WorkerNext]_workerVars /\ WorkerFairness

-----------------------------------------------------------------------------
(* Safety *)

AtWork(i) == \E w \in Workers : worker[w].at = i /\ ~At(w, "CLAIM")

Abandoned == {i \in Invocations : invocation[i].status \in {"CLAIMED", "RUNNING"} /\ ~AtWork(i)}

Lone == \E w \in Workers : scenario.runs = {w}

\* Where no answer is lost and nobody is killed, no refusal of any step leaves
\* an invocation taken with no worker on it: neither that of a heartbeat, because
\* another worker beat just before or the runtime is being drained, nor that of
\* the result.
NothingAbandoned == calm /\ Active(Actor) => Abandoned = {}

\* A worker that runs alone is never shown as offline, whether it listens,
\* works, or skips a heartbeat because one was just written.
ShownWhileServing ==
  calm /\ Lone => \A w \in Workers :
    ~At(w, "DOWN") /\ ~At(w, "HELLO") => runtime[Served].heartbeat # "OLD"

\* A heartbeat ends the worker, or makes it send back what it has started.
TurnedAway(w) ==
  \/ worker[w].pc \in {"HELLO", "IDLE"} /\ At(w, "DOWN")'
  \/ At(w, "TURN") /\ At(w, "WAIT")'

\* Nor does a heartbeat of a worker that runs alone end it, or send an invocation
\* back, unless people took the runtime out of service, the step itself fails, or it
\* comes too soon after one whose answer it missed: none comes too soon after its
\* own or those of the process it replaces, in whatever order it listens, works, is
\* killed and restarted, and none names work the authority has given to another.
TurnedAwayForCause ==
  [][Lone => \A w \in Workers : TurnedAway(w) =>
       \/ runtime[Served].status \in {"DRAINING", "REVOKED"}
       \/ scenario'.faults < scenario.faults
       \/ worker[w].unheard /\ TooSoon]_workerVars

(* Liveness *)

\* A pending invocation is taken, if the runtime has room for it and is in service.
OpenIsTaken ==
  \A i \in Invocations :
    invocation[i].status = "PENDING" ~>
      \/ invocation[i].status # "PENDING"
      \/ ~HasCapacity(Served)
      \/ runtime[Served].status \in {"DRAINING", "REVOKED"}

-----------------------------------------------------------------------------
(* What the documentation says and the code does not do *)

\* docs/agent-invocations.md: any execution or publication failure moves the
\* invocation to WAITING; so none stays taken without a worker.
FailuresWait == Active(Actor) => Abandoned = {}

=============================================================================
