# Agent Comms: specifications, checks and proofs

Agent Comms coordinates AI agents and people on one project. Every change is a
command, signed by the acting principal; an authority (SQLite for one person,
PostgreSQL for a team) validates it against the present state, appends it to a
hash-chained event log and folds it into the state. Each host runs a daemon
that keeps a verified copy of the log, notifies agent runtimes of invocations
and relays commands. Workers claim invocations and run them in provider sessions.
This directory holds TLA+ models of that program, the TLC runs that check them and
the TLAPS proofs about them.

## Inventory

| Part (under `internal/`) | State it keeps | Operations | What makes it correct |
|---|---|---|---|
| `protocol`, `projection`, `model` | tasks, approvals, messages, principals, providers, invocations, deliveries, runtimes, settings | `ValidateTransition` and `ApplyEvent`, one case per event type (~60) | leases, claims and approvals stay exclusive and final whatever the order of events; records agree with each other |
| `personalauthority`, `authority` | event log, head hash, receipts, projection, outbox | `Mutate`: replay, verify, validate, append, apply in one transaction | one total order; a retried command applies once; the chain never forks |
| `localcache` | copy of the log and its fold | `Apply`, `State`, `VerifyRange`, `Rebuild`, drafts | always a verified prefix; gaps refused, repetitions recognised |
| `daemon` | single-flight synchronisations, socket, listeners | relay of commands, coordinator tick, dispatch of deliveries, long polls, shutdown | nobody notified twice over one route; abandoned attempts recover; what is called fresh is |
| `service` | none | builds and signs commands; archive reads, then submits | acts on what is still true |
| `worker` | claims in hand, policy record, session locks, child processes | claim, run, renew, report, cancel; preparation of a provider session | no turn runs under rules nobody restricted; nothing left behind is unaccounted for |
| `claudeserve`, `codexserve` | processes of registered runtimes, one turn at a time | start, register, prompt, restart, cancel, stop | an answer belongs to its prompt; one process drives a conversation; a request ends |
| `interactiveserve` | session records, sockets, live terminals, pending notices | takeover, heartbeats, delivery of notices into a terminal | one session per conversation; a stale record blocks nobody; a notice acknowledged was delivered whole |
| `projectlifecycle`, `durablefs` | project files, databases, journal, backup, lock | upgrade, resumption, backup | a crash between two file operations loses nothing |
| `draftstore` | drafts | save, delete, import, quotas | no draft is lost when the store moves |
| `app`, `cliui`, `tui`, `mcp`, `onboarding`, `doctor`, `runtimeinit`, `identity`, `wasmdemo`, release and platform helpers | files, screens | front ends over the same commands | — |

Parts meet in four ways. Clients submit commands to the authority through the
daemon, and the authority's transaction makes each event atomic. Daemons read
the log into their caches, so whatever a dispatcher, a worker or an archive run
decides rests on a snapshot that may be old. Dispatchers and workers submit commands
of their own and may lose the answers. Time acts on everything: leases (15 min
for tasks, 30 s for attempts), heartbeats (45 s), deadlines, retry times (2 s to
5 min), approval expiries, execution timeouts. Below the protocol, several processes of a host share files, sockets
and provider sessions: commands of different builds upgrade one project, workers
and people use one session, brokers replace one another. The hard behaviour is
therefore in interleavings of stale readers with an atomic log, in reports that
come late, in crashes between two submissions or two file operations, and in
event sequences nobody wrote a test for. `PROJECT.json` lists each such place
with its line, under `hazards`.

## Modules

| Module | Models | Checked by | Proved in |
|---|---|---|---|
| `InvocationLifecycle` | `invocation.*`, `runtime.*`, `agent.revoke` events | `MCInvocation` | `InvocationProofs` |
| `Engagement` | the promise to the one who asks: issued once, taken by at most one runtime, closed for good | refinement, run `worker_turns` | `InvocationProofs` (`Refinement`) |
| `TaskLeases` | `task.*` events with the approvals, blockers and archive runs that move tasks | `MCTaskLeases` | `TaskLeasesProofs` |
| `DeliveryDispatch` | dispatchers (coordinator, handlers) on top of `InvocationLifecycle` | `MCDispatch` | `InvocationProofs` |
| `WorkerTurns` | workers of one runtime on top of `InvocationLifecycle` | `MCWorkerTurns` | `InvocationProofs` |
| `Governance` | principals, their approvals and providers | `MCGovernance` | `GovernanceProofs` |
| `CommandLog` | clients, daemons, synchronisation, cache, authority | `MCCommandLog` | `CommandLogProofs` |
| `SignedLog` | the promise about the history: one order, a command at most once, copies are prefixes, one answer | refinement, run `log_copies` | `CommandLogProofs` (`LogRefinement`) |
| `ProjectUpgrade` | upgrade of a personal project's files by commands of several builds | `MCProjectUpgrade` | `ProjectUpgradeProofs` |
| `LiveSession` | opencode-live workers and the provider session they share with people | `MCLiveSession` | `LiveSessionProofs` |
| `LiveBroker` | Claude and Codex brokers and the processes they drive | `MCLiveBroker` | `LiveBrokerProofs` |
| `InteractiveSession` | runs of `runtime interactive-serve`: start, takeover, session record, socket, heartbeat, notices typed into the terminal | `MCInteractiveSession` | `InteractiveSessionProofs` |

**Protocol modules** (`InvocationLifecycle`, `TaskLeases`, `Governance`). An action
is one event type. Its guard is the `ValidateTransition` case, its primed variables
the `ApplyEvent` case; both run inside one transaction, so one step is faithful.
`invocation`, `delivery`, `runtime`, `task`, `approval`, `principal` and `provider`
are the maps of `model.State`, reduced to the fields that some guard reads or some
property needs. A lease, deadline, heartbeat or expiry is a mark (running, then past)
turned by an action of its own, so events and clocks interleave freely. Times carried
by commands are only bounded by the code, so nothing is lost by letting the mark turn
at any moment.

Some things the code does deserve attention when reading the actions: `task.offer`
is not validated at all (`Offer` has no guard but existence); `Renew` looks only
at the owner; `TakeOver` leaves a pending handoff and the completion time behind;
`Expire` accepts closed invocations; validation reads the stored runtime status,
not the age of the heartbeat; approvals, messages and tasks survive the deletion of
a principal, and the name reserved for a grant (`grant-orchestrator-<p>`) may be
taken by another request, after which nobody can be granted until it is consumed.
They are modelled as they are.

**`DeliveryDispatch`** gives each dispatcher a record `work[x]`: its phase and what
its snapshot says about the invocations it still has to look at. `StartDispatch`
takes the snapshot; `CloseLapsed` is one submission of `expireAttempts`,
`Reserve` and `PassOver` one round of the loop in `Dispatch`, `Deliver` the
connector, the `Report` actions the closing submission; `Redeliver` is the
handler of a manual redelivery. Every submission is judged by the present state
through the very action of `InvocationLifecycle` it submits; when that action is
not enabled the submission is refused and the code's error path is taken.
Submissions may be committed and their answers lost, and a dispatch may end
between any two steps (crash, closed connection, context deadline). A configured
connector may fail or succeed at will; the connectors themselves are external.

**`WorkerTurns`** gives each process of `runtime worker` a record: the submission it
makes next or what it waits for (`pc`), the invocation it is at, and two clocks, how long it has waited
(`timer`) and how long ago it last beat (`last`). It follows `Run` and `execute` of
`worker.go`: it listens, claims, starts, has the agent execute and beats meanwhile, posts the
result, completes, or puts the invocation to `WAITING`. A submission is the action of `InvocationLifecycle` it submits;
it is committed, refused, or committed and its answer lost, and each of the three goes where
that step's error handling goes. All workers serve one runtime, as when a supervisor starts a second
one beside the first. `seen` is the age of the runtime's last heartbeat. Submissions take no
time; listening and executions do, in units of 5 s. People decide
in between: they drain or configure the runtime, cancel, revoke the agent (`Decide`), or take up what
was left to them (`TakeUp`).

**`CommandLog`** has the authority's `log`, a host's `cache`, the daemons `proc` of that host
with the socket file (`endpoint`) they compete for, the synchronisation each has under
way (`flight`) and the requests of clients (`req`). An event is named by its idempotency
key. `Mutate` and `Events` are single transactions of the authority; a flight fetches a
page and applies its events one by one; a request is sent, relayed, answered, applied to
the cache and returned in separate steps, and any of its answers may be lost, come
from a daemon being stopped, or leave the request under way (`late`). `FreshReads` is
about states labelled authoritative, those of joiners of a flight under way among them: it
counts from the beginning of the flight, and permits a joiner to miss what was committed
between that and its own request. Rate limits are retryable refusals, and reads that wait for a flight may
time out.

**`ProjectUpgrade`** has one variable for each file of a project and for what it was
written for, and one step for each durable operation of `Reconcile`; a file and the
journal entry about it are different steps, and `CutShort` may come between any two. A command
that meets a cache too new for it, stamped by the daemon of a newer build meanwhile, ends
and leaves its journal (`RefuseTooNew`).
`rebuilt` tells the schema for which the authority's snapshot was derived from signed
events, apart from the schema stamped on it.

**`LiveSession`** keeps, for every provider session, its rules and marker messages, and
on disk the policy record of each runtime and the owner file of each session. A
worker goes through the steps of `prepareSession`, each a write of the record or a
call of the provider. A killed worker's server lives on in its process group: the
request under way then is in `late` and may be executed at any time.

**`LiveBroker`** has the two brokers in one module, told apart by `protocol`: how an
answer comes back is what they differ in. `slot` is the broker's `Process` object of a
runtime (with `turnMu`, its idea whether its process is dead, and the subscription of its
turn), `process` the operating system's processes, numbered; `client` and `handler`
are the two ends of a worker's request, so that a caller can be gone while its
handler goes on.

**`InteractiveSession`** has the runs (`wrapper`) of `runtime interactive-serve` for one
runtime, each with the provider process it wraps (`child`) and the terminal it types into
(`pty`), and what they share: the runtime's record in the log (`runtime`, with `age`, the
time since its last heartbeat) and the socket file (`path`, which names whoever bound it last).
A run goes through the steps of the command: it reads the record, asks a predecessor to end, waits, kills it,
registers, tries and clears the socket, starts its provider; then it beats and
delivers. A delivery (`call`) has the daemon's side and the run's handler: typing, waiting
for the echo, Enter, and the answer, and the text may be refused or cut short at each of them.

## Runs

All runs pass; `PROJECT.json` lists the properties of each.

- `invocation_routes`: one invocation, two runtimes, two deliveries, a deadline:
  all orders of attempts, lapses, late reports, redeliveries, claims, closing and
  revocation. Routes are exclusive, and notification is evidence of a delivery.
- `worker_turns`: two requests for one runtime of capacity 1 or 2, served by one worker with
  one failure or by two without, and one decision of people. What is taken has a worker on it, a worker
  that serves is shown as online, no heartbeat ends a lone worker or makes it send an invocation
  back but for a decision, a failure, or one before whose answer it missed, what is
  asked is taken, capacity is kept, and `Engagement` is refined.
- `task_leases`: two overlapping tasks, one of them with handoffs, a blocker, both risks
  and archive runs, and one approval for a takeover or a shared write: overlaps are
  governed, what is archived is finished or was taken over, work has an owner, and owners
  change only by a handoff, a takeover or a claim.
- `dispatch_race`: two dispatchers, one interactive runtime, one invocation, three
  deliveries, one of them possibly manual. Nobody delivers the same attempt or uses
  the same route at once while both leases run.
- `dispatch_service`: one dispatcher, interrupted once, two invocations with two
  attempts each. Retry times, recovery of abandoned attempts, service of whatever
  has a route.
- `log_copies`: one command tried twice, another host's commit, two daemons, one
  killed or replaced, every answer possibly lost: refinement of `SignedLog`, and
  the cache catches up.
- `log_reads`: two readers joining synchronisations of two daemons, pages of one
  event: a state labelled authoritative has what was committed before it was asked for.
- `governance`: an owner and two names, an approval for each, one provider: who
  becomes orchestrator, what deletion leaves, what registration needs.
- `upgrade`: a baseline project with drafts, three builds, two commands, two cuts: nothing is
  changed before a complete backup, drafts survive, no build goes back, and a command that keeps being run completes.
- `live_session`: two workers, one session, two markers, one change by people, one
  failure or kill: markers are on record, rules found are recognised, prompts run
  under restricted rules, and an interrupted preparation is recovered.
- `live_broker`: two prompts for one runtime, two brokers one after the other, three processes, two
  faults, and callers that give up at any time: answers belong to their prompts, one
  process per conversation, the configuration registered is the one used, and requests
  end.
- `interactive_session`: two rivals for one runtime with two faults, or one run with two notices
  and one fault: rivals end up with one of them, nobody is stopped except for a rival, a
  stale record blocks nobody, a live session is shown as live, notices are delivered whole.

### Bounds

One invocation is enough for everything said about a single invocation, since its
events read no other except through runtime capacity and dispatch order; both have
runs with two. Two runtimes make a race for a claim, two deliveries one retry and
two concurrent attempts; `MaxDeliveryAttempts` (10 in the code) is 1 or 2, so the
limit is reached. Three deliveries in `dispatch_race` are two automatic attempts and
a manual one. `MaxRedeliveries` and `MaxInterrupts` bound what clients and crashes do.
Identifiers of deliveries are never reused, so their number also bounds a run.

`PageSize` 1 (100 in the code) makes every page boundary an interleaving point, and
two or three events are enough for a flight to be behind, level or overtaken. Two daemons
are one and its successor; with `MaxFaults` 1 either may be killed at any point. In
`governance` each name has one reserved approval, as in the code; two names beside
the owner give one to act and one to be acted on. Three builds are an older one,
one with a new schema of the authority and one with a new schema of the cache; two commands are one that holds the
lock and one that waits or goes on. Two markers are one left behind and one fresh. Three processes
are one, its replacement and one of the next broker.

In `worker_turns` and `interactive_session` a unit of time is five seconds: a heartbeat is at least 2 (10 s)
and normally 3 (15 s, or a worker's 11 s rounded up) after the last, and a runtime is shown as
offline after 45 s: 9 units in `worker_turns`, where waits add up, and 4 in
`interactive_session`, where the order of the three is what matters. A worker listens for 2 (10 s).
Two rivals and two faults, or one run with two
notices and one fault, are separate scenarios of one run.

Most runs switch deadlock checking off: agents may all be revoked, identifiers used up,
and the system at rest. Safety results for all values of these constants come from the
proofs: every invariant of every run has a theorem.

### Fairness

- `DeliveryDispatch`. `WF(Clock)`: time passes, leases lapse and retry times come.
  `WF(DispatchStep(x))`: the coordinator ticks every 500 ms for as long as the daemon
  runs (`runDeliveryCoordinator`), and every step of a dispatch has a timeout. Nothing
  is assumed of clients, of connectors (they may always fail), of answers (they may
  always get lost) or of crashes beyond their bound. Drained runtimes stay drained in
  this module: without strong fairness a route that comes and goes for ever may be
  chosen just before it goes each time.
- `CommandLog`. `WF` of the coordinator's tick and of the steps of a flight; `SF` of
  fetching and applying a page: the tick tries again for ever and the authority is not
  out of reach for ever.
- `ProjectUpgrade`. `WF` of each command's next operation, `SF` of the newest build's
  command beginning with its user's consent: users go on running commands, and each runs to its end
  unless it is cut short, which `MaxFaults` bounds.
- `LiveSession`. `WF` of each worker's steps; `SF` of closing and of starting a worker
  on a runtime: `docs/agent-invocations.md:235` puts workers under a process supervisor.
- `WorkerTurns`. `WF` of the clock, of each worker's next step and of the end of each execution:
  the same supervisor starts workers again, their submissions have timeouts, and so has every
  execution (`worker.go:116`, `:202`). Nothing is assumed of what is refused or decided.
- `LiveBroker`. `WF` of some handler that can proceed, of some reader, and of some
  caller's timeout: handlers and readers are goroutines that wait for nothing else,
  and every execution has a timeout of 1 s to 2 h (`worker.go:116`, `:202`). Nothing is
  assumed of provider processes: they may never answer.
- `InteractiveSession`. `WF` of the clock, of each run's steps and heartbeats (goroutines
  that wait for nothing but timers), and of a provider that ends when it was told to or
  when its terminal is gone. A heartbeat is committed within five seconds unless a fault
  is spent on it. Nothing is assumed of what a provider echoes.

## Proofs

TLAPS proves for every value of the constants:

- `InvocationProofs`, on the protocol: `IInv` is inductive, and with it every invariant
  and action property of `InvocationLifecycle` that a run checks, and the refinement of
  `Engagement`. `IInv` puts the invariants together
  because they need each other: the next attempt number is correct only if the
  earlier ones are numbered without gaps; a failed attempt restores the right status
  only if notification is evidence of a delivery; the capacity argument needs claims
  to name runtimes.
- `InvocationProofs`, on dispatchers: every step of dispatchers, clients and clocks is a step
  of `InvocationLifecycle` or leaves its variables alone (`DispatchImplementsLifecycle`),
  so all that is proved of the protocol holds of it with any number of dispatchers.
  That deliveries are disjoint follows from exclusive routes and two facts about what
  dispatchers hold: it is an attempt at the invocation in hand (`HeldIsIssued`), and each
  attempt is held by the one that reserved it (`HeldByOne`). Least identifiers exist
  because the naturals are well founded (`LeastIsMember`). With one dispatcher retry times are
  kept: whatever is ahead for an invocation still to be looked at was in the snapshot, or belongs
  to an attempt this dispatch closed itself (`RetriesSeen`). Two dispatchers may disagree
  about a retry time, so the theorem assumes one.
- `InvocationProofs`, on workers: steps of workers are steps of the protocol
  (`WorkersFollowProtocol`), which gives capacity and the refinement of `Engagement`.
  `NothingAbandoned` needs to know whose an invocation is: the step a worker is at says what the
  invocation in hand may have become (`HandsMatch`, `HandsFit`), no two workers have taken the same one
  (`OneHand`), and all are asked of the served agent (`OwnTargets`). All that others do to a
  taken invocation is to close it, which no step of its worker mistakes for progress.
  `TurnedAwayForCause` rests on what a process knows (`Noting`): unless it missed an answer
  (`unheard`, a history the actions never read), its `last` is the age of the runtime's heartbeat
  for as long as the next one would be too soon, from its start (it reckons a recent heartbeat as
  its own) through every step (`TurnNotes`) and the passage of time. So a heartbeat it submits is
  not too soon, and what else the authority asks of one holds of a runtime in service
  (`RefusedBeat`). The exception is real: after a committed heartbeat whose answer is lost,
  `lastHeartbeat` (`worker.go:353`) stays as it was, the next submission within 10 s is refused,
  and an invocation that was just started is moved to `WAITING`.
  `ShownWhileServing` is a matter of numbers: a claim that is refused (the invocation was cancelled
  between being found and being claimed) begins the wait for the next one anew, without a
  heartbeat, so that enough cancellations at the right moments make a worker look offline.
  `LoneWorkersStayShown` therefore assumes `FewDecisions`: two intervals between writes and
  one listening window for each decision fit into the time after which a record is offline,
  which allows two decisions with the code's 10, 11 and 45 s. `ShownInv` says how old the
  heartbeat may be at each step of the worker (`ShownAt`), the bound growing by a window with
  each decision spent (`Spare`, `Latest`). The run's instance satisfies the assumption (8 of its 9
  units are needed); with 7 units TLC finds a worker that looks offline.
- `TaskLeasesProofs`: every invariant and action property of the task
  run. Each step is summed up by what it may do to one task (`Effect`) and to one
  approval (`ApprovalKept`); the invariant follows from these summaries.
  `OverlapIsGoverned` is not inductive by itself: a claim is refused by tasks that are
  owned and not archived, so one also needs that work has an owner
  (`WorkHasOwner`), that only completed tasks are archived or about to be, and that a
  completed task is worked on again only after a takeover (`ArchiveFollowsCompletion`),
  for which owners must never be removed (`HistoryHasOwner`).
- `GovernanceProofs`: `GovInv` (types, one owner, providers registered before those
  who are named after them, decisions that stand for the approvals and for the role they gave)
  is inductive; it gives the run's properties, `PromotionsAreDecided` among them.
- `CommandLogProofs`: the log has no key twice, the cache is a prefix of it, a flight's
  marks lie between the cache and the log, and what a request was answered is its place;
  from that `FreshReads` and the refinement of `SignedLog`.
- `ProjectUpgradeProofs`: `UpgradeInv` relates each stage of the journal to the files
  (`StepsMatchStage`), the backup to what was there before (`BackupMatches`), the
  drafts in two places to what the user wrote (`DraftsMove`), the holder of the lock to
  what it found (`HolderAdmitted`), and says that nothing is used before it is
  stamped (`StampedBeforeUse`). The lock keeps a manifest and an authority from becoming newer than its
  holder; a cache can, since daemons start without the lock, and is the only reason for which a
  command at work is refused (`OnlyCachesBecomeTooNew`).
- `LiveSessionProofs`: `SessionInv` has a part for each thing on disk that must agree
  with the provider: locks (`LocksHeld`), owner files (`OwnersKept`), the step a worker
  is at (`InStep`), rules it read (`RulesSeen`) and rules the record expects
  (`RulesExpected`), markers (`MarkersSwept`, `MarkersAccounted`) and the rules the session
  came with (`OriginalsKept`). `KindsOfSteps` sums up the many steps as a few kinds, and each part
  is shown once per kind.

- `LiveBrokerProofs`: `BrokerInv` says where handlers are and which lock they hold (`HandlersPlaced`,
  `HandshakesLock`, `TurnsHeld`), how processes are numbered and that only the last one of a
  `Process` object can be alive (`ProcessesNumbered`, `LastIsAlive`, `EndsKnown`), that what is
  in the pipes of a Claude process belongs to the turn that reads it (`PipesClean`), that turns of two
  runtimes share nothing (`RuntimesApart`), and that an accepted configuration is not replaced
  (`AcceptedStays`). A broker that was killed may leave a living process behind: it is counted
  with that broker, and there is one at most. Of `RequestsEnd` two theorems prove all but fairness:
  what a handler waits for once its caller has gone can go on (`HandlersNeverStuck`), and each step it
  then takes brings it closer to its end (`RequestsOnlyEnd`, by the measure `Left`).
- `InteractiveSessionProofs`: `SessionInv` has the record of each run (`WrappersBegin`,
  `RuntimeKnown`), the terminal (one handler writes, `OneWrites`; the line is what it typed,
  `LinesWritten`; what was submitted with a delivered notice does not count as delivered,
  `SentWhole`) and heartbeats: while the record shows a run, the last accepted heartbeat is
  at least as old as its own last tick (`OwnBeatShown`). So a
  refusal is always a rival's or an operator's doing (`StopsOnlyForRival`).

Also proved, though no run checks them any more: automatic attempts are bounded, a migration was
confirmed by a user, a revoked agent's work is only closed or reported on by others, records are linked, closed work
stays closed, revocation sticks, attempts are numbered, claims are unique, active
lists name assigned work, handoffs are the owner's or stale, approvals are final, and
the types of dispatchers, of workers, of governance, of invocations, of the log, of upgrades, of
live and interactive sessions and of brokers.

Assumptions are the `ASSUME`s beside the constants: agents are principals, the owner
is not an agent, identifiers are finite sets, schemas grow with builds, `None` is no
value. TLC evaluates them in each run.

Only model-checked is liveness, which the prover cannot do: `AttemptsConclude`, `PendingIsServed`,
`OpenIsTaken`, `CacheCatchesUp`, `UpgradeCompletes`, `RecoveryCompletes`, `RequestsEnd`,
`RivalsResolve`, `StaleNeverBlocks`, `SessionIsShown`.

## Observations

Where a document, a comment or a test says something that the code does not keep, the
module has the statement as a property and a configuration in which TLC finds a
counterexample (`tlc -config X.cfg` on the MC module of the component).

| Configuration, property | What the code does | What is said |
|---|---|---|
| `InvocationExpiry`, `TerminalStatusFinal` | `invocation.expire` (`transitions.go:1348`) looks at the deadline and not at the status: a completed, rejected or cancelled invocation becomes `EXPIRED`. | `docs/agent-invocations.md:9`: "and a terminal state" |
| `InvocationPresence`, `ClaimsNeedPresence` | A claim (`transitions.go:1276`) reads the stored status of its runtime, which stays `ONLINE` when heartbeats stop; only snapshots are corrected. | `docs/agent-invocations.md:881`: "An online runtime becomes offline when its heartbeat is older than 45 seconds." |
| `TaskTakeoverOverlap`, `OverlapNeedsException` | A takeover (`transitions.go:914`) needs an approval and looks at no other task, so that it makes a second writer. | `docs/governance.md:65`: "Overlapping write resources are rejected unless a governed shared-write exception exists." |
| `TaskWorktree`, `WorktreeHeldByOne` | A renewal (`transitions.go:888`) checks the owner alone: it revives a lapsed lease on a worktree that somebody else has claimed since. | `docs/agent-comms-feedback-2026-08-06.md:44`: "genuinely acquires a time-boxed lock with real conflict detection" |
| `DispatchLapsed`, `LapsedClosedFirst` | Lapsed attempts are closed at the start of a dispatch (`connectors.go:336`); one that lapses during it is retried beside the record that is still `ATTEMPTED`. | `docs/site/operations/recovery.md:32`: "After a daemon crash, an expired attempt is recorded as timed out before retry." |
| `DispatchBlocked`, `UnrelatedStillServed` | An expiry that is refused ends the dispatch (`connectors.go:497`), and every later one: the attempt of a revoked target blocks all others. | `connectors_recovery_test.go:101`, `TestDispatcherExpiryStillDispatchesUnrelatedInvocation`: "recovery prevented unrelated work" |
| `WorkerFailures`, `FailuresWait` | A claim, a start or a wait whose answer is lost is only reported (`worker.go`), and the worker listens on: the invocation stays `CLAIMED` or `RUNNING`, and its runtime's capacity used, as after a kill. | `docs/agent-invocations.md:476`: "Any execution or publication failure moves the invocation to `WAITING` with an auditable reason" |
| `OneDaemon`, `OneDaemon` | `ListenLocal` (`listener_unix.go:18`) dials, removes and binds the socket file with nothing in between kept out: two daemons may serve. | `docs/architecture.md:16`: "A per-project daemon is the sole writer to an authoritative SQLite WAL database." |
| `Standing`, `StandingKept` | `agent.activate` (`transitions.go:590`) lets an agent that orchestrates activate another orchestrator in a custom role. | `transitions.go:748`: "must not be able to unilaterally strip another orchestrator or a human of standing to entrench itself" |
| `UpgradeStamp`, `StampedMeansRebuilt` | A daemon of the older build is launched (`cmd_misc.go:430`) after the upgrade stopped the one before, and writes its snapshot before or after the stamp. | `engine.go:80`: "state_json was rebuilt from signed history with event-derived timestamps, which only `project upgrade` does" |
| `OutsideRules`, `OutsideRulesKept` | The reset that begins a preparation (`opencode_policy_state.go:304`) replaces rules changed since they were read. | `docs/agent-invocations.md:441`: "Unknown externally modified rules fail closed and require operator reconciliation; they are not silently discarded" |
| `CodexAnswers`, `AnswersAreOwn` | A codex turn whose subscription is cut off because it is read slowly (`process.go:457`) fails without stopping its process; the next turn takes its answer. | `codexserve/process.go:44`: "Send is single-flight" |
| `InteractiveRivals`, `OneSession` | `listenLocal` (`protocol_unix.go:34`) dials, removes and binds with nothing in between kept out: two runs may wrap one conversation. | `protocol_unix.go:23`: "refusing to start if another live process already owns it" |
| `InteractiveSocket`, `ServedIsDialable` | A run that ends removes the socket file, whoever has bound it since. | `interactiveserve.go:14`: "so "is this runtime live" is simply "can I dial its socket,"" |
| `InteractiveEcho`, `EchoIsOwn` | `echoed` (`matcher.go:250`) is content with 30 % of the words, or three pairs in order, which all notices share: what is left of the notice before counts as the echo of the next. | `docs/agent-invocations.md:702`: "Success is recorded only after the PTY echoes the complete text" |
| `InteractiveGlued`, `NothingGlued` | Text that was typed but whose echo did not come stays in the line, and the next delivery is submitted with it. | `docs/agent-invocations.md:732`: "used to land glued onto an earlier, not-yet-submitted delivery" |

## Not modelled

- Policies, scopes and bound approvals as conditions for a request (every request they
  might admit is enumerated); text, paths, signatures and hashes.
- Messages other than blockers, documents and settings: records that one event writes
  and no other transition reads.
- Of the log: the outbox (a notification nobody listens to), quotas, `Rebuild` of a
  cache (no caller), errors of `Cache.Apply` other than a gap, and how fresh a state is for a
  caller that joins a synchronisation under way: it may lack what was committed since that one
  began. `ValidateRuntime` reads a configuration file of the
  host, so the retry of a committed runtime command may be refused where the model
  answers it. A deleted project's pages are empty, and are labelled authoritative.
- Of governance: key rotation and elevated keys, display names.
- Of upgrades: service mode, several projects at a time, pruning of old backups, a power
  failure that loses an unsynchronised directory, and `daemon serve` run by hand on a
  baseline project, which stamps the database without rebuilding it. A refused daemon has
  opened the local cache (`daemon/run.go:76`) before it gives up, and a daemon that does not
  answer is not stopped; both are left out.
- Of live sessions: creation of a session by a request that is executed late, deletion of
  sessions, the turn of a server whose worker is gone, and the classification of
  permission requests during a turn. A late request counts as a change from outside, so that what
  it creates or appends is exempt from `MarkersAccounted` and `PromptsRestricted`; a session the
  worker creates starts without rules.
- Of live brokers: viewers of the event stream; codex threads and the file that keeps
  them; prompts larger than the pipe; a reader that blocks on the full channel of a
  process nobody reads any more, and lines longer than its buffer. A prompt may be executed twice by design
  (`TestProcessRetriesAfterAcknowledgedTurnCrashes`). A registration accepted by one
  broker says nothing about the next one, which may run the prompt under another
  configuration.
- Of interactive sessions: the Windows variant (ConPTY), pinning of conversations
  (`sessionbind`), what people type, helper processes that keep a terminal open, and a takeover
  that fails because the other session does not exit.
- Of workers and interactive sessions: a start that decides on a cached state. `Begin` and `Read`
  take the present one. The number of runtimes a project may have is not limited.
- The components marked `not_modelled` in `PROJECT.json`, with the reason there. Front
  ends translate input to commands.
