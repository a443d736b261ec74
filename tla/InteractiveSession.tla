------------------------- MODULE InteractiveSession -------------------------
(***************************************************************************)
(* `runtime interactive-serve' (internal/app/cmd_runtime.go and            *)
(* internal/interactiveserve): a wrapper runs a provider in a terminal of  *)
(* its own, shows its runtime as online by a heartbeat, and listens on the *)
(* runtime's socket, where the daemon asks it to type a notice.            *)
(*                                                                         *)
(* The command may be run several times for one runtime, at once or one    *)
(* after the other, and may take over an earlier one.  Nothing but the     *)
(* record in the log, the socket file and the time between heartbeats      *)
(* keeps the wrappers apart.  Each run is a member of Wrappers and is the  *)
(* endpoint it reports.  A unit of time is five seconds.                   *)
(***************************************************************************)
EXTENDS Integers

CONSTANTS
  Wrappers,      \* runs of the command, for one runtime
  Notices,       \* deliveries the daemon makes to the runtime
  Takeovers,     \* triples <<w, kind, v>>: w may take over v, or v's provider
  MinInterval,   \* MinHeartbeatInterval, 10 s
  Period,        \* interactiveHeartbeatInterval, 15 s
  OfflineAfter,  \* RuntimeOfflineAfter, 45 s
  Scenarios,     \* bound: which runs and deliveries there are in a behaviour, and how
                 \* many failures, kills and decisions of an operator
  Stale,         \* the endpoint, and the socket file, of a run that crashed earlier
  None

ASSUME TakeoversAreOfOthers ==
  Takeovers \subseteq {t \in Wrappers \X {"WRAPPER", "PROVIDER"} \X Wrappers : t[1] # t[3]}

ASSUME ScenariosAreRecords ==
  Scenarios \subseteq [runs : SUBSET Wrappers, asked : SUBSET Notices, faults : Nat]

\* A session's own heartbeats are accepted, and those of two do not both fit.
ASSUME HeartbeatsAreTimed ==
  /\ MinInterval \in Nat /\ Period \in Nat /\ OfflineAfter \in Nat
  /\ MinInterval < Period /\ Period < 2 * MinInterval /\ Period < OfflineAfter

ASSUME NamesDiffer == {Stale, None} \cap (Wrappers \cup Notices) = {} /\ Stale # None

VARIABLES
  runtime,  \* the runtime's record: status and endpoint
  age,      \* time since the last heartbeat was accepted, while it is ONLINE
  path,     \* whose socket the file names
  wrapper,  \* where each wrapper is
  child,    \* its provider process
  pty,      \* its terminal
  call,     \* each delivery: the daemon's side and the wrapper's handler
  scenario  \* the runs and deliveries still to come, the failures left

sessions == <<path, wrapper, child, pty>>
vars == <<runtime, age, sessions, call, scenario>>

Statuses == {"ABSENT", "OFFLINE", "ONLINE", "DRAINING", "REVOKED"}
Record == [status : Statuses, endpoint : Wrappers \cup {Stale, None}]

Starting == {"TAKEOVER", "ASKED", "READ", "REGISTER", "PROBE", "CLEAR", "BEAT"}
Serving == {"LISTEN", "REMOVE", "BIND", "SPAWN", "SERVE", "STOP", "UNLINK", "CLOSE"}
Ended == {"DONE", "DEAD"}
Steps == {"IDLE"} \cup Starting \cup Serving \cup {"LEAVE"} \cup Ended

TypeOK ==
  /\ runtime \in Record
  /\ age \in 0 .. OfflineAfter
  /\ path \in Wrappers \cup {Stale, None}
  /\ wrapper \in [Wrappers ->
       [pc : Steps, saw : Record, target : Takeovers \cup {None},
        open : BOOLEAN, lost : BOOLEAN, timer : 0 .. Period]]
  /\ child \in [Wrappers -> {"NONE", "RUNNING", "GONE"}]
  /\ pty \in [Wrappers ->
       [line : SUBSET Notices, screen : SUBSET Notices, busy : BOOLEAN, writer : Notices \cup {None}]]
  /\ call \in [Notices ->
       [client : {"NEW", "WAITING", "OK", "FAILED"}, via : Wrappers \cup {None}, sent : SUBSET Notices,
        handler : {"NONE", "ACCEPTED", "IDLE", "ECHO", "DONE", "REFUSED"}]]
  /\ scenario \in [runs : SUBSET Wrappers, asked : SUBSET Notices, faults : Nat]

----------------------------------------------------------------------------
(* The runtime's record *)

Offline == [status |-> "OFFLINE", endpoint |-> None]

\* A snapshot shows an old heartbeat as offline; the stored record stays.
Snapshot == IF runtime.status = "ONLINE" /\ age = OfflineAfter THEN Offline ELSE runtime

\* Mutant: the interval is the one the wrappers keep.
HeartbeatOncePerPeriod ==
  /\ runtime.status \in {"OFFLINE", "ONLINE"}
  /\ runtime.status = "ONLINE" => age > Period

\* Whatever endpoint it names.
HeartbeatAllowed ==
  /\ runtime.status \in {"OFFLINE", "ONLINE"}
  /\ runtime.status = "ONLINE" => age >= MinInterval

\* Mutant: the endpoint stays the one that was known.
ShowUnnamed(w) == runtime' = [runtime EXCEPT !.status = "ONLINE"] /\ age' = 0

Show(w) == runtime' = [status |-> "ONLINE", endpoint |-> w] /\ age' = 0

\* runtime.offline with endpoint e: an online record is taken down by its own.
OfflineAllowed(e) ==
  /\ runtime.status \in {"OFFLINE", "ONLINE", "DRAINING"}
  /\ runtime.status = "ONLINE" => runtime.endpoint = e

TakeDown == runtime' = Offline /\ age' = 0

----------------------------------------------------------------------------
(* The socket and the processes *)

\* A connection is made when the file names a socket that is listening.
Dialable == path \in Wrappers /\ wrapper[path].open

\* The accept loop runs once the provider was started, until the socket is closed.
Accepting(w) == wrapper[w].open /\ wrapper[w].pc # "SPAWN"

\* A process that has not begun counts as gone, as one that has ended.
Gone(target) ==
  IF target[2] = "WRAPPER" THEN wrapper[target[3]].pc \in {"IDLE"} \cup Ended
                           ELSE child[target[3]] # "RUNNING"

Goto(w, step) == wrapper' = [wrapper EXCEPT ![w].pc = step]

\* The same, when what the record was is no longer needed.
Proceed(w, step) == wrapper' = [wrapper EXCEPT ![w].pc = step, ![w].saw = Offline]

NoWrapper == [pc |-> "IDLE", saw |-> Offline, target |-> None, open |-> FALSE, lost |-> FALSE, timer |-> 0]

\* The process ends where it is: sockets are closed, the file is left.
Killed(v) ==
  [wrapper EXCEPT ![v] = [NoWrapper EXCEPT !.pc = "DEAD"]]

\* No connection and no handler.
NoCall == [client |-> "NEW", via |-> None, sent |-> {}, handler |-> "NONE"]

NoTerminal == [line |-> {}, screen |-> {}, busy |-> FALSE, writer |-> None]

Fault == scenario.faults > 0 /\ scenario' = [scenario EXCEPT !.faults = @ - 1]

----------------------------------------------------------------------------
(* Starting: an earlier session is taken over, the record is cleared *)

\* The command is run, perhaps to take over another one.
Run(w) ==
  /\ w \in scenario.runs
  /\ scenario' = [scenario EXCEPT !.runs = @ \ {w}]
  /\ \E target \in {t \in Takeovers : t[1] = w} \cup {None} :
       wrapper' = [wrapper EXCEPT ![w].target = target,
                                  ![w].pc = IF target = None THEN "READ" ELSE "TAKEOVER"]
  /\ UNCHANGED <<runtime, age, path, child, pty, call>>

\* What SIGTERM does to wrapper v: only while it serves it is caught, and only
\* until the provider is told is it listened to.
Terminated(v) ==
  CASE wrapper[v].pc = "SERVE" -> [wrapper EXCEPT ![v].pc = "STOP"]
    [] wrapper[v].pc = "STOP" -> wrapper
    [] OTHER -> Killed(v)

\* The handlers of a process end with it, and the connections of their callers.
Vanished(v) ==
  /\ call' = [n \in Notices |->
       IF call[n].via # v THEN call[n]
       ELSE [NoCall EXCEPT !.client = "FAILED"]]
  /\ pty' = [pty EXCEPT ![v] = NoTerminal]

\* Takeover: SIGTERM.
AskToEnd(w) ==
  LET target == wrapper[w].target IN
  /\ wrapper[w].pc = "TAKEOVER"
  /\ IF Gone(target) \/ target[2] = "PROVIDER"
     THEN Goto(w, "ASKED") /\ UNCHANGED <<call, pty>>
     ELSE LET v == target[3] IN
          /\ wrapper' = [Terminated(v) EXCEPT ![w].pc = "ASKED"]
          /\ IF Terminated(v)[v].pc = "DEAD" THEN Vanished(v) ELSE UNCHANGED <<call, pty>>
  /\ UNCHANGED <<runtime, age, path, child, scenario>>

\* Takeover: it is gone, by itself or after SIGKILL; the grace period is the one
\* a wrapper gives its provider.
TakenOver(w) ==
  LET target == wrapper[w].target IN
  /\ wrapper[w].pc = "ASKED"
  /\ IF target[2] = "PROVIDER"
     THEN /\ child' = [child EXCEPT ![target[3]] = IF @ = "RUNNING" THEN "GONE" ELSE @]
          /\ Goto(w, "READ")
          /\ UNCHANGED <<call, pty>>
     ELSE LET v == target[3] IN
          /\ UNCHANGED child
          /\ IF Gone(target)
             THEN Goto(w, "READ") /\ UNCHANGED <<call, pty>>
             ELSE wrapper' = [Killed(v) EXCEPT ![w].pc = "READ"] /\ Vanished(v)
  /\ UNCHANGED <<runtime, age, path, scenario>>

\* The record is read, and refused when it is draining or revoked.
Read(w) ==
  /\ wrapper[w].pc = "READ"
  /\ wrapper' = [wrapper EXCEPT
       ![w].target = None,
       ![w].saw = IF Snapshot.status = "ONLINE" THEN Snapshot ELSE Offline,
       ![w].pc = CASE Snapshot.status = "ABSENT" -> "REGISTER"
                   [] Snapshot.status \in {"DRAINING", "REVOKED"} -> "DONE"
                   [] OTHER -> "PROBE"]
  /\ UNCHANGED <<runtime, age, path, child, pty, call, scenario>>

\* runtime.register: the first one counts.
Register(w) ==
  /\ wrapper[w].pc = "REGISTER"
  /\ IF runtime.status = "ABSENT"
     THEN TakeDown /\ Proceed(w, "BEAT")
     ELSE Proceed(w, "DONE") /\ UNCHANGED <<runtime, age>>
  /\ UNCHANGED <<path, child, pty, call, scenario>>

\* Alive: a ping waits until the other one accepts connections, or is gone.
Probe(w) ==
  /\ wrapper[w].pc = "PROBE"
  /\ Dialable => Accepting(path)
  /\ CASE Dialable -> Proceed(w, "DONE")
       [] ~Dialable /\ wrapper[w].saw.status = "ONLINE" -> Goto(w, "CLEAR")
       [] OTHER -> Proceed(w, "BEAT")
  /\ UNCHANGED <<runtime, age, path, child, pty, call, scenario>>

\* Mutant: in the name of the new session.
ClearOwn(w) ==
  /\ wrapper[w].pc = "CLEAR"
  /\ IF OfflineAllowed(w)
     THEN TakeDown /\ Proceed(w, "BEAT")
     ELSE Proceed(w, "DONE") /\ UNCHANGED <<runtime, age>>
  /\ UNCHANGED <<path, child, pty, call, scenario>>

\* A presence that nobody answers for is taken down, in the name of the endpoint
\* that was read.
Clear(w) ==
  /\ wrapper[w].pc = "CLEAR"
  /\ IF OfflineAllowed(wrapper[w].saw.endpoint)
     THEN TakeDown /\ Proceed(w, "BEAT")
     ELSE Proceed(w, "DONE") /\ UNCHANGED <<runtime, age>>
  /\ UNCHANGED <<path, child, pty, call, scenario>>

\* The first heartbeat; its ticker starts.
Beat(w) ==
  /\ wrapper[w].pc = "BEAT"
  /\ IF HeartbeatAllowed
     THEN Show(w) /\ Goto(w, "LISTEN")
     ELSE Goto(w, "DONE") /\ UNCHANGED <<runtime, age>>
  /\ UNCHANGED <<path, child, pty, call, scenario>>

----------------------------------------------------------------------------
(* Serving: the socket and the provider *)

\* listenLocal looks for the file and dials it; or the terminal is not one.
Listen(w) ==
  /\ wrapper[w].pc = "LISTEN"
  /\ \/ /\ Goto(w, CASE path = None -> "BIND" [] Dialable -> "LEAVE" [] OTHER -> "REMOVE")
        /\ UNCHANGED scenario
     \/ Goto(w, "LEAVE") /\ Fault
  /\ UNCHANGED <<runtime, age, path, child, pty, call>>

\* The file is removed, whichever socket it names by now.
Remove(w) ==
  /\ wrapper[w].pc = "REMOVE"
  /\ path' = None
  /\ Goto(w, "BIND")
  /\ UNCHANGED <<runtime, age, child, pty, call, scenario>>

Bind(w) ==
  /\ wrapper[w].pc = "BIND"
  /\ IF path = None
     THEN /\ path' = w
          /\ wrapper' = [wrapper EXCEPT ![w].pc = "SPAWN", ![w].open = TRUE]
     ELSE Goto(w, "LEAVE") /\ UNCHANGED path
  /\ UNCHANGED <<runtime, age, child, pty, call, scenario>>

\* The provider is started in a terminal, which may fail.
Spawn(w) ==
  /\ wrapper[w].pc = "SPAWN"
  /\ \/ /\ child' = [child EXCEPT ![w] = "RUNNING"]
        /\ Goto(w, "SERVE")
        /\ UNCHANGED scenario
     \/ Goto(w, "UNLINK") /\ Fault /\ UNCHANGED child
  /\ UNCHANGED <<runtime, age, path, pty, call>>

\* Serve's select: the provider ends, or is told to because the context is
\* cancelled; then its end is waited for and the terminal is closed.
Stop(w) ==
  \/ /\ wrapper[w].pc = "SERVE" /\ wrapper[w].lost
     /\ Goto(w, "STOP")
     /\ UNCHANGED <<runtime, age, path, child, pty, call, scenario>>
  \/ /\ wrapper[w].pc \in {"SERVE", "STOP"} /\ child[w] = "GONE"
     /\ Goto(w, "UNLINK")
     /\ pty' = [pty EXCEPT ![w] = [NoTerminal EXCEPT !.writer = pty[w].writer]]
     /\ UNCHANGED <<runtime, age, path, child, call, scenario>>

\* The deferred removal of the file.
Unlink(w) ==
  /\ wrapper[w].pc = "UNLINK"
  /\ path' = None
  /\ Goto(w, "CLOSE")
  /\ UNCHANGED <<runtime, age, child, pty, call, scenario>>

\* Closing a listener removes its file again.
Close(w) ==
  /\ wrapper[w].pc = "CLOSE"
  /\ path' = None
  /\ wrapper' = [wrapper EXCEPT ![w].pc = "LEAVE", ![w].open = FALSE]
  /\ UNCHANGED <<runtime, age, child, pty, call, scenario>>

\* Heartbeats end, then the session's own presence; then the process.
Leave(w) ==
  /\ wrapper[w].pc = "LEAVE"
  /\ IF OfflineAllowed(w) THEN TakeDown ELSE UNCHANGED <<runtime, age>>
  /\ wrapper' = [wrapper EXCEPT ![w] = [NoWrapper EXCEPT !.pc = "DONE"]]
  /\ Vanished(w)
  /\ UNCHANGED <<path, child, scenario>>

----------------------------------------------------------------------------
(* Time *)

\* The heartbeat's own loop runs beside Serve.
Beating(w) == wrapper[w].pc \in Serving /\ ~wrapper[w].lost

\* Mutant: a refusal is left for the next heartbeat to mend.
HeartbeatTolerant(w) ==
  /\ Beating(w) /\ wrapper[w].timer = Period
  /\ wrapper' = [wrapper EXCEPT ![w].timer = 0]
  /\ IF HeartbeatAllowed THEN Show(w) ELSE UNCHANGED <<runtime, age>>
  /\ UNCHANGED <<path, child, pty, call, scenario>>

\* A heartbeat that is refused, or fails, cancels the session.
Heartbeat(w) ==
  /\ Beating(w) /\ wrapper[w].timer = Period
  /\ \/ /\ HeartbeatAllowed /\ Show(w)
        /\ wrapper' = [wrapper EXCEPT ![w].timer = 0]
        /\ UNCHANGED scenario
     \/ /\ ~HeartbeatAllowed
        /\ wrapper' = [wrapper EXCEPT ![w].timer = 0, ![w].lost = TRUE]
        /\ UNCHANGED <<runtime, age, scenario>>
     \/ /\ wrapper' = [wrapper EXCEPT ![w].timer = 0, ![w].lost = TRUE]
        /\ Fault
        /\ UNCHANGED <<runtime, age>>
  /\ UNCHANGED <<path, child, pty, call>>

\* Five seconds pass; no heartbeat is late.
Tick ==
  /\ \A w \in Wrappers : Beating(w) => wrapper[w].timer < Period
  /\ age' = IF runtime.status = "ONLINE" /\ age < OfflineAfter THEN age + 1 ELSE age
  /\ wrapper' = [w \in Wrappers |->
       IF Beating(w) THEN [wrapper[w] EXCEPT !.timer = @ + 1] ELSE wrapper[w]]
  /\ UNCHANGED <<runtime, path, child, pty, call, scenario>>

----------------------------------------------------------------------------
(* The provider, the operator, failures *)

\* It ends by itself, because it is told to and then killed, or because its
\* terminal is gone.
ProviderEnds(w) ==
  /\ child[w] = "RUNNING"
  /\ child' = [child EXCEPT ![w] = "GONE"]
  /\ UNCHANGED <<runtime, age, path, wrapper, pty, call, scenario>>

\* runtime.drain, runtime.resume and runtime.revoke.
Operate ==
  /\ Fault
  /\ \/ /\ runtime.status \in {"OFFLINE", "ONLINE"}
        /\ runtime' = [runtime EXCEPT !.status = "DRAINING"]
     \/ /\ runtime.status = "DRAINING"
        /\ runtime' = [runtime EXCEPT !.status = "OFFLINE"]
     \/ /\ runtime.status \in {"OFFLINE", "ONLINE", "DRAINING"}
        /\ runtime' = [runtime EXCEPT !.status = "REVOKED"]
  /\ age' = 0
  /\ UNCHANGED <<sessions, call>>

\* A wrapper is killed: its provider's terminal is gone, the file stays.
Kill(w) ==
  /\ Fault
  /\ wrapper[w].pc \notin {"IDLE"} \cup Ended
  /\ wrapper' = Killed(w)
  /\ Vanished(w)
  /\ UNCHANGED <<runtime, age, path, child>>

\* The provider draws what was typed, repaints its screen, works and comes to rest.
Draw(w) ==
  /\ child[w] = "RUNNING" /\ wrapper[w].pc \in {"SERVE", "STOP"}
  /\ \/ pty' = [pty EXCEPT ![w].screen = @ \cup pty[w].line]
     \/ pty' = [pty EXCEPT ![w].screen = {}]
     \/ pty' = [pty EXCEPT ![w].busy = ~@]
  /\ UNCHANGED <<runtime, age, path, wrapper, child, call, scenario>>

----------------------------------------------------------------------------
(* Deliveries: TryDeliverWithEvidence and the wrapper's handler *)

\* The daemon dials the runtime's socket and asks for a notice to be typed.
Dial(n) ==
  /\ n \in scenario.asked
  /\ scenario' = [scenario EXCEPT !.asked = @ \ {n}]
  /\ call' = [call EXCEPT ![n] =
       IF Dialable THEN [NoCall EXCEPT !.client = "WAITING", !.via = path, !.handler = "ACCEPTED"]
                   ELSE [NoCall EXCEPT !.client = "FAILED"]]
  /\ UNCHANGED <<runtime, age, sessions>>

\* The terminal's writer is done; the handler has its result.
Conclude(n, step) ==
  /\ call' = [call EXCEPT ![n].handler = step]
  /\ pty' = [pty EXCEPT ![call[n].via].writer = None]

\* Mutant: every handler writes.
AcceptAll(n) ==
  LET w == call[n].via IN
  /\ call[n].handler = "ACCEPTED" /\ Accepting(w)
  /\ call' = [call EXCEPT ![n].handler = "IDLE"]
  /\ pty' = [pty EXCEPT ![w].writer = n]
  /\ UNCHANGED <<runtime, age, path, wrapper, child, scenario>>

\* try-deliver: one delivery at a time, the others are refused.
Accept(n) ==
  LET w == call[n].via IN
  /\ call[n].handler = "ACCEPTED" /\ Accepting(w)
  /\ IF pty[w].writer = None
     THEN /\ call' = [call EXCEPT ![n].handler = "IDLE"]
          /\ pty' = [pty EXCEPT ![w].writer = n]
     ELSE call' = [call EXCEPT ![n].handler = "REFUSED"] /\ UNCHANGED pty
  /\ UNCHANGED <<runtime, age, path, wrapper, child, scenario>>

\* The terminal is open until its provider's end was noticed.
Writable(w) == wrapper[w].pc \in {"SERVE", "STOP"}

\* waitForIdle, and the text is written.
Type(n) ==
  LET w == call[n].via IN
  /\ call[n].handler = "IDLE"
  /\ ~pty[w].busy /\ Writable(w)
  /\ call' = [call EXCEPT ![n].handler = "ECHO"]
  /\ pty' = [pty EXCEPT ![w].line = @ \cup {n}]
  /\ UNCHANGED <<runtime, age, path, wrapper, child, scenario>>

\* The provider stays busy, never echoes the text, or is gone: what was typed stays.
Refuse(n) ==
  LET w == call[n].via IN
  /\ \/ call[n].handler = "IDLE" /\ (pty[w].busy \/ ~Writable(w))
     \/ call[n].handler = "ECHO"
  /\ Conclude(n, "REFUSED")
  /\ UNCHANGED <<runtime, age, path, wrapper, child, scenario>>

\* `echoed' accepts a third of the text, or three pairs of words in order: all
\* notices have more in common, so that any of them on the screen will do.
Echoed(w) == pty[w].screen # {}

\* Enter: the line is submitted.
Enter(n) ==
  LET w == call[n].via IN
  /\ call[n].handler = "ECHO" /\ Echoed(w) /\ Writable(w)
  /\ call' = [call EXCEPT ![n].handler = "DONE", ![n].sent = pty[w].line]
  /\ pty' = [pty EXCEPT ![w].line = {}, ![w].busy = TRUE, ![w].writer = None]
  /\ UNCHANGED <<runtime, age, path, wrapper, child, scenario>>

\* The answer reaches a caller that still waits for it.
Answer(n) ==
  /\ call[n].handler \in {"DONE", "REFUSED"}
  /\ call' = [call EXCEPT ![n] =
       IF call[n].client = "WAITING" /\ call[n].handler = "DONE"
       THEN [NoCall EXCEPT !.client = "OK", !.sent = call[n].sent]
       ELSE [NoCall EXCEPT !.client = "FAILED"]]
  /\ UNCHANGED <<runtime, age, sessions, scenario>>

\* The caller's time is over; the handler goes on.
TimeOut(n) ==
  /\ call[n].client = "WAITING"
  /\ call' = [call EXCEPT ![n].client = "FAILED"]
  /\ UNCHANGED <<runtime, age, sessions, scenario>>

----------------------------------------------------------------------------
(* Specification *)

\* No runtime yet, one that was ended properly, or one whose session crashed: its
\* record and its socket file may both be left.
Init ==
  /\ runtime \in {[status |-> "ABSENT", endpoint |-> None], Offline,
                  [status |-> "ONLINE", endpoint |-> Stale]}
  /\ age = 0
  /\ path \in IF runtime.status = "ABSENT" THEN {None} ELSE {None, Stale}
  /\ wrapper = [w \in Wrappers |-> NoWrapper]
  /\ child = [w \in Wrappers |-> "NONE"]
  /\ pty = [w \in Wrappers |-> NoTerminal]
  /\ call = [n \in Notices |-> NoCall]
  /\ scenario \in Scenarios

\* What the command does by itself once it is run.
Step(w) ==
  \/ AskToEnd(w) \/ TakenOver(w) \/ Read(w) \/ Register(w) \/ Probe(w) \/ Clear(w) \/ Beat(w)
  \/ Listen(w) \/ Remove(w) \/ Bind(w) \/ Spawn(w) \/ Stop(w) \/ Unlink(w) \/ Close(w) \/ Leave(w)

Next ==
  \/ Tick \/ Operate
  \/ \E w \in Wrappers :
       \/ Run(w) \/ AskToEnd(w) \/ TakenOver(w) \/ Read(w) \/ Register(w) \/ Probe(w)
       \/ Clear(w) \/ Beat(w) \/ Listen(w) \/ Remove(w) \/ Bind(w) \/ Spawn(w) \/ Stop(w)
       \/ Unlink(w) \/ Close(w) \/ Leave(w)
       \/ Heartbeat(w) \/ ProviderEnds(w) \/ Kill(w) \/ Draw(w)
  \/ \E n \in Notices :
       Dial(n) \/ Accept(n) \/ Type(n) \/ Refuse(n) \/ Enter(n) \/ Answer(n) \/ TimeOut(n)

Spec == Init /\ [][Next]_vars

\* A command that runs goes on, time passes, and a provider that is told to end,
\* or whose terminal is gone, ends.
Fairness ==
  /\ WF_vars(Tick)
  /\ \A w \in Wrappers :
       /\ WF_vars(Step(w))
       /\ WF_vars(Heartbeat(w))
       /\ WF_vars(wrapper[w].pc \in {"STOP", "DEAD"} /\ ProviderEnds(w))

FairSpec == Spec /\ Fairness

----------------------------------------------------------------------------
(* Properties *)

Running(w) == child[w] = "RUNNING"
Served(w) == wrapper[w].pc = "SERVE" /\ ~wrapper[w].lost

\* Two sessions of one runtime, however they came about, do not last: the heartbeat
\* of one is refused for the other's, and it ends (cmd_runtime.go:505).
RivalsResolve ==
  \A w, v \in Wrappers : w # v => (Running(w) /\ Running(v) ~> ~(Running(w) /\ Running(v)))

\* A session that was not withdrawn is only ever ended for another one, whose
\* heartbeat was accepted since: never for one of its own, and so never both.
StopsOnlyForRival ==
  [][\A w \in Wrappers :
       /\ ~wrapper[w].lost /\ wrapper'[w].lost /\ scenario' = scenario
       => \/ runtime.status \in {"DRAINING", "REVOKED"}
          \/ runtime.status = "ONLINE" /\ runtime.endpoint # w]_vars

\* Once failures have ceased, what a crashed session left, its record or its file,
\* does not keep a new one from serving (cmd_runtime.go:490, protocol_unix.go:37).
Unrivalled(w) == \A v \in Wrappers \ {w} : wrapper[v].pc \in {"IDLE"} \cup Ended

StaleNeverBlocks ==
  \A w \in Wrappers :
    (wrapper[w].pc = "READ" /\ Unrivalled(w) /\ scenario.faults = 0)
      ~> (Served(w) \/ ~Unrivalled(w) \/ runtime.status \in {"DRAINING", "REVOKED"})

\* A session that goes on is shown as online in the end, also when another one took
\* its record down or showed itself instead.
SessionIsShown ==
  \A w \in Wrappers :
    Served(w) ~> (~Served(w) \/ (runtime.status = "ONLINE" /\ runtime.endpoint = w))

\* A delivery that is reported as made was submitted whole by its own Enter, and
\* shared the line with none that is reported as made too.
DeliveredWhole ==
  \A n \in Notices : call[n].client = "OK" =>
    /\ n \in call[n].sent
    /\ \A m \in call[n].sent \ {n} : call[m].client # "OK"

\* protocol_unix.go:23: a wrapper refuses to start while another one owns the socket.
OneSession == \A w, v \in Wrappers : Served(w) /\ Served(v) => w = v

\* interactiveserve.go: "is this runtime live" is simply "can I dial its socket".
ServedIsDialable == \A w \in Wrappers : wrapper[w].pc = "SERVE" => path = w

\* docs/agent-invocations.md: success is recorded only after the text was echoed.
EchoIsOwn ==
  [][\A n \in Notices :
       call[n].handler = "ECHO" /\ call'[n].handler = "DONE" => n \in pty[call[n].via].screen]_vars

\* docs/agent-invocations.md: no notice lands glued onto an earlier, not-yet-submitted one.
NothingGlued == \A n \in Notices : call[n].client = "OK" => call[n].sent = {n}

=============================================================================
