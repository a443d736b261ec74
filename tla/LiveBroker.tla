----------------------------- MODULE LiveBroker -----------------------------
(***************************************************************************)
(* The live brokers (internal/claudeserve, internal/codexserve and their   *)
(* worker adapters).  One broker listens on a fixed port of the host and   *)
(* keeps one provider process per runtime; a worker registers its runtime  *)
(* and posts prompts, which are given to the process one at a time.  When  *)
(* the process dies in a turn it is started again, once, on the same       *)
(* conversation, and the prompt is repeated.                               *)
(*                                                                         *)
(* The two brokers differ in how an answer comes back.  Claude's ("STREAM")*)
(* arrives on a channel of the process that gave it.  Codex's ("RPC")      *)
(* arrives with everything that any process of the runtime says, at a      *)
(* subscription the turn holds, which is cut off when it is read slowly.   *)
(*                                                                         *)
(* A caller gives up when its time is over, wherever it is; a process may  *)
(* crash or never answer, a broker may be stopped or killed, and the next  *)
(* caller starts a new one.                                                *)
(***************************************************************************)
EXTENDS Integers, Sequences

CONSTANTS
  Calls,        \* executions of invocations: each registers and sends a prompt
  Runtimes,
  RuntimeOf,    \* the runtime of each call
  Configs,      \* process configurations: prompt, permissions, session, ...
  Setups,       \* which configuration the worker of each call may ask for
  MaxBrokers,   \* bounds: brokers started,
  MaxProcesses, \* provider processes started,
  MaxFaults,    \* crashes, failed turns, subscriptions cut off, brokers stopped
  None

Brokers == 1 .. MaxBrokers
Processes == 1 .. MaxProcesses
Slots == Brokers \X Runtimes

ASSUME CallsHaveRuntimes == RuntimeOf \in [Calls -> Runtimes] /\ Setups \subseteq [Calls -> Configs]
ASSUME BoundsAreNumbers ==
  MaxBrokers \in Nat /\ MaxProcesses \in Nat /\ MaxFaults \in Nat
ASSUME NoneIsNoValue == None \notin Calls \cup Configs \cup Slots

VARIABLES
  protocol,  \* "STREAM" (claudeserve) or "RPC" (codexserve)
  setup,     \* the configuration each call's worker asks for
  broker,    \* state of each broker
  lock,      \* the registration that holds a broker's mutex
  slot,      \* a broker's Process object of each runtime
  process,   \* provider processes, numbered in the order they start
  made,      \* how many were started
  client,    \* where each call's worker is
  handler,   \* where the broker's handler of each call is
  via,       \* the broker a call's handler is in
  seen,      \* the broker that accepted a call's registration
  answer,    \* the call whose answer a call was given
  faults

service == <<protocol, setup, broker, lock>>
owned == <<slot, process, made>>
calls == <<client, handler, via, seen, answer>>
vars == <<service, owned, calls, faults>>

----------------------------------------------------------------------------
(* Provider processes and the objects that own them *)

\* A Process object without a process: `turn' holds turnMu, `dead' is the
\* object's own idea of its process, `events' the subscription of its turn.
NoProcess == [registered |-> FALSE, config |-> None, current |-> 0, dead |-> FALSE,
              turn |-> None, try |-> 0, events |-> <<>>, cut |-> FALSE]

NotStarted == [slot |-> None, config |-> None, alive |-> FALSE, stdin |-> FALSE, inbox |-> <<>>,
               out |-> <<>>, ended |-> FALSE]

\* A line that matters: the result of the turn of a prompt.
Line == [of : Calls, ok : BOOLEAN]

Object(c) == slot[<<via[c], RuntimeOf[c]>>]
Current(c) == process[Object(c).current]

\* Start a process for object s; what it is started with replaces the old one.
Spawned(s, config) ==
  [NotStarted EXCEPT !.slot = s, !.config = config, !.alive = TRUE, !.stdin = TRUE]

\* Kill: what it wrote stays in the pipe, what it was given is gone.
Killed(g) == [process EXCEPT ![g].alive = FALSE, ![g].inbox = <<>>, ![g].stdin = FALSE]

GaveUp(c) == client[c] = "FAILED"

\* The other side of a handshake is gone, or nobody waits for it any more.
Unanswered(c) == GaveUp(c) \/ Current(c).ended

Fault == faults < MaxFaults /\ faults' = faults + 1

Listening(b) == broker[b] = "UP"

----------------------------------------------------------------------------
(* The worker: EnsureServer, Register, Prompt *)

\* A healthy broker is used, otherwise one is started; the port admits one.
EnsureServer(c) ==
  /\ client[c] = "NEW"
  /\ \/ /\ \E b \in Brokers : Listening(b)
        /\ UNCHANGED broker
     \/ /\ \A b \in Brokers : ~Listening(b)
        /\ \E b \in Brokers :
             /\ broker[b] = "NONE"
             /\ \A a \in 1 .. b - 1 : broker[a] # "NONE"
             /\ broker' = [broker EXCEPT ![b] = "UP"]
  /\ client' = [client EXCEPT ![c] = "REGISTER"]
  /\ UNCHANGED <<protocol, setup, lock, owned, handler, via, seen, answer, faults>>

\* Mutant: whatever configuration it is registered with.
ReuseAny(c, b) ==
  LET s == <<b, RuntimeOf[c]>> IN
  /\ client[c] = "REGISTER" /\ handler[c] = "NONE"
  /\ Listening(b) /\ lock[b] = None
  /\ slot[s].registered
  /\ client' = [client EXCEPT ![c] = "PROMPT"]
  /\ seen' = [seen EXCEPT ![c] = b]
  /\ UNCHANGED <<service, owned, handler, via, answer, faults>>

\* The runtime is registered: with the same configuration or not at all.
Reuse(c, b) ==
  LET s == <<b, RuntimeOf[c]>> IN
  /\ client[c] = "REGISTER" /\ handler[c] = "NONE"
  /\ Listening(b) /\ lock[b] = None
  /\ slot[s].registered
  /\ IF slot[s].config = setup[c]
     THEN /\ client' = [client EXCEPT ![c] = "PROMPT"]
          /\ seen' = [seen EXCEPT ![c] = b]
     ELSE /\ client' = [client EXCEPT ![c] = "FAILED"]
          /\ UNCHANGED seen
  /\ UNCHANGED <<service, owned, handler, via, answer, faults>>

\* A process is started for an object s under configuration `config'.
StartProcess(s, config) ==
  /\ made < MaxProcesses
  /\ made' = made + 1
  /\ process' = [process EXCEPT ![made'] = Spawned(s, config)]

\* claudeserve: the process counts as started once it runs.
RegisterStream(c, b) ==
  LET s == <<b, RuntimeOf[c]>> IN
  /\ protocol = "STREAM"
  /\ client[c] = "REGISTER" /\ handler[c] = "NONE"
  /\ Listening(b) /\ lock[b] = None
  /\ ~slot[s].registered
  /\ StartProcess(s, setup[c])
  /\ slot' = [slot EXCEPT ![s] = [NoProcess EXCEPT !.registered = TRUE, !.config = setup[c],
                                                   !.current = made']]
  /\ client' = [client EXCEPT ![c] = "PROMPT"]
  /\ seen' = [seen EXCEPT ![c] = b]
  /\ UNCHANGED <<service, handler, via, answer, faults>>

\* codexserve: the handshake follows, and the broker's mutex is held meanwhile.
RegisterRpc(c, b) ==
  LET s == <<b, RuntimeOf[c]>> IN
  /\ protocol = "RPC"
  /\ client[c] = "REGISTER" /\ handler[c] = "NONE"
  /\ Listening(b) /\ lock[b] = None
  /\ ~slot[s].registered
  /\ StartProcess(s, setup[c])
  /\ slot' = [slot EXCEPT ![s] = [NoProcess EXCEPT !.registered = FALSE, !.config = setup[c],
                                                   !.current = made']]
  /\ lock' = [lock EXCEPT ![b] = c]
  /\ handler' = [handler EXCEPT ![c] = "HANDSHAKE"]
  /\ via' = [via EXCEPT ![c] = b]
  /\ UNCHANGED <<protocol, setup, broker, client, seen, answer, faults>>

HandshakeDone(c) ==
  /\ handler[c] = "HANDSHAKE"
  /\ Current(c).alive
  /\ slot' = [slot EXCEPT ![<<via[c], RuntimeOf[c]>>].registered = TRUE]
  /\ lock' = [lock EXCEPT ![via[c]] = None]
  /\ handler' = [handler EXCEPT ![c] = "NONE"]
  /\ via' = [via EXCEPT ![c] = 0]
  /\ IF GaveUp(c) THEN UNCHANGED <<client, seen>>
     ELSE /\ client' = [client EXCEPT ![c] = "PROMPT"]
          /\ seen' = [seen EXCEPT ![c] = via[c]]
  /\ UNCHANGED <<protocol, setup, broker, process, made, answer, faults>>

\* The process died, refused, or the caller gave up: no child is left behind.
HandshakeFails(c) ==
  /\ handler[c] = "HANDSHAKE"
  /\ IF Unanswered(c) THEN UNCHANGED faults ELSE Fault
  /\ process' = Killed(Object(c).current)
  /\ lock' = [lock EXCEPT ![via[c]] = None]
  /\ handler' = [handler EXCEPT ![c] = "NONE"]
  /\ via' = [via EXCEPT ![c] = 0]
  /\ client' = [client EXCEPT ![c] = "FAILED"]
  /\ UNCHANGED <<protocol, setup, broker, slot, made, seen, answer>>

\* Post the prompt, to whichever broker listens now.
Prompt(c, b) ==
  LET s == <<b, RuntimeOf[c]>> IN
  /\ client[c] = "PROMPT"
  /\ Listening(b) /\ lock[b] = None
  /\ IF slot[s].registered
     THEN /\ client' = [client EXCEPT ![c] = "WAITING"]
          /\ handler' = [handler EXCEPT ![c] = "QUEUED"]
          /\ via' = [via EXCEPT ![c] = b]
     ELSE /\ client' = [client EXCEPT ![c] = "FAILED"]
          /\ UNCHANGED <<handler, via>>
  /\ UNCHANGED <<service, owned, seen, answer, faults>>

\* The execution timeout, a refused connection, a failed start: the call fails.
\* A handler under way sees its request cancelled.
GiveUp(c) ==
  /\ client[c] \in {"REGISTER", "PROMPT", "WAITING"}
  /\ client' = [client EXCEPT ![c] = "FAILED"]
  /\ UNCHANGED <<service, owned, handler, via, seen, answer, faults>>

----------------------------------------------------------------------------
(* The handler of a prompt: Process.Send *)

Slot(c) == <<via[c], RuntimeOf[c]>>

\* turnMu: one prompt of a runtime at a time, also those whose caller has gone.
Acquire(c) ==
  /\ handler[c] = "QUEUED"
  /\ Object(c).turn = None
  /\ slot' = [slot EXCEPT ![Slot(c)].turn = c, ![Slot(c)].try = 1]
  /\ handler' = [handler EXCEPT ![c] = "SEND"]
  /\ UNCHANGED <<service, process, made, client, via, seen, answer, faults>>

\* Mutant: a failed turn keeps turnMu.
FinishLocked(c, object, a) ==
  /\ slot' = [slot EXCEPT ![Slot(c)] = [object EXCEPT !.turn = IF a = None THEN c ELSE None,
                                                       !.try = 0, !.events = <<>>, !.cut = FALSE]]
  /\ handler' = [handler EXCEPT ![c] = "NONE"]
  /\ via' = [via EXCEPT ![c] = 0]
  /\ IF GaveUp(c) THEN UNCHANGED <<client, answer>>
     ELSE /\ client' = [client EXCEPT ![c] = IF a = None THEN "FAILED" ELSE "DONE"]
          /\ answer' = [answer EXCEPT ![c] = a]

\* The turn is over, answered by the line of call a (None: it failed).
Finish(c, object, a) ==
  /\ slot' = [slot EXCEPT ![Slot(c)] = [object EXCEPT !.turn = None, !.try = 0,
                                                       !.events = <<>>, !.cut = FALSE]]
  /\ handler' = [handler EXCEPT ![c] = "NONE"]
  /\ via' = [via EXCEPT ![c] = 0]
  /\ IF GaveUp(c) THEN UNCHANGED <<client, answer>>
     ELSE /\ client' = [client EXCEPT ![c] = IF a = None THEN "FAILED" ELSE "DONE"]
          /\ answer' = [answer EXCEPT ![c] = a]

Invalidated(object) == [object EXCEPT !.dead = TRUE]

\* Mutant: a cancelled turn leaves its process as it is.
AfterFailureKeeping(c, object, processes) ==
  \/ /\ GaveUp(c)
     /\ Finish(c, object, None)
     /\ process' = processes
  \/ /\ ~GaveUp(c)
     /\ object.dead /\ object.try = 1
     /\ slot' = [slot EXCEPT ![Slot(c)] = [object EXCEPT !.events = <<>>, !.cut = FALSE]]
     /\ handler' = [handler EXCEPT ![c] = "RESTART"]
     /\ process' = processes
     /\ UNCHANGED <<client, via, answer>>
  \/ /\ ~GaveUp(c)
     /\ ~(object.dead /\ object.try = 1)
     /\ Finish(c, object, None)
     /\ process' = processes

\* Mutant: a cancelled turn's process is written off and not killed.
AfterFailureForgetting(c, object, processes) ==
  \/ /\ GaveUp(c)
     /\ Finish(c, Invalidated(object), None)
     /\ process' = processes
  \/ /\ ~GaveUp(c)
     /\ object.dead /\ object.try = 1
     /\ slot' = [slot EXCEPT ![Slot(c)] = [object EXCEPT !.events = <<>>, !.cut = FALSE]]
     /\ handler' = [handler EXCEPT ![c] = "RESTART"]
     /\ process' = processes
     /\ UNCHANGED <<client, via, answer>>
  \/ /\ ~GaveUp(c)
     /\ ~(object.dead /\ object.try = 1)
     /\ Finish(c, object, None)
     /\ process' = processes

\* After a failed sendOnce: a cancelled turn takes its process with it, a dead
\* process is replaced once, and everything else is the caller's to see.
AfterFailure(c, object, processes) ==
  \/ /\ GaveUp(c)
     /\ Finish(c, Invalidated(object), None)
     /\ process' = [processes EXCEPT ![object.current].alive = FALSE,
                                     ![object.current].inbox = <<>>,
                                     ![object.current].stdin = FALSE]
  \/ /\ ~GaveUp(c)
     /\ object.dead /\ object.try = 1
     /\ slot' = [slot EXCEPT ![Slot(c)] = [object EXCEPT !.events = <<>>, !.cut = FALSE]]
     /\ handler' = [handler EXCEPT ![c] = "RESTART"]
     /\ process' = processes
     /\ UNCHANGED <<client, via, answer>>
  \/ /\ ~GaveUp(c)
     /\ ~(object.dead /\ object.try = 1)
     /\ Finish(c, object, None)
     /\ process' = processes

SendUnchanged == UNCHANGED <<service, made, seen, faults>>

\* The prompt is written, whether its caller is still there or not.
Write(c) ==
  /\ handler[c] = "SEND"
  /\ ~Object(c).dead /\ Current(c).alive
  /\ process' = [process EXCEPT ![Object(c).current].inbox = Append(@, c)]
  /\ handler' = [handler EXCEPT ![c] = "READ"]
  /\ UNCHANGED <<slot, client, via, answer>>
  /\ SendUnchanged

\* The object knows of its dead process, or finds out by writing to it.
WriteFails(c) ==
  /\ handler[c] = "SEND"
  /\ Object(c).dead \/ ~Current(c).alive
  /\ AfterFailure(c, Invalidated(Object(c)), process)
  /\ SendUnchanged

\* claudeserve reads the output of the process, codexserve the turn's subscription.
Pending(c) == IF protocol = "STREAM" THEN Current(c).out ELSE Object(c).events
Closed(c) == Pending(c) = <<>> /\ (Current(c).ended \/ Object(c).cut)

\* The result of a turn.
Take(c) ==
  /\ handler[c] = "READ"
  /\ Pending(c) # <<>>
  /\ LET line == Head(Pending(c))
         g == Object(c).current
         taken == IF protocol = "STREAM"
                  THEN [process EXCEPT ![g].out = Tail(@)]
                  ELSE process
     IN IF line.ok
        THEN Finish(c, Object(c), line.of) /\ process' = taken
        ELSE AfterFailure(c, Object(c), taken)
  /\ SendUnchanged

\* The process ended, or the subscription was cut off, before the turn's result.
ReadFails(c) ==
  /\ handler[c] = "READ"
  /\ Closed(c)
  /\ AfterFailure(c, Object(c), process)
  /\ SendUnchanged

\* The request was cancelled.
Cancelled(c) ==
  /\ handler[c] = "READ"
  /\ GaveUp(c)
  /\ AfterFailure(c, Object(c), process)
  /\ SendUnchanged

\* A new process on the same conversation, for the second try.
Restart(c) ==
  /\ handler[c] = "RESTART"
  /\ made < MaxProcesses
  /\ made' = made + 1
  /\ process' = [process EXCEPT ![Object(c).current].stdin = FALSE,
                                ![made'] = Spawned(Slot(c), Object(c).config)]
  /\ slot' = [slot EXCEPT ![Slot(c)].current = made', ![Slot(c)].dead = FALSE,
                          ![Slot(c)].try = 2]
  /\ handler' = [handler EXCEPT ![c] = IF protocol = "STREAM" THEN "SEND" ELSE "RESUME"]
  /\ UNCHANGED <<service, client, via, seen, answer, faults>>

\* codexserve: the handshake of the new process, within the same request.
Resumed(c) ==
  /\ handler[c] = "RESUME"
  /\ Current(c).alive
  /\ handler' = [handler EXCEPT ![c] = "SEND"]
  /\ UNCHANGED <<service, owned, client, via, seen, answer, faults>>

\* No process could be started, or it did not get through its handshake.
RestartFails(c) ==
  /\ \/ /\ handler[c] = "RESTART"
        /\ IF made = MaxProcesses THEN UNCHANGED faults ELSE Fault
        /\ UNCHANGED process
     \/ /\ handler[c] = "RESUME"
        /\ IF Unanswered(c) THEN UNCHANGED faults ELSE Fault
        /\ process' = Killed(Object(c).current)
  /\ Finish(c, Object(c), None)
  /\ UNCHANGED <<service, made, seen>>

----------------------------------------------------------------------------
(* What a process writes: readLoop *)

\* A turn of object s reads its subscription.
Subscribed(s) == \E c \in Calls : handler[c] = "READ" /\ slot[s].turn = c

\* codexserve: to whoever subscribes to the object, whichever process it is from.
\* (claudeserve: to the channel of the process, which is one queue with its pipe.)
Broadcast(g) ==
  LET s == process[g].slot IN
  /\ protocol = "RPC"
  /\ process[g].out # <<>>
  /\ process' = [process EXCEPT ![g].out = Tail(@)]
  /\ slot' = IF Subscribed(s) /\ ~slot[s].cut
             THEN [slot EXCEPT ![s].events = Append(@, Head(process[g].out))]
             ELSE slot
  /\ UNCHANGED <<service, made, calls, faults>>

\* A subscriber whose buffer is full is cut off; the turn is one of them.
CutOff(s) ==
  /\ protocol = "RPC"
  /\ Subscribed(s) /\ ~slot[s].cut
  /\ slot' = [slot EXCEPT ![s].cut = TRUE]
  /\ Fault
  /\ UNCHANGED <<service, process, made, calls>>

\* End of output: the process is gone, and so is the object's if it is still its own.
ReaderEnds(g) ==
  LET s == process[g].slot IN
  /\ s # None
  /\ ~process[g].alive /\ ~process[g].ended
  /\ protocol = "RPC" => process[g].out = <<>>
  /\ process' = [process EXCEPT ![g].ended = TRUE]
  /\ slot' = IF slot[s].current = g THEN [slot EXCEPT ![s].dead = TRUE] ELSE slot
  /\ UNCHANGED <<service, made, calls, faults>>

----------------------------------------------------------------------------
(* The provider, and the end of a broker *)

\* The turn of the oldest prompt ends, with an answer or with an error.
EndTurn(g) ==
  /\ process[g].alive /\ process[g].inbox # <<>>
  /\ \E ok \in BOOLEAN :
       /\ process' = [process EXCEPT
            ![g].inbox = Tail(@),
            ![g].out = IF process[g].ended THEN @
                       ELSE Append(@, [of |-> Head(process[g].inbox), ok |-> ok])]
       /\ IF ok THEN UNCHANGED faults ELSE Fault
  /\ UNCHANGED <<service, slot, made, calls>>

Crash(g) ==
  /\ process[g].alive
  /\ process' = Killed(g)
  /\ Fault
  /\ UNCHANGED <<service, slot, made, calls>>

\* End of input, once all turns are over.
Exit(g) ==
  /\ process[g].alive /\ ~process[g].stdin /\ process[g].inbox = <<>>
  /\ process' = Killed(g)
  /\ UNCHANGED <<service, slot, made, calls, faults>>

\* SIGTERM: no more requests; Shutdown waits for those under way, for a time.
Stop(b) ==
  /\ broker[b] = "UP"
  /\ broker' = [broker EXCEPT ![b] = "STOPPING"]
  /\ Fault
  /\ UNCHANGED <<protocol, setup, lock, owned, calls>>

\* Broker.Close: every registered process is killed; handlers may still run.
CloseAll(b) ==
  /\ broker[b] = "STOPPING" /\ lock[b] = None
  /\ broker' = [broker EXCEPT ![b] = "CLOSED"]
  /\ process' = [g \in Processes |->
       IF \E r \in Runtimes : slot[<<b, r>>].registered /\ slot[<<b, r>>].current = g
       THEN Killed(g)[g] ELSE process[g]]
  /\ slot' = [s \in Slots |-> IF s[1] = b THEN [slot[s] EXCEPT !.registered = FALSE] ELSE slot[s]]
  /\ UNCHANGED <<protocol, setup, lock, made, calls, faults>>

\* The broker's process is gone, after Close or killed at any point: its handlers
\* with it, and the pipes of the processes it still has.
Vanish(b) ==
  /\ broker[b] \in {"UP", "STOPPING", "CLOSED"}
  /\ broker' = [broker EXCEPT ![b] = "GONE"]
  /\ lock' = [lock EXCEPT ![b] = None]
  /\ slot' = [s \in Slots |-> IF s[1] = b THEN NoProcess ELSE slot[s]]
  /\ process' = [g \in Processes |->
       IF process[g].slot # None /\ process[g].slot[1] = b
       THEN [process[g] EXCEPT !.stdin = FALSE, !.out = <<>>, !.ended = TRUE]
       ELSE process[g]]
  /\ client' = [c \in Calls |-> IF via[c] = b THEN "FAILED" ELSE client[c]]
  /\ handler' = [c \in Calls |-> IF via[c] = b THEN "NONE" ELSE handler[c]]
  /\ via' = [c \in Calls |-> IF via[c] = b THEN 0 ELSE via[c]]
  /\ IF broker[b] = "CLOSED" THEN UNCHANGED faults ELSE Fault
  /\ UNCHANGED <<protocol, setup, made, seen, answer>>

----------------------------------------------------------------------------
(* Specification *)

Init ==
  /\ protocol \in {"STREAM", "RPC"}
  /\ setup \in Setups
  /\ broker = [b \in Brokers |-> "NONE"]
  /\ lock = [b \in Brokers |-> None]
  /\ slot = [s \in Slots |-> NoProcess]
  /\ process = [g \in Processes |-> NotStarted]
  /\ made = 0
  /\ client = [c \in Calls |-> "NEW"]
  /\ handler = [c \in Calls |-> "NONE"]
  /\ via = [c \in Calls |-> 0]
  /\ seen = [c \in Calls |-> 0]
  /\ answer = [c \in Calls |-> None]
  /\ faults = 0

\* What the code of call c does by itself, once its caller or its process is gone.
Proceeds(c) ==
  \/ Acquire(c) \/ Write(c) \/ WriteFails(c) \/ Take(c) \/ ReadFails(c) \/ Cancelled(c)
  \/ Restart(c)
  \/ handler[c] \in {"HANDSHAKE", "RESUME"} /\ Unanswered(c) /\ (HandshakeFails(c) \/ RestartFails(c))
  \/ made = MaxProcesses /\ RestartFails(c)

Next ==
  \/ \E c \in Calls :
       \/ EnsureServer(c) \/ GiveUp(c)
       \/ \E b \in Brokers : Reuse(c, b) \/ RegisterStream(c, b) \/ RegisterRpc(c, b) \/ Prompt(c, b)
       \/ HandshakeDone(c) \/ HandshakeFails(c)
       \/ Acquire(c) \/ Write(c) \/ WriteFails(c) \/ Take(c) \/ ReadFails(c) \/ Cancelled(c)
       \/ Restart(c) \/ Resumed(c) \/ RestartFails(c)
  \/ \E g \in Processes :
       Broadcast(g) \/ ReaderEnds(g) \/ EndTurn(g) \/ Crash(g) \/ Exit(g)
  \/ \E s \in Slots : CutOff(s)
  \/ \E b \in Brokers : Stop(b) \/ CloseAll(b) \/ Vanish(b)

Spec == Init /\ [][Next]_vars

\* Some handler that can goes on, some reader that can reads, and some caller's
\* timeout expires: less than the scheduler and the clock promise to each.
Fairness ==
  /\ WF_vars(\E c \in Calls : Proceeds(c))
  /\ WF_vars(\E g \in Processes : Broadcast(g) \/ ReaderEnds(g))
  /\ WF_vars(\E c \in Calls : GiveUp(c))

FairSpec == Spec /\ Fairness

----------------------------------------------------------------------------
(* Properties *)

ObjectRecord ==
  [registered : BOOLEAN, config : Configs \cup {None}, current : 0 .. MaxProcesses, dead : BOOLEAN,
   turn : Calls \cup {None}, try : 0 .. 2, events : Seq(Line), cut : BOOLEAN]

ProcessRecord ==
  [slot : Slots \cup {None}, config : Configs \cup {None}, alive : BOOLEAN, stdin : BOOLEAN,
   inbox : Seq(Calls), out : Seq(Line), ended : BOOLEAN]

\* Types: the values of every variable.
BrokerTypeOK ==
  /\ protocol \in {"STREAM", "RPC"}
  /\ setup \in Setups
  /\ broker \in [Brokers -> {"NONE", "UP", "STOPPING", "CLOSED", "GONE"}]
  /\ lock \in [Brokers -> Calls \cup {None}]
  /\ slot \in [Slots -> ObjectRecord]
  /\ process \in [Processes -> ProcessRecord]
  /\ made \in 0 .. MaxProcesses
  /\ client \in [Calls -> {"NEW", "REGISTER", "PROMPT", "WAITING", "DONE", "FAILED"}]
  /\ handler \in [Calls -> {"NONE", "HANDSHAKE", "QUEUED", "SEND", "READ", "RESTART", "RESUME"}]
  /\ via \in [Calls -> 0 .. MaxBrokers] /\ seen \in [Calls -> 0 .. MaxBrokers]
  /\ answer \in [Calls -> Calls \cup {None}]
  /\ faults \in 0 .. MaxFaults

\* An invocation is answered by its own turn and not by what an earlier turn of
\* the runtime, cancelled or failed, still had to say.  Codex's subscription
\* promises less: the answer is one of the same runtime's.
AnswersBelong ==
  \A c \in Calls : answer[c] # None =>
    IF protocol = "STREAM" THEN answer[c] = c ELSE RuntimeOf[answer[c]] = RuntimeOf[c]

\* The same, for both brokers.
AnswersAreOwn == \A c \in Calls : answer[c] \in {None, c}

\* A broker drives the conversation of a runtime through one process: when one
\* is started in its place, the old one is gone.
OneProcessDriven ==
  \A g, h \in Processes :
    /\ process[g].alive /\ process[h].alive
    /\ process[g].slot = process[h].slot
    => g = h

\* A worker whose registration a broker accepted has its prompt run under the
\* configuration it registered, as long as that broker lives.
RegisteredConfig ==
  [][\A c \in Calls, g \in Processes :
       /\ process'[g].inbox = Append(process[g].inbox, c)
       /\ seen[c] = process[g].slot[1]
       => process[g].config = setup[c]]_vars

\* Whatever a provider does, a request does not hold a runtime or a broker for
\* longer than its caller waits.
RequestsEnd == \A c \in Calls : handler[c] # "NONE" ~> handler[c] = "NONE"

=============================================================================
