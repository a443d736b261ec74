------------------------------ MODULE CommandLog ------------------------------
(***************************************************************************)
(* How a command reaches the log and the log reaches a host.  Clients       *)
(* (service.go, daemonclient) call the daemon of their host and call again, *)
(* with the same idempotency key, when it is gone or cannot answer; they    *)
(* launch one when there is none (ensureDaemon).  A daemon relays commands  *)
(* to the authority (personalauthority, authority), applies each answer to  *)
(* the host's cache (localcache) and reads the missing events page by page, *)
(* one synchronisation at a time, whose result all its callers share.       *)
(*                                                                         *)
(* An event is named by the idempotency key of its command; hashes and      *)
(* receipts bind an event to its place, so a place names an event.  Faults: *)
(* answers of the authority are lost, requests arrive after their sender    *)
(* gave up, daemons are killed or replaced, callers hang up, the authority  *)
(* is out of reach, the project is deleted.  The log and the cache are      *)
(* databases: their transactions are steps, and a crash leaves them whole.  *)
(***************************************************************************)
EXTENDS Naturals, Sequences, FiniteSets

CONSTANTS
    Commands,    \* commands of this host's clients
    Foreign,     \* commands of other hosts and of this host's dispatcher
    Reads,       \* reads of the state by this host's clients
    Procs,       \* daemon processes of this host
    PageSize,    \* syncPageSize
    MaxTries,    \* attempts of retryOnDaemonOffline
    MaxFaults,   \* bound on daemons killed or replaced
    None

ASSUME LogAssumption ==
    /\ Commands \cap Foreign = {} /\ Commands \cap Reads = {}
    /\ PageSize \in Nat \ {0} /\ MaxTries \in Nat \ {0} /\ MaxFaults \in Nat
    /\ None \notin Procs

Requests == Commands \cup Reads
Keys == Commands \cup Foreign

VARIABLES
    log,       \* events committed by the authority, in order
    deleted,   \* the project has been deleted there
    late,      \* commands still under way though their sender gave up
    cache,     \* this host's copy of the log
    proc,      \* what each daemon process is doing
    endpoint,  \* the process that made the socket file, None if there is no file
    flight,    \* flight[p]: the synchronisation p has in d.syncing
    req,       \* req[r]: where a client's request is
    faults     \* daemons killed or replaced so far

vars == <<log, deleted, late, cache, proc, endpoint, flight, req, faults>>

NoFlight == [phase |-> "NONE", at |-> 0, stop |-> 0, more |-> FALSE, ok |-> FALSE, begun |-> 0]

Flight ==
    [phase: {"NONE", "READ", "NOTE", "OVER"},
     at: Nat,         \* events up to here are applied; in NOTE, the event to apply
     stop: Nat,       \* last event of the page in hand
     more: BOOLEAN,   \* there is a further page
     ok: BOOLEAN,     \* result
     begun: Nat]      \* history: length of the log when it began

Asleep == [phase |-> "IDLE", at |-> None, tries |-> 0, seq |-> 0, ok |-> FALSE, covers |-> 0]

Request ==
    [phase: {"IDLE", "LOCATE", "AWAIT", "RELAY", "APPLY", "SYNC", "WAIT", "SYNCED",
             "DONE", "FAILED"},
     at: Procs \cup {None},  \* the daemon that handles it
     tries: 0..MaxTries,
     seq: Nat,               \* place of the command; for a read, events seen
     ok: BOOLEAN,            \* the synchronisation it rests on succeeded
     covers: Nat]            \* history: length of the log when that began

Init ==
    /\ log = <<>> /\ deleted = FALSE /\ late = {} /\ cache = <<>>
    /\ proc = [p \in Procs |-> "OFF"] /\ endpoint = None
    /\ flight = [p \in Procs |-> NoFlight]
    /\ req = [r \in Requests |-> Asleep]
    /\ faults = 0

(***************************************************************************)
(* The authority.                                                           *)
(***************************************************************************)
Committed(k) == \E i \in 1..Len(log) : log[i] = k

\* The place replay finds for a key, or the place after the head.
PlaceOf(k) ==
    IF Committed(k) THEN CHOOSE i \in 1..Len(log) : log[i] = k ELSE Len(log) + 1

\* Mutant: the idempotency key is not looked up.
MutateAgain(k) == ~deleted /\ log' = Append(log, k)

\* One transaction of Mutate: a known key is answered again, a new one appended.
Mutate(k) ==
    /\ ~deleted
    /\ log' = IF Committed(k) THEN log ELSE Append(log, k)

ForeignCommit ==
    /\ \E k \in Foreign : ~Committed(k) /\ Mutate(k)
    /\ UNCHANGED <<deleted, late, cache, proc, endpoint, flight, req, faults>>

\* A request of a sender that gave up is executed, or dropped on the way.
LateArrival ==
    /\ \E c \in late :
        /\ late' = late \ {c}
        /\ Mutate(c) \/ UNCHANGED log
    /\ UNCHANGED <<deleted, cache, proc, endpoint, flight, req, faults>>

DeleteProject ==
    /\ log # <<>> /\ ~deleted
    /\ deleted' = TRUE
    /\ UNCHANGED <<log, late, cache, proc, endpoint, flight, req, faults>>

\* The last place of the page that Events returns after place n.
PageEnd(n) ==
    IF deleted THEN n
    ELSE IF Len(log) > n + PageSize THEN n + PageSize ELSE Len(log)

(***************************************************************************)
(* The cache.  Apply of the event at place n: known, next, or after a gap.  *)
(***************************************************************************)
Applicable(n) == n <= Len(cache) + 1

Apply(n) ==
    /\ Applicable(n)
    /\ cache' = IF n = Len(cache) + 1 THEN Append(cache, log[n]) ELSE cache

(***************************************************************************)
(* Clients.                                                                 *)
(***************************************************************************)
Reachable == endpoint # None /\ proc[endpoint] = "SERVING"

Failed(q) == [Asleep EXCEPT !.phase = "FAILED", !.tries = q.tries]

Open(r) == req[r].phase \notin {"IDLE", "DONE", "FAILED"}

Submit(r) ==
    /\ req[r].phase = "IDLE"
    /\ req' = [req EXCEPT ![r].phase = "LOCATE"]
    /\ UNCHANGED <<log, deleted, late, cache, proc, endpoint, flight, faults>>

\* The daemon that answers at the endpoint gets the request.
Call(r) ==
    /\ req[r].phase \in {"LOCATE", "AWAIT"} /\ Reachable
    /\ req' = [req EXCEPT ![r].phase = IF r \in Commands THEN "RELAY" ELSE "SYNC",
                          ![r].at = endpoint]
    /\ UNCHANGED <<log, deleted, late, cache, proc, endpoint, flight, faults>>

\* ensureDaemon: nobody answers, so a daemon is launched and awaited.
Launch(r) ==
    /\ req[r].phase = "LOCATE" /\ ~Reachable
    /\ req' = [req EXCEPT ![r].phase = "AWAIT"]
    /\ \E p \in Procs :
          /\ proc[p] = "OFF"
          /\ proc' = [proc EXCEPT ![p] = "STARTING"]
    /\ UNCHANGED <<log, deleted, late, cache, endpoint, flight, faults>>

\* A request that ends with a code worth retrying.
Retried(q) ==
    IF q.tries + 1 < MaxTries
    THEN [Asleep EXCEPT !.phase = "LOCATE", !.tries = q.tries + 1]
    ELSE Failed(q)

Retry(r) == req' = [req EXCEPT ![r] = Retried(@)]

\* The client's time is up, or it is interrupted.
GiveUp(r) ==
    /\ Open(r)
    /\ req' = [req EXCEPT ![r] = Failed(@)]
    /\ late' \in {late, IF req[r].phase = "RELAY" THEN late \cup {r} ELSE late}
    /\ UNCHANGED <<log, deleted, cache, proc, endpoint, flight, faults>>

(***************************************************************************)
(* A daemon's handlers: command and state.                                  *)
(***************************************************************************)
Relay(c) ==
    /\ req[c].phase = "RELAY"
    /\ Mutate(c)
    /\ req' = [req EXCEPT ![c].phase = "APPLY", ![c].seq = PlaceOf(c)]
    /\ UNCHANGED <<deleted, late, cache, proc, endpoint, flight, faults>>

\* What the authority refuses is not tried again; a key it knows it answers.
Refused(c) ==
    /\ req[c].phase = "RELAY"
    /\ deleted \/ ~Committed(c)
    /\ req' = [req EXCEPT ![c] = Failed(@)]
    /\ UNCHANGED <<log, deleted, late, cache, proc, endpoint, flight, faults>>

\* Unavailable, over its rate, out of reach: executed, not executed, or not yet.
Unanswered(c) ==
    /\ req[c].phase = "RELAY"
    /\ Retry(c)
    /\ \/ Mutate(c) /\ UNCHANGED late
       \/ UNCHANGED <<log, late>>
       \/ late' = late \cup {c} /\ UNCHANGED log
    /\ UNCHANGED <<deleted, cache, proc, endpoint, flight, faults>>

ApplyAnswer(c) ==
    /\ req[c].phase = "APPLY"
    /\ \/ /\ Apply(req[c].seq)
          /\ req' = [req EXCEPT ![c].phase = "SYNCED", ![c].ok = TRUE]
       \/ /\ ~Applicable(req[c].seq)
          /\ req' = [req EXCEPT ![c].phase = "SYNC"]
          /\ UNCHANGED cache
    /\ UNCHANGED <<log, deleted, late, proc, endpoint, flight, faults>>

NewFlight == [NoFlight EXCEPT !.phase = "READ", !.at = Len(cache), !.stop = Len(cache),
                              !.more = TRUE, !.begun = Len(log)]

\* Sync: begin a flight, wait for the one under way, or take the result of the
\* one that is over and not yet forgotten.
JoinSync(r) ==
    LET p == req[r].at IN
    /\ req[r].phase = "SYNC"
    /\ \/ /\ flight[p].phase = "NONE"
          /\ flight' = [flight EXCEPT ![p] = NewFlight]
          /\ req' = [req EXCEPT ![r].phase = "WAIT"]
       \/ /\ flight[p].phase \notin {"NONE", "OVER"}
          /\ req' = [req EXCEPT ![r].phase = "WAIT"]
          /\ UNCHANGED flight
       \/ /\ flight[p].phase = "OVER"
          /\ req' = [req EXCEPT ![r].phase = "SYNCED", ![r].ok = flight[p].ok,
                                ![r].covers = flight[p].begun]
          /\ UNCHANGED flight
    /\ UNCHANGED <<log, deleted, late, cache, proc, endpoint, faults>>

\* A read waits no longer than syncTimeout; the flight goes on without it.
TimeOut(r) ==
    /\ req[r].phase = "WAIT"
    /\ req' = [req EXCEPT ![r].phase = "SYNCED", ![r].ok = FALSE]
    /\ UNCHANGED <<log, deleted, late, cache, proc, endpoint, flight, faults>>

FinishCommand(c) ==
    /\ req[c].phase = "SYNCED"
    /\ IF req[c].ok THEN req' = [req EXCEPT ![c].phase = "DONE", ![c].at = None] ELSE Retry(c)
    /\ UNCHANGED <<log, deleted, late, cache, proc, endpoint, flight, faults>>

\* The state is read from the cache; a failed synchronisation only costs its label.
FinishRead(r) ==
    /\ req[r].phase = "SYNCED"
    /\ IF cache # <<>>
       THEN req' = [req EXCEPT ![r].phase = "DONE", ![r].at = None, ![r].seq = Len(cache)]
       ELSE Retry(r)
    /\ UNCHANGED <<log, deleted, late, cache, proc, endpoint, flight, faults>>

(***************************************************************************)
(* Synchronisation (syncProject), begun by handlers or by the coordinator.  *)
(***************************************************************************)
Coordinate(p) ==
    /\ proc[p] = "SERVING" /\ flight[p].phase = "NONE"
    /\ flight' = [flight EXCEPT ![p] = NewFlight]
    /\ UNCHANGED <<log, deleted, late, cache, proc, endpoint, req, faults>>

\* Mutant: the next cursor is ignored.
FetchOnePage(p) ==
    LET f == flight[p] IN
    /\ f.phase = "READ" /\ f.at = f.stop /\ f.more
    /\ flight' = [flight EXCEPT ![p].stop = PageEnd(f.at), ![p].more = FALSE]
    /\ UNCHANGED <<log, deleted, late, cache, proc, endpoint, req, faults>>

FetchPage(p) ==
    LET f == flight[p] IN
    /\ f.phase = "READ" /\ f.at = f.stop /\ f.more
    /\ flight' = [flight EXCEPT ![p].stop = PageEnd(f.at),
                                ![p].more = ~deleted /\ PageEnd(f.at) < Len(log)]
    /\ UNCHANGED <<log, deleted, late, cache, proc, endpoint, req, faults>>

ApplyPage(p) ==
    /\ flight[p].phase = "READ" /\ flight[p].at < flight[p].stop
    /\ Apply(flight[p].at + 1)
    /\ flight' = [flight EXCEPT ![p].at = @ + 1]
    /\ UNCHANGED <<log, deleted, late, proc, endpoint, req, faults>>

\* All pages are applied.
Loaded(p) == flight[p].phase = "READ" /\ flight[p].at = flight[p].stop /\ ~flight[p].more

\* The dispatcher submits a command of its own (submitConnectorCommand) ...
DispatchCommand(p) ==
    /\ Loaded(p) /\ cache # <<>>
    /\ \E k \in Foreign : ~Committed(k) /\ Mutate(k)
    /\ flight' = [flight EXCEPT ![p].phase = "NOTE", ![p].at = Len(log) + 1]
    /\ UNCHANGED <<deleted, late, cache, proc, endpoint, req, faults>>

\* The result of a flight goes to all who wait for it.
Close(p, ok) ==
    /\ flight' = [flight EXCEPT ![p] = [NoFlight EXCEPT !.phase = "OVER", !.ok = ok,
                                                        !.begun = flight[p].begun]]
    /\ req' = [r \in Requests |->
                 IF req[r].phase = "WAIT" /\ req[r].at = p
                 THEN [req[r] EXCEPT !.phase = "SYNCED", !.ok = ok, !.covers = flight[p].begun]
                 ELSE req[r]]
    /\ UNCHANGED <<log, deleted, late, proc, endpoint, faults>>

\* ... whose answer is applied, or ends the flight if the cache lacks an earlier event.
NoteAnswer(p) ==
    /\ flight[p].phase = "NOTE"
    /\ \/ /\ Apply(flight[p].at)
          /\ flight' = [flight EXCEPT ![p].phase = "READ", ![p].at = flight[p].stop]
          /\ UNCHANGED <<log, deleted, late, proc, endpoint, req, faults>>
       \/ /\ ~Applicable(flight[p].at)
          /\ UNCHANGED cache
          /\ Close(p, FALSE)

\* Without any event there is no state to dispatch from, which is an error.
FlightEnds(p) ==
    /\ Loaded(p)
    /\ Close(p, cache # <<>>)
    /\ UNCHANGED cache

\* The authority is out of reach, a dispatch fails, the leader's caller hangs up.
FlightFails(p) ==
    /\ flight[p].phase \in {"READ", "NOTE"}
    /\ Close(p, FALSE)
    /\ UNCHANGED cache

\* Mutant: a synchronisation that failed stays in d.syncing.
ForgetSuccess(p) ==
    /\ flight[p].phase = "OVER" /\ flight[p].ok
    /\ flight' = [flight EXCEPT ![p] = NoFlight]
    /\ UNCHANGED <<log, deleted, late, cache, proc, endpoint, req, faults>>

Forget(p) ==
    /\ flight[p].phase = "OVER"
    /\ flight' = [flight EXCEPT ![p] = NoFlight]
    /\ UNCHANGED <<log, deleted, late, cache, proc, endpoint, req, faults>>

(***************************************************************************)
(* Daemon processes.  ListenLocal looks at the socket file, removes it if   *)
(* nobody answers there, and binds: three system calls.                     *)
(***************************************************************************)
Probe(p) ==
    /\ proc[p] = "STARTING"
    /\ proc' = [proc EXCEPT ![p] = IF Reachable THEN "OFF"
                                   ELSE IF endpoint # None THEN "CLEARING" ELSE "BINDING"]
    /\ UNCHANGED <<log, deleted, late, cache, endpoint, flight, req, faults>>

Clear(p) ==
    /\ proc[p] = "CLEARING"
    /\ proc' = [proc EXCEPT ![p] = IF endpoint = None THEN "OFF" ELSE "BINDING"]
    /\ endpoint' = None
    /\ UNCHANGED <<log, deleted, late, cache, flight, req, faults>>

Bind(p) ==
    /\ proc[p] = "BINDING"
    /\ IF endpoint = None
       THEN /\ proc' = [proc EXCEPT ![p] = "SERVING"]
            /\ endpoint' = p
       ELSE /\ proc' = [proc EXCEPT ![p] = "OFF"]
            /\ UNCHANGED endpoint
    /\ UNCHANGED <<log, deleted, late, cache, flight, req, faults>>

\* The process is gone: its callers see the connection break.
Exit(p) ==
    /\ proc' = [proc EXCEPT ![p] = "OFF"]
    /\ flight' = [flight EXCEPT ![p] = NoFlight]
    /\ req' = [r \in Requests |-> IF req[r].at = p THEN Retried(req[r]) ELSE req[r]]
    /\ late' \in {late, late \cup {c \in Commands : req[c].phase = "RELAY" /\ req[c].at = p}}
    /\ UNCHANGED <<log, deleted, cache>>

Kill(p) ==
    /\ proc[p] = "SERVING" /\ faults < MaxFaults
    /\ faults' = faults + 1
    /\ Exit(p)
    /\ UNCHANGED endpoint

\* Shutdown, by a signal or for another build: the listener goes first, and with
\* it the socket file, whoever made it; then requests may finish.
Shutdown(p) ==
    /\ proc[p] = "SERVING" /\ faults < MaxFaults
    /\ faults' = faults + 1
    /\ proc' = [proc EXCEPT ![p] = "STOPPING"]
    /\ endpoint' = None
    /\ UNCHANGED <<log, deleted, late, cache, flight, req>>

Stop(p) ==
    /\ proc[p] = "STOPPING"
    /\ Exit(p)
    /\ UNCHANGED <<endpoint, faults>>

ClientStep(r) ==
    Call(r) \/ Launch(r) \/ JoinSync(r)
        \/ (r \in Commands /\ FinishCommand(r)) \/ (r \in Reads /\ (TimeOut(r) \/ FinishRead(r)))

AuthorityStep(c) == Relay(c) \/ Refused(c) \/ Unanswered(c)

FlightStep(p) ==
    NoteAnswer(p) \/ FlightEnds(p) \/ Forget(p)

ProcStep(p) == Probe(p) \/ Clear(p) \/ Bind(p) \/ Stop(p)

Next ==
    \/ ForeignCommit \/ LateArrival \/ DeleteProject
    \/ \E r \in Requests : Submit(r) \/ ClientStep(r) \/ GiveUp(r)
    \/ \E c \in Commands : AuthorityStep(c) \/ ApplyAnswer(c)
    \/ \E p \in Procs :
        \/ Coordinate(p) \/ FetchPage(p) \/ ApplyPage(p) \/ DispatchCommand(p) \/ FlightFails(p)
        \/ FlightStep(p) \/ ProcStep(p) \/ Kill(p) \/ Shutdown(p)

(***************************************************************************)
(* Fairness.  Programs run on; the coordinator ticks every 500 ms.  The     *)
(* authority answers a page request now and then, and not every insert into *)
(* the cache is cut short by a caller that hangs up.                        *)
(***************************************************************************)
Fairness ==
    \A p \in Procs :
        /\ WF_vars(Coordinate(p)) /\ WF_vars(FlightStep(p))
        /\ SF_vars(FetchPage(p)) /\ SF_vars(ApplyPage(p))

Spec == Init /\ [][Next]_vars /\ Fairness

(***************************************************************************)
(* Properties.                                                              *)
(***************************************************************************)
\* Type correctness of the whole state.
LogTypeOK ==
    /\ log \in Seq(Keys) /\ cache \in Seq(Keys)
    /\ deleted \in BOOLEAN /\ late \subseteq Commands
    /\ proc \in [Procs -> {"OFF", "STARTING", "CLEARING", "BINDING", "SERVING", "STOPPING"}]
    /\ endpoint \in Procs \cup {None}
    /\ flight \in [Procs -> Flight] /\ req \in [Requests -> Request]
    /\ faults \in 0..MaxFaults

\* A state labelled authoritative holds every event that was committed when the
\* synchronisation it rests on began, whoever else wrote to the cache meanwhile
\* (a deleted project serves empty pages, which cover nothing).  What was committed
\* between that and the request, when it joins one under way, it may lack.
FreshReads ==
    \A r \in Reads :
        req[r].phase = "DONE" /\ req[r].ok /\ ~deleted => req[r].seq >= req[r].covers

\* Commands take places once, the cache is a copy of a prefix, answers tell the
\* place their command has taken: whatever is lost, late, retried or restarted.
Promise == INSTANCE SignedLog WITH
    copy <- cache,
    answer <- [k \in Keys |->
                 IF k \in Commands /\ req[k].phase = "DONE" THEN req[k].seq ELSE 0]

ImplementsSignedLog == Promise!Spec

\* While a daemon stays up, what is committed reaches the cache, although the
\* authority may fail any page request and two daemons may share the cache.
CacheCatchesUp ==
    \A n \in 1..Cardinality(Keys) :
        Len(log) >= n ~>
            \/ Len(cache) >= n \/ deleted
            \/ \A p \in Procs : proc[p] # "SERVING"

\* docs/architecture.md:16: "A per-project daemon is the sole writer".  Two starting
\* processes that both find the socket file of a dead one make two daemons.
OneDaemon ==
    \A p, q \in Procs : proc[p] = "SERVING" /\ proc[q] = "SERVING" => p = q

=============================================================================
