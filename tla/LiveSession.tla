---------------------------- MODULE LiveSession ----------------------------
(***************************************************************************)
(* Sessions of opencode-live workers (internal/worker, opencodeclient).    *)
(* Before each turn a worker puts the permission rules of its provider     *)
(* session under the policy of AgentComms: an empty marker message resets  *)
(* the rules to "deny everything", restrictive rules are appended and read *)
(* back, the marker is removed.  A record on disk says, at every moment,   *)
(* which marker and which rules may be found if the worker stops there;    *)
(* the rules the session came with are kept in it for good.                *)
(*                                                                         *)
(* Locks and the owner file of a session keep other workers out.  People   *)
(* use the same session with their own client and may change its rules or  *)
(* undo messages at any time.  A call may fail, with or without effect,    *)
(* and a worker may be killed; the server it started then lives on and may *)
(* still execute the request that was under way.                           *)
(***************************************************************************)
EXTENDS Integers, Sequences

CONSTANTS
  Workers,      \* worker processes, one at a time each
  Runtimes,     \* runtime identifiers of one project
  Sessions,     \* provider sessions, a bound on how many are created
  None,
  Permissions,  \* the permission keys rules are about, "*" for all
  HumanRules,   \* rule lists people give a session
  AgentRules,   \* rule lists of the agent a session resolves to
  MaxMarkers,   \* bounds: markers minted,
  MaxEdits,     \* changes made by people,
  MaxFaults     \* calls that fail and workers that are killed

Actions == {"allow", "ask", "deny"}
Rule == [permission : Permissions, action : Actions]

ASSUME NoneIsNoValue == None \notin Workers \cup Runtimes \cup Sessions
ASSUME RulesAreLists ==
  /\ "*" \in Permissions
  /\ HumanRules \subseteq Seq(Rule)
  /\ AgentRules \subseteq Seq(Rule)
ASSUME BoundsAreNumbers == MaxMarkers \in Nat /\ MaxEdits \in Nat /\ MaxFaults \in Nat

VARIABLES
  native,   \* the provider's sessions: rules, marker messages, pending undo
  record,   \* policy record of each runtime, on disk
  owner,    \* owner file of each session
  worker,   \* the workers, which hold the locks of their `runtime' and `session'
  late,     \* requests of killed workers that their servers may still execute
  minted,   \* markers minted so far
  adopted,  \* history: the rules each session had when a runtime first adopted it
  foreign,  \* history: sessions whose rules somebody else changed since then
  stray,    \* history: markers created by late requests
  edits, faults

outside == <<adopted, foreign, stray>>
vars == <<native, record, owner, worker, late, minted, outside, edits, faults>>

----------------------------------------------------------------------------
(* Rules *)

Wildcard(action) == <<[permission |-> "*", action |-> action]>>
Baseline == Wildcard("deny")

\* An allow becomes a request.
Demoted(rules) ==
  [i \in DOMAIN rules |->
     [rules[i] EXCEPT !.action = IF @ = "allow" THEN "ask" ELSE @]]

RestrictivePermissions(agent, original) ==
  Wildcard("ask") \o Demoted(agent) \o Demoted(original)

NoMarker == 0
NoRecord == [session |-> None, original |-> <<>>, managed |-> <<>>,
             marker |-> NoMarker, pending |-> <<>>]

\* What an interrupted preparation may have left.  Managed rules that were
\* never set are no different from an empty list.
Known(rec, rules) ==
  \/ rules \in {rec.original, rec.managed, Baseline}
  \/ rec.pending # <<>> /\ rules = rec.pending

\* What the session must have when no preparation was interrupted.
Expected(rec) == IF rec.managed = <<>> THEN rec.original ELSE rec.managed

Recognised(rec, rules) ==
  IF rec.marker = NoMarker THEN rules = Expected(rec) ELSE Known(rec, rules)

----------------------------------------------------------------------------
(* Workers *)

Resting == {"off", "idle", "broken"}
Preparing == {"session", "made", "read", "adopt", "prepare", "swept",
              "create", "resolve", "append", "verify", "unmark", "settle"}

Off == [pc |-> "off", runtime |-> None, named |-> None,
        session |-> None, rec |-> NoRecord, seen |-> <<>>, undo |-> FALSE]

Init ==
  /\ native \in [Sessions -> [exists : BOOLEAN, rules : HumanRules \cup {<<>>},
                              markers : {{}}, undo : {FALSE}]]
  /\ \A s \in Sessions : ~native[s].exists => native[s].rules = <<>>
  /\ record = [r \in Runtimes |-> NoRecord]
  /\ owner = [s \in Sessions |-> None]
  /\ worker = [w \in Workers |-> Off]
  /\ late = {}
  /\ minted = NoMarker
  /\ adopted = [s \in Sessions |-> None]
  /\ foreign = {}
  /\ stray = {}
  /\ edits = 0
  /\ faults = 0

\* Process w goes to pc with the rest of its state as in `to'.
GoesTo(w, pc, to) == worker' = [worker EXCEPT ![w] = [to EXCEPT !.pc = pc]]
Goes(w, pc) == GoesTo(w, pc, worker[w])

\* An execution ends: what it read is forgotten, the locks are kept.
Ends(w, pc) ==
  GoesTo(w, pc, [worker[w] EXCEPT !.rec = NoRecord, !.seen = <<>>, !.undo = FALSE])

Free(r) == \A v \in Workers : worker[v].runtime # r

\* A worker is started for a runtime, with or without a session named, and given
\* an invocation.  It takes the lock of its runtime, starts a server and resets
\* the server's instance.
Start(w, r, named) ==
  /\ worker[w].pc = "off"
  /\ named # None => native[named].exists
  /\ Free(r)
  /\ GoesTo(w, "session", [Off EXCEPT !.runtime = r, !.named = named])
  /\ UNCHANGED <<native, record, owner, late, minted, outside, edits, faults>>

\* The next invocation finds the locks held.
Execute(w) ==
  /\ worker[w].pc = "idle"
  /\ Goes(w, "session")
  /\ UNCHANGED <<native, record, owner, late, minted, outside, edits, faults>>

OnRecord(w) == record[worker[w].runtime]
HasRecord(w) == OnRecord(w).session # None

\* The session of the record, or else the one named.
Wanted(w) == IF HasRecord(w) THEN OnRecord(w).session ELSE worker[w].named

Mismatch(w) ==
  HasRecord(w) /\ worker[w].named \notin {None, OnRecord(w).session}

\* A worker keeps to one session; another's lock or owner file keeps it out.
CanClaim(w, s) ==
  IF worker[w].session # None
  THEN worker[w].session = s
  ELSE /\ \A v \in Workers : worker[v].session # s
       /\ owner[s] \in {None, worker[w].runtime}

ClaimSession(w) ==
  /\ worker[w].pc = "session"
  /\ Wanted(w) # None /\ ~Mismatch(w)
  /\ CanClaim(w, Wanted(w))
  /\ GoesTo(w, "read", [worker[w] EXCEPT !.session = Wanted(w)])
  /\ owner' = [owner EXCEPT ![Wanted(w)] = worker[w].runtime]
  /\ UNCHANGED <<native, record, late, minted, outside, edits, faults>>

CreateSession(w, s) ==
  /\ worker[w].pc = "session"
  /\ Wanted(w) = None
  /\ ~native[s].exists
  /\ native' = [native EXCEPT ![s].exists = TRUE]
  /\ GoesTo(w, "made", [worker[w] EXCEPT !.rec.session = s])
  /\ UNCHANGED <<record, owner, late, minted, outside, edits, faults>>

\* A created session is claimed as well; the answer to its creation holds its rules.
ClaimCreated(w) ==
  LET s == worker[w].rec.session
  IN /\ worker[w].pc = "made"
     /\ CanClaim(w, s)
     /\ owner' = [owner EXCEPT ![s] = worker[w].runtime]
     /\ GoesTo(w, "adopt", [worker[w] EXCEPT !.session = s, !.seen = <<>>])
     /\ foreign' = IF native[s].rules = <<>> THEN foreign \ {s} ELSE foreign
     /\ UNCHANGED <<native, record, late, minted, adopted, stray, edits, faults>>

GetSession(w) ==
  LET s == worker[w].session
  IN /\ worker[w].pc = "read"
     /\ GoesTo(w, IF HasRecord(w) THEN "prepare" ELSE "adopt",
               [worker[w] EXCEPT !.rec = OnRecord(w), !.seen = native[s].rules,
                                 !.undo = native[s].undo])
     /\ foreign' = IF HasRecord(w) THEN foreign ELSE foreign \ {s}
     /\ UNCHANGED <<native, record, owner, late, minted, adopted, stray, edits, faults>>

\* The copy in memory and the file are written together.
Writes(w, rec, pc) ==
  /\ record' = [record EXCEPT ![worker[w].runtime] = rec]
  /\ GoesTo(w, pc, [worker[w] EXCEPT !.rec = rec])

\* The first record of a runtime keeps the rules that the session came with.
AdoptSession(w) ==
  /\ worker[w].pc = "adopt"
  /\ Writes(w, [NoRecord EXCEPT !.session = worker[w].session, !.original = worker[w].seen],
            "prepare")
  /\ adopted' = [adopted EXCEPT ![worker[w].session] = IF @ = None THEN worker[w].seen ELSE @]
  /\ UNCHANGED <<native, owner, late, minted, foreign, stray, edits, faults>>

Interrupted(w) == worker[w].rec.marker # NoMarker

\* Mutant: the interrupted preparation is forgotten without a look for its marker.
SweepNothing(w) ==
  /\ worker[w].pc = "prepare"
  /\ ~worker[w].undo
  /\ Interrupted(w) /\ Known(worker[w].rec, worker[w].seen)
  /\ Goes(w, "swept")
  /\ UNCHANGED <<native, record, owner, late, minted, outside, edits, faults>>

\* The marker of an interrupted preparation is removed, if it is there.
SweepMarker(w) ==
  LET s == worker[w].session
  IN /\ worker[w].pc = "prepare"
     /\ ~worker[w].undo
     /\ Interrupted(w) /\ Known(worker[w].rec, worker[w].seen)
     /\ native' = [native EXCEPT ![s].markers = @ \ {worker[w].rec.marker}]
     /\ Goes(w, "swept")
     /\ UNCHANGED <<record, owner, late, minted, outside, edits, faults>>

\* Mutant: what was found is taken for what the session came with.
ForgetOriginal(w) ==
  /\ worker[w].pc = "swept"
  /\ Writes(w, [worker[w].rec EXCEPT !.marker = NoMarker, !.pending = <<>>,
                                     !.original = worker[w].seen, !.managed = worker[w].seen],
            "prepare")
  /\ UNCHANGED <<native, owner, late, minted, outside, edits, faults>>

\* Mutant: the marker stays on record.
ForgetNothing(w) ==
  /\ worker[w].pc = "swept"
  /\ Writes(w, [worker[w].rec EXCEPT !.pending = <<>>, !.managed = worker[w].seen], "prepare")
  /\ UNCHANGED <<native, owner, late, minted, outside, edits, faults>>

ForgetMarker(w) ==
  /\ worker[w].pc = "swept"
  /\ Writes(w, [worker[w].rec EXCEPT !.marker = NoMarker, !.pending = <<>>,
                                     !.managed = worker[w].seen], "prepare")
  /\ UNCHANGED <<native, owner, late, minted, outside, edits, faults>>

\* A new marker is on record before anybody else hears of it.
MintMarker(w) ==
  /\ worker[w].pc = "prepare"
  /\ ~worker[w].undo
  /\ ~Interrupted(w) /\ worker[w].seen = Expected(worker[w].rec)
  /\ minted < MaxMarkers
  /\ minted' = minted + 1
  /\ Writes(w, [worker[w].rec EXCEPT !.marker = minted + 1], "create")
  /\ UNCHANGED <<native, owner, late, outside, edits, faults>>

\* What the provider does with a marker message whose tools are all disabled:
\* the rules are reset, and an undo that is pending becomes final.
WithPreparation(session, marker) ==
  [session EXCEPT !.rules = Baseline, !.markers = @ \cup {marker}, !.undo = FALSE]

CreatePreparation(w) ==
  LET s == worker[w].session
  IN /\ worker[w].pc = "create"
     /\ native' = [native EXCEPT ![s] = WithPreparation(@, worker[w].rec.marker)]
     /\ Goes(w, "resolve")
     /\ foreign' = foreign \ {s}
     /\ UNCHANGED <<record, owner, late, minted, adopted, stray, edits, faults>>

\* Mutant: the rules to be installed are only kept in memory.
ResolveAgentUnrecorded(w, agent) ==
  /\ worker[w].pc = "resolve"
  /\ GoesTo(w, "append",
            [worker[w] EXCEPT !.rec.pending =
               Baseline \o RestrictivePermissions(agent, worker[w].rec.original)])
  /\ UNCHANGED <<native, record, owner, late, minted, outside, edits, faults>>

\* The rules to be installed are on record before they are.
ResolveAgent(w, agent) ==
  /\ worker[w].pc = "resolve"
  /\ Writes(w, [worker[w].rec EXCEPT
                  !.pending = Baseline \o RestrictivePermissions(agent, worker[w].rec.original)],
            "append")
  /\ UNCHANGED <<native, owner, late, minted, outside, edits, faults>>

\* The provider appends to the rules it has.
Restrictive(w) == Tail(worker[w].rec.pending)

AppendSessionPermissions(w) ==
  LET s == worker[w].session
  IN /\ worker[w].pc = "append"
     /\ native' = [native EXCEPT ![s].rules = @ \o Restrictive(w)]
     /\ Goes(w, "verify")
     /\ UNCHANGED <<record, owner, late, minted, outside, edits, faults>>

VerifyReadback(w) ==
  /\ worker[w].pc = "verify"
  /\ native[worker[w].session].rules = worker[w].rec.pending
  /\ Goes(w, "unmark")
  /\ UNCHANGED <<native, record, owner, late, minted, outside, edits, faults>>

RemovePreparation(w) ==
  LET s == worker[w].session
  IN /\ worker[w].pc = "unmark"
     /\ native' = [native EXCEPT ![s].markers = @ \ {worker[w].rec.marker}]
     /\ Goes(w, "settle")
     /\ UNCHANGED <<record, owner, late, minted, outside, edits, faults>>

\* Only now may the invocation be prompted.
SettleRecord(w) ==
  /\ worker[w].pc = "settle"
  /\ Writes(w, [worker[w].rec EXCEPT !.managed = worker[w].rec.pending,
                                     !.marker = NoMarker, !.pending = <<>>], "prompt")
  /\ UNCHANGED <<native, owner, late, minted, outside, edits, faults>>

PromptEnds(w) ==
  /\ worker[w].pc = "prompt"
  /\ Ends(w, "idle")
  /\ UNCHANGED <<native, record, owner, late, minted, outside, edits, faults>>

\* What makes a worker refuse to go on.  No session can be created and no marker
\* minted beyond the bounds.
Refused(w) ==
  \/ worker[w].pc = "session" /\ Wanted(w) = None /\ \A s \in Sessions : native[s].exists
  \/ worker[w].pc = "session" /\ Wanted(w) # None /\ (Mismatch(w) \/ ~CanClaim(w, Wanted(w)))
  \/ worker[w].pc = "made" /\ ~CanClaim(w, worker[w].rec.session)
  \/ worker[w].pc = "prepare" /\ ~Recognised(worker[w].rec, worker[w].seen)
  \/ worker[w].pc = "prepare" /\ (worker[w].undo \/ (minted = MaxMarkers /\ ~Interrupted(w)))
  \/ worker[w].pc = "verify" /\ native[worker[w].session].rules # worker[w].rec.pending

Refuse(w) ==
  /\ Refused(w)
  /\ Ends(w, "idle")
  /\ UNCHANGED <<native, record, owner, late, minted, outside, edits, faults>>

\* A call or a write of a file fails, or its answer is lost after it had its
\* effect, or the execution is cancelled.  The server is stopped before anything
\* else is done; when that fails, the worker executes nothing more.
Fail(w, pc) ==
  /\ worker[w].pc \notin Resting
  /\ faults < MaxFaults
  /\ faults' = faults + 1
  /\ Ends(w, pc)
  /\ UNCHANGED <<native, record, owner, late, minted, outside, edits>>

\* Run returns: the server is stopped, the locks are released.
Close(w) ==
  /\ worker[w].pc \in {"idle", "broken"}
  /\ worker' = [worker EXCEPT ![w] = Off]
  /\ UNCHANGED <<native, record, owner, late, minted, outside, edits, faults>>

\* The request that is under way, if it changes the session.
UnderWay(w) ==
  LET request(kind) == [kind |-> kind, session |-> worker[w].session,
                        marker |-> worker[w].rec.marker,
                        rules |-> IF kind = "append" THEN Restrictive(w) ELSE <<>>]
  IN CASE worker[w].pc = "create" -> {request("create")}
       [] worker[w].pc = "append" -> {request("append")}
       [] worker[w].pc = "unmark" -> {request("remove")}
       [] worker[w].pc = "prepare" /\ Interrupted(w) -> {request("remove")}
       [] OTHER -> {}

\* The process is killed.  Its server, in a process group of its own, is not.
Kill(w) ==
  /\ worker[w].pc # "off"
  /\ faults < MaxFaults
  /\ faults' = faults + 1
  /\ worker' = [worker EXCEPT ![w] = Off]
  /\ \E requests \in SUBSET UnderWay(w) : late' = late \cup requests
  /\ UNCHANGED <<native, record, owner, minted, outside, edits>>

----------------------------------------------------------------------------
(* Others *)

AfterLate(q, session) ==
  CASE q.kind = "create" -> WithPreparation(session, q.marker)
    [] q.kind = "append" -> [session EXCEPT !.rules = @ \o q.rules]
    [] q.kind = "remove" -> [session EXCEPT !.markers = @ \ {q.marker}]

ExecuteLate(q) ==
  LET s == q.session
  IN /\ q \in late
     /\ late' = late \ {q}
     /\ native' = [native EXCEPT ![s] = AfterLate(q, native[s])]
     /\ foreign' = IF q.kind = "remove" THEN foreign ELSE foreign \cup {s}
     /\ stray' = IF q.kind = "create" THEN stray \cup {q.marker} ELSE stray
     /\ UNCHANGED <<record, owner, worker, minted, adopted, edits, faults>>

EditRules(s, rules) ==
  /\ native[s].exists
  /\ rules # native[s].rules
  /\ edits < MaxEdits
  /\ edits' = edits + 1
  /\ native' = [native EXCEPT ![s].rules = rules]
  /\ foreign' = foreign \cup {s}
  /\ UNCHANGED <<record, owner, worker, late, minted, adopted, stray, faults>>

Undo(s) ==
  /\ native[s].exists /\ ~native[s].undo
  /\ edits < MaxEdits
  /\ edits' = edits + 1
  /\ native' = [native EXCEPT ![s].undo = TRUE]
  /\ UNCHANGED <<record, owner, worker, late, minted, outside, faults>>

ResolveUndo(s) ==
  /\ native[s].undo
  /\ native' = [native EXCEPT ![s].undo = FALSE]
  /\ UNCHANGED <<record, owner, worker, late, minted, outside, edits, faults>>

----------------------------------------------------------------------------

Steps(w) ==
  \/ ClaimSession(w) \/ ClaimCreated(w) \/ GetSession(w) \/ AdoptSession(w)
  \/ \E s \in Sessions : CreateSession(w, s)
  \/ SweepMarker(w) \/ ForgetMarker(w) \/ MintMarker(w) \/ CreatePreparation(w)
  \/ \E agent \in AgentRules : ResolveAgent(w, agent)
  \/ AppendSessionPermissions(w) \/ VerifyReadback(w) \/ RemovePreparation(w)
  \/ SettleRecord(w) \/ PromptEnds(w) \/ Refuse(w)

Next ==
  \/ \E w \in Workers, r \in Runtimes, named \in Sessions \cup {None} : Start(w, r, named)
  \/ \E w \in Workers : Execute(w) \/ Steps(w) \/ Close(w) \/ Kill(w)
  \/ \E w \in Workers, pc \in {"idle", "broken"} : Fail(w, pc)
  \/ \E q \in late : ExecuteLate(q)
  \/ \E s \in Sessions, rules \in HumanRules : EditRules(s, rules)
  \/ \E s \in Sessions : Undo(s) \/ ResolveUndo(s)

Spec == Init /\ [][Next]_vars

\* What is begun is gone on with.  Workers are stopped again and again, and
\* started without naming a session, for every runtime.
Fairness ==
  /\ \A w \in Workers : WF_vars(Steps(w)) /\ SF_vars(Close(w))
  /\ \A r \in Runtimes : SF_vars(\E w \in Workers : Start(w, r, None))

FairSpec == Spec /\ Fairness

----------------------------------------------------------------------------
(* Properties *)

Marker == 1..MaxMarkers
Native == [exists : BOOLEAN, rules : Seq(Rule), markers : SUBSET Marker, undo : BOOLEAN]
Record == [session : Sessions \cup {None}, original : Seq(Rule), managed : Seq(Rule),
           marker : Marker \cup {NoMarker}, pending : Seq(Rule)]
Worker == [pc : Resting \cup Preparing \cup {"prompt"}, runtime : Runtimes \cup {None},
           named : Sessions \cup {None}, session : Sessions \cup {None},
           rec : Record, seen : Seq(Rule), undo : BOOLEAN]
Request == [kind : {"create", "append", "remove"}, session : Sessions,
            marker : Marker, rules : Seq(Rule)]

LiveTypeOK ==
  /\ native \in [Sessions -> Native]
  /\ record \in [Runtimes -> Record]
  /\ owner \in [Sessions -> Runtimes \cup {None}]
  /\ worker \in [Workers -> Worker]
  /\ late \subseteq Request
  /\ minted \in 0..MaxMarkers
  /\ adopted \in [Sessions -> Seq(Rule) \cup {None}]
  /\ foreign \subseteq Sessions
  /\ stray \subseteq Marker
  /\ edits \in 0..MaxEdits
  /\ faults \in 0..MaxFaults

\* "The worker must durably retain its minted ID before sending it so a lost
\* response never requires searching ... conversation messages": a marker in a
\* session is the one its runtime has on record, whatever failed or was killed;
\* only a request executed after its sender's death may leave another.
MarkersAccounted ==
  \A s \in Sessions : \A m \in native[s].markers \ stray :
    \E r \in Runtimes : record[r].session = s /\ record[r].marker = m

\* A runtime never locks itself out of its session: as long as nobody else
\* changed the rules, the record recognises them at every moment, and the next
\* preparation is not refused for what an earlier one left behind.
RulesRecognised ==
  \A r \in Runtimes :
    record[r].session \in Sessions \ foreign =>
      Recognised(record[r], native[record[r].session].rules)

\* A turn runs under the rules derived from those the session came with before
\* any worker touched it, with no marker left, unless somebody changed them since.
PromptsRestricted ==
  \A w \in Workers :
    worker[w].pc = "prompt" /\ worker[w].session \notin foreign =>
      LET s == worker[w].session
      IN /\ native[s].markers \subseteq stray
         /\ \E agent \in AgentRules :
              native[s].rules = Baseline \o RestrictivePermissions(agent, adopted[s])

\* An interrupted preparation is cleaned up in the end, unless the rules are
\* unknown or an undo is pending.
RecoveryCompletes ==
  \A r \in Runtimes :
    record[r].marker # NoMarker ~>
      \/ record[r].marker = NoMarker
      \/ ~Known(record[r], native[record[r].session].rules)
      \/ native[record[r].session].undo

\* "Unknown externally modified rules fail closed and require operator
\* reconciliation; they are not silently discarded" (docs/agent-invocations.md):
\* what a preparation resets is what it read and compared.
OutsideRulesKept ==
  [][\A w \in Workers :
       CreatePreparation(w) => native[worker[w].session].rules = worker[w].seen]_vars

=============================================================================
