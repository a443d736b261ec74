------------------------- MODULE LiveSessionProofs -------------------------
(***************************************************************************)
(* Proofs about LiveSession for any number of workers, runtimes, sessions, *)
(* rules and faults.  SessionInv ties the copy of the record a worker      *)
(* holds in memory, the record on disk and the session of the provider     *)
(* together at every step of a preparation; it is inductive.               *)
(***************************************************************************)
EXTENDS LiveSession, SequenceTheorems, TLAPS

USE DEF Actions, Resting, Preparing, NoMarker

----------------------------------------------------------------------------
(* Rules *)

LEMMA WildcardIsRules ==
  ASSUME NEW action \in Actions
  PROVE  Wildcard(action) \in Seq(Rule)
<1>1. [permission |-> "*", action |-> action] \in Rule
  BY RulesAreLists DEF Rule
<1> QED
  BY <1>1 DEF Wildcard

LEMMA DemotedIsRules ==
  ASSUME NEW rules \in Seq(Rule)
  PROVE  Demoted(rules) \in Seq(Rule)
<1>1. \A i \in 1..Len(rules) : [rules[i] EXCEPT !.action = IF @ = "allow" THEN "ask" ELSE @] \in Rule
  <2> TAKE i \in 1..Len(rules)
  <2>1. rules[i] \in Rule
    BY ElementOfSeq
  <2> QED
    BY <2>1 DEF Rule
<1>2. DOMAIN rules = 1..Len(rules) /\ Len(rules) \in Nat
  BY LenProperties
<1>3. Demoted(rules) \in [1..Len(rules) -> Rule]
  BY <1>1, <1>2 DEF Demoted
<1> QED
  BY <1>2, <1>3, SeqDef

LEMMA RestrictiveIsRules ==
  ASSUME NEW agent \in Seq(Rule), NEW original \in Seq(Rule)
  PROVE  RestrictivePermissions(agent, original) \in Seq(Rule)
<1>1. Wildcard("ask") \in Seq(Rule)
  BY WildcardIsRules
<1>2. Demoted(agent) \in Seq(Rule) /\ Demoted(original) \in Seq(Rule)
  BY DemotedIsRules
<1>3. Wildcard("ask") \o Demoted(agent) \in Seq(Rule)
  BY <1>1, <1>2, ConcatProperties
<1> QED
  BY <1>2, <1>3, ConcatProperties DEF RestrictivePermissions

\* What is installed is not empty, and what is appended is what follows the baseline.
LEMMA BaselineFirst ==
  ASSUME NEW rest \in Seq(Rule)
  PROVE  /\ Baseline \in Seq(Rule)
         /\ Baseline \o rest \in Seq(Rule)
         /\ Baseline \o rest # <<>>
         /\ Tail(Baseline \o rest) = rest
<1>1. Baseline \in Seq(Rule)
  BY WildcardIsRules DEF Baseline
<1>2. Baseline = << [permission |-> "*", action |-> "deny"] >> /\ Len(Baseline) = 1
  BY DEF Baseline, Wildcard
<1>3. /\ Baseline \o rest \in Seq(Rule)
      /\ Len(Baseline \o rest) = 1 + Len(rest)
      /\ \A i \in 1..(1 + Len(rest)) :
           (Baseline \o rest)[i] = IF i <= 1 THEN Baseline[i] ELSE rest[i - 1]
  BY <1>1, <1>2, ConcatProperties
<1>4. Baseline \o rest # <<>>
  BY <1>3, LenProperties
<1>5. /\ Tail(Baseline \o rest) \in Seq(Rule)
      /\ Len(Tail(Baseline \o rest)) = Len(rest)
      /\ \A i \in 1..Len(rest) : Tail(Baseline \o rest)[i] = (Baseline \o rest)[i + 1]
  BY <1>3, <1>4, HeadTailProperties, LenProperties
<1>6. \A i \in 1..Len(rest) : Tail(Baseline \o rest)[i] = rest[i]
  BY <1>3, <1>5, LenProperties
<1>7. Tail(Baseline \o rest) = rest
  BY <1>5, <1>6, SeqEqual
<1> QED
  BY <1>1, <1>3, <1>4, <1>7

----------------------------------------------------------------------------
(* The inductive invariant *)

Prepared == {"prepare", "swept", "create", "resolve", "append", "verify", "unmark",
             "settle", "prompt"}

Installed(rules, original) ==
  \E agent \in AgentRules : rules = Baseline \o RestrictivePermissions(agent, original)

\* Locks are exclusive, and a worker that is off has none.
LocksHeld ==
  \A w \in Workers :
    /\ worker[w].pc = "off" => worker[w] = Off
    /\ worker[w].pc # "off" => worker[w].runtime \in Runtimes
    /\ \A v \in Workers \ {w} :
         /\ worker[w].runtime \in Runtimes => worker[v].runtime # worker[w].runtime
         /\ worker[w].session \in Sessions => worker[v].session # worker[w].session

\* The owner file of a session names the runtime that has it, on record or by lock.
OwnersKept ==
  /\ \A r \in Runtimes : record[r].session \in Sessions => owner[record[r].session] = r
  /\ \A w \in Workers :
       worker[w].session \in Sessions => owner[worker[w].session] = worker[w].runtime

\* What a worker has in memory is what is on disk, as far as its preparation got.
InStepAt(w) ==
  LET pc == worker[w].pc
      rec == worker[w].rec
      disk == record[worker[w].runtime]
  IN /\ pc = "made" => rec.session \in Sessions
     /\ pc \in {"made", "adopt"} => disk.session = None
     /\ pc = "read" => disk.session \in {None, worker[w].session}
     /\ pc \in Prepared \cup {"read", "adopt"} => worker[w].session \in Sessions
     /\ pc \in Prepared => rec = disk /\ rec.session = worker[w].session
     /\ pc \in Prepared \ {"prepare", "prompt"} => rec.marker # NoMarker
     /\ pc \in {"append", "verify", "unmark", "settle"} => Installed(rec.pending, rec.original)
     /\ pc = "prompt" => rec.marker = NoMarker /\ Installed(rec.managed, rec.original)

InStep == \A w \in Workers : InStepAt(w)

\* The rules of a session, unless somebody else changed them, at each step.
RulesSeenBy(w) ==
  worker[w].session \in Sessions \ foreign =>
    LET pc == worker[w].pc
        rules == native[worker[w].session].rules
    IN /\ pc \in {"adopt", "prepare", "swept", "create"} => rules = worker[w].seen
       /\ pc \in {"resolve", "append"} => rules = Baseline
       /\ pc \in {"verify", "unmark", "settle"} => rules = worker[w].rec.pending
       /\ pc = "prompt" => rules = worker[w].rec.managed

RulesSeen == \A w \in Workers : RulesSeenBy(w)

\* The same, for whoever finds the record later.
RulesExpectedBy(r) ==
  record[r].session \in Sessions \ foreign =>
    LET rules == native[record[r].session].rules
    IN \/ rules = Expected(record[r])
       \/ record[r].marker # NoMarker /\ rules = Baseline
       \/ record[r].marker # NoMarker /\ record[r].pending # <<>> /\ rules = record[r].pending

RulesExpected == \A r \in Runtimes : RulesExpectedBy(r)

\* A marker is gone before it is forgotten.
MarkersSweptBy(w) ==
  worker[w].pc \in {"swept", "settle"} =>
    worker[w].rec.marker \notin native[worker[w].session].markers \ stray

MarkersSwept == \A w \in Workers : MarkersSweptBy(w)

\* A session is adopted once, and its original rules stay on record.
OriginalsKept ==
  \A s \in Sessions :
    /\ adopted[s] # None => owner[s] \in Runtimes /\ record[owner[s]].session = s
    /\ \A r \in Runtimes : record[r].session = s => adopted[s] = record[r].original

\* A session that does not exist is bare and unowned; one just created is as it was
\* made, unless somebody else got hold of it.
SessionsBorn ==
  /\ \A s \in Sessions : ~native[s].exists => owner[s] = None /\ native[s].rules = <<>>
  /\ \A w \in Workers : worker[w].named \in Sessions => native[worker[w].named].exists
  /\ \A q \in late : owner[q.session] # None
  /\ \A w \in Workers :
       worker[w].pc = "made" =>
         LET s == worker[w].rec.session
         IN /\ native[s].exists
            /\ owner[s] \in {None, worker[w].runtime} /\ s \notin foreign => native[s].rules = <<>>

SessionInv ==
  /\ LiveTypeOK /\ LocksHeld /\ OwnersKept /\ InStep
  /\ RulesSeen /\ RulesExpected /\ MarkersSwept /\ MarkersAccounted /\ OriginalsKept
  /\ SessionsBorn

----------------------------------------------------------------------------
(* What the steps of a worker do to it *)

Steppable == Resting \cup Preparing \cup {"prompt"}

\* Worker w becomes this, the others stay as they are.
Becomes(w, pc, runtime, named, session, rec, seen, undo) ==
  /\ worker' \in [Workers -> Worker]
  /\ worker'[w].pc = pc /\ worker'[w].runtime = runtime /\ worker'[w].named = named
  /\ worker'[w].session = session /\ worker'[w].rec = rec
  /\ worker'[w].seen = seen /\ worker'[w].undo = undo
  /\ \A v \in Workers \ {w} : worker'[v] = worker[v]

LEMMA GoesToEffect ==
  ASSUME worker \in [Workers -> Worker], NEW w \in Workers, NEW pc \in Steppable,
         NEW to \in Worker, GoesTo(w, pc, to)
  PROVE  Becomes(w, pc, to.runtime, to.named, to.session, to.rec, to.seen, to.undo)
<1>1. LET new == [to EXCEPT !.pc = pc]
      IN /\ new.pc = pc /\ new.runtime = to.runtime /\ new.named = to.named
         /\ new.session = to.session /\ new.rec = to.rec /\ new.seen = to.seen
         /\ new.undo = to.undo
  BY DEF Worker
<1>2. [to EXCEPT !.pc = pc] \in Worker
  BY DEF Worker, Steppable
<1> QED
  BY <1>1, <1>2 DEF GoesTo, Becomes

LEMMA OffIsWorker == Off \in Worker /\ NoRecord \in Record
  BY EmptySeq DEF Off, Worker, Record, NoRecord

\* Going on changes nothing else.
LEMMA GoesEffect ==
  ASSUME worker \in [Workers -> Worker], NEW w \in Workers, NEW pc \in Steppable, Goes(w, pc)
  PROVE  LET old == worker[w]
         IN Becomes(w, pc, old.runtime, old.named, old.session, old.rec, old.seen, old.undo)
  BY GoesToEffect DEF Goes

LEMMA EndsEffect ==
  ASSUME worker \in [Workers -> Worker], NEW w \in Workers, NEW pc \in Steppable, Ends(w, pc)
  PROVE  LET old == worker[w]
         IN Becomes(w, pc, old.runtime, old.named, old.session, NoRecord, <<>>, FALSE)
<1> DEFINE to == [worker[w] EXCEPT !.rec = NoRecord, !.seen = <<>>, !.undo = FALSE]
<1>1. worker[w] \in Worker
  OBVIOUS
<1>2. /\ to \in Worker
      /\ to.runtime = worker[w].runtime /\ to.named = worker[w].named
      /\ to.session = worker[w].session /\ to.rec = NoRecord
      /\ to.seen = <<>> /\ to.undo = FALSE
  BY <1>1, OffIsWorker, EmptySeq DEF Worker
<1>3. GoesTo(w, pc, to)
  BY DEF Ends
<1> HIDE DEF to
<1> QED
  BY <1>2, <1>3, GoesToEffect

\* A write changes the file and the copy in memory.
LEMMA WritesEffect ==
  ASSUME LiveTypeOK, NEW w \in Workers, worker[w].runtime \in Runtimes, NEW pc \in Steppable,
         NEW rec \in Record, Writes(w, rec, pc)
  PROVE  LET old == worker[w]
         IN /\ Becomes(w, pc, old.runtime, old.named, old.session, rec, old.seen, old.undo)
            /\ record' \in [Runtimes -> Record]
            /\ record'[old.runtime] = rec
            /\ \A r \in Runtimes \ {old.runtime} : record'[r] = record[r]
<1> DEFINE to == [worker[w] EXCEPT !.rec = rec]
<1>1. worker[w] \in Worker /\ worker \in [Workers -> Worker]
  BY DEF LiveTypeOK
<1>2. /\ to \in Worker
      /\ to.runtime = worker[w].runtime /\ to.named = worker[w].named
      /\ to.session = worker[w].session /\ to.rec = rec
      /\ to.seen = worker[w].seen /\ to.undo = worker[w].undo
  BY <1>1 DEF Worker
<1>3. GoesTo(w, pc, to) /\ record' = [record EXCEPT ![worker[w].runtime] = rec]
  BY DEF Writes
<1>4. record \in [Runtimes -> Record]
  BY DEF LiveTypeOK
<1> HIDE DEF to
<1>5. Becomes(w, pc, to.runtime, to.named, to.session, to.rec, to.seen, to.undo)
  BY <1>1, <1>2, <1>3, GoesToEffect
<1> QED
  BY <1>2, <1>3, <1>4, <1>5

\* Session s becomes this, the others stay as they are.
NativeBecomes(s, exists, rules, markers, undo) ==
  /\ native' \in [Sessions -> Native]
  /\ native'[s].exists = exists /\ native'[s].rules = rules
  /\ native'[s].markers = markers /\ native'[s].undo = undo
  /\ \A t \in Sessions \ {s} : native'[t] = native[t]

\* Worker w goes on, with this record on disk and in memory.
RecordBecomes(w, pc, rec) ==
  LET old == worker[w]
  IN /\ Becomes(w, pc, old.runtime, old.named, old.session, rec, old.seen, old.undo)
     /\ record' \in [Runtimes -> Record]
     /\ record'[old.runtime] = rec
     /\ \A r \in Runtimes \ {old.runtime} : record'[r] = record[r]

LEMMA NativeEffect ==
  ASSUME native \in [Sessions -> Native], NEW s \in Sessions, NEW new \in Native,
         native' = [native EXCEPT ![s] = new]
  PROVE  NativeBecomes(s, new.exists, new.rules, new.markers, new.undo)
  BY DEF NativeBecomes, Native

LEMMA StartEffect ==
  ASSUME LiveTypeOK, LocksHeld, InStep, NEW w \in Workers, NEW r \in Runtimes, NEW named \in Sessions \cup {None}, Start(w, r, named)
  PROVE  LET old == worker[w]
             s == worker[w].session
         IN Becomes(w, "session", r, named, None, NoRecord,
                    <<>>, FALSE)
<1>1. /\ worker \in [Workers -> Worker] /\ worker[w] \in Worker
      /\ native \in [Sessions -> Native] /\ record \in [Runtimes -> Record]
  BY DEF LiveTypeOK
<1> DEFINE to == [Off EXCEPT !.runtime = r, !.named = named]
<1>2. /\ to \in Worker /\ to.runtime = r /\ to.named = named /\ to.session = None
      /\ to.rec = NoRecord /\ to.seen = <<>> /\ to.undo = FALSE
  BY OffIsWorker DEF Worker, Off
<1>3. GoesTo(w, "session", to) /\ "session" \in Steppable
  BY DEF Start, Steppable
<1> HIDE DEF to
<1> QED
  BY <1>1, <1>2, <1>3, GoesToEffect

LEMMA RuntimeHeld ==
  ASSUME LiveTypeOK, LocksHeld, NEW w \in Workers, worker[w].pc # "off"
  PROVE  worker[w].runtime \in Runtimes
  BY DEF LocksHeld

LEMMA WantedIsSession ==
  ASSUME LiveTypeOK, NEW w \in Workers, worker[w].runtime \in Runtimes, Wanted(w) # None
  PROVE  Wanted(w) \in Sessions
  BY DEF LiveTypeOK, Wanted, HasRecord, OnRecord, Worker, Record

LEMMA ClaimSessionEffect ==
  ASSUME LiveTypeOK, LocksHeld, InStep, NEW w \in Workers, ClaimSession(w)
  PROVE  LET old == worker[w]
             s == worker[w].session
         IN /\ Wanted(w) \in Sessions
            /\ Becomes(w, "read", old.runtime, old.named, Wanted(w), old.rec,
                    old.seen, old.undo)
<1>1. /\ worker \in [Workers -> Worker] /\ worker[w] \in Worker
      /\ native \in [Sessions -> Native] /\ record \in [Runtimes -> Record]
  BY DEF LiveTypeOK
<1> DEFINE to == [worker[w] EXCEPT !.session = Wanted(w)]
<1>2. Wanted(w) \in Sessions
  BY RuntimeHeld, WantedIsSession DEF ClaimSession
<1>3. /\ to \in Worker /\ to.runtime = worker[w].runtime /\ to.named = worker[w].named
      /\ to.session = Wanted(w) /\ to.rec = worker[w].rec
      /\ to.seen = worker[w].seen /\ to.undo = worker[w].undo
  BY <1>1, <1>2 DEF Worker
<1>4. GoesTo(w, "read", to) /\ "read" \in Steppable
  BY DEF ClaimSession, Steppable
<1> HIDE DEF to
<1> QED
  BY <1>1, <1>2, <1>3, <1>4, GoesToEffect

LEMMA CreateSessionEffect ==
  ASSUME LiveTypeOK, LocksHeld, InStep, NEW w \in Workers, NEW new \in Sessions, CreateSession(w, new)
  PROVE  LET old == worker[w]
             s == worker[w].session
         IN /\ Becomes(w, "made", old.runtime, old.named, s, [old.rec EXCEPT !.session = new],
                       old.seen, old.undo)
            /\ NativeBecomes(new, TRUE, native[new].rules, native[new].markers, native[new].undo)
<1>1. /\ worker \in [Workers -> Worker] /\ worker[w] \in Worker
      /\ native \in [Sessions -> Native] /\ record \in [Runtimes -> Record]
  BY DEF LiveTypeOK
<1> DEFINE to == [worker[w] EXCEPT !.rec.session = new]
<1>2. /\ to \in Worker /\ to.runtime = worker[w].runtime /\ to.named = worker[w].named
      /\ to.session = worker[w].session /\ to.rec = [worker[w].rec EXCEPT !.session = new]
      /\ to.seen = worker[w].seen /\ to.undo = worker[w].undo
  BY <1>1 DEF Worker, Record
<1>3. GoesTo(w, "made", to) /\ "made" \in Steppable
  BY DEF CreateSession, Steppable
<1> HIDE DEF to
<1>4. Becomes(w, "made", to.runtime, to.named, to.session, to.rec, to.seen, to.undo)
  BY <1>1, <1>2, <1>3, GoesToEffect
<1> DEFINE after == [native[new] EXCEPT !.exists = TRUE]
<1>5. /\ after \in Native /\ after.exists = TRUE /\ after.rules = native[new].rules
      /\ after.markers = native[new].markers /\ after.undo = native[new].undo
  BY <1>1 DEF Native
<1>6. native' = [native EXCEPT ![new] = after]
  BY DEF CreateSession
<1> HIDE DEF after
<1>7. NativeBecomes(new, after.exists, after.rules, after.markers, after.undo)
  BY <1>1, <1>5, <1>6, NativeEffect
<1> QED
  BY <1>2, <1>4, <1>5, <1>7

LEMMA ClaimCreatedEffect ==
  ASSUME LiveTypeOK, LocksHeld, InStep, NEW w \in Workers, ClaimCreated(w)
  PROVE  LET old == worker[w]
             s == worker[w].session
         IN /\ old.rec.session \in Sessions
            /\ Becomes(w, "adopt", old.runtime, old.named, old.rec.session, old.rec, <<>>, old.undo)
<1>1. /\ worker \in [Workers -> Worker] /\ worker[w] \in Worker
      /\ native \in [Sessions -> Native] /\ record \in [Runtimes -> Record]
  BY DEF LiveTypeOK
<1> DEFINE to == [worker[w] EXCEPT !.session = worker[w].rec.session, !.seen = <<>>]
<1>2. worker[w].rec.session \in Sessions
  BY DEF ClaimCreated, InStep, InStepAt
<1>3. /\ to \in Worker /\ to.runtime = worker[w].runtime /\ to.named = worker[w].named
      /\ to.session = worker[w].rec.session /\ to.rec = worker[w].rec
      /\ to.seen = <<>> /\ to.undo = worker[w].undo
  BY <1>1, <1>2, EmptySeq DEF Worker
<1>4. GoesTo(w, "adopt", to) /\ "adopt" \in Steppable
  BY DEF ClaimCreated, Steppable
<1> HIDE DEF to
<1> QED
  BY <1>1, <1>2, <1>3, <1>4, GoesToEffect

LEMMA GetSessionEffect ==
  ASSUME LiveTypeOK, LocksHeld, InStep, NEW w \in Workers, GetSession(w)
  PROVE  LET old == worker[w]
             s == worker[w].session
         IN /\ s \in Sessions
            /\ Becomes(w, IF HasRecord(w) THEN "prepare" ELSE "adopt", old.runtime, old.named, s,
                       record[old.runtime], native[s].rules, native[s].undo)
<1>1. /\ worker \in [Workers -> Worker] /\ worker[w] \in Worker
      /\ native \in [Sessions -> Native] /\ record \in [Runtimes -> Record]
  BY DEF LiveTypeOK
<1> DEFINE to == [worker[w] EXCEPT !.rec = OnRecord(w), !.seen = native[worker[w].session].rules,
                                  !.undo = native[worker[w].session].undo]
<1> DEFINE pc == IF HasRecord(w) THEN "prepare" ELSE "adopt"
<1>2. worker[w].session \in Sessions /\ worker[w].runtime \in Runtimes
  BY RuntimeHeld DEF GetSession, InStep, InStepAt
<1>3. /\ to \in Worker /\ to.runtime = worker[w].runtime /\ to.named = worker[w].named
      /\ to.session = worker[w].session /\ to.rec = record[worker[w].runtime]
      /\ to.seen = native[worker[w].session].rules /\ to.undo = native[worker[w].session].undo
  BY <1>1, <1>2 DEF Worker, Native, OnRecord
<1>4. GoesTo(w, pc, to) /\ pc \in Steppable
  BY DEF GetSession, Steppable
<1> HIDE DEF to, pc
<1>5. Becomes(w, pc, to.runtime, to.named, to.session, to.rec, to.seen, to.undo)
  BY <1>1, <1>3, <1>4, GoesToEffect
<1> QED
  BY <1>2, <1>3, <1>5 DEF pc

LEMMA AdoptSessionEffect ==
  ASSUME LiveTypeOK, LocksHeld, InStep, NEW w \in Workers, AdoptSession(w)
  PROVE  LET old == worker[w]
             rec == record'[worker[w].runtime]
         IN /\ rec \in Record /\ RecordBecomes(w, "prepare", rec)
            /\ rec.session = old.session
            /\ rec.original = old.seen
            /\ rec.managed = <<>>
            /\ rec.marker = NoMarker
            /\ rec.pending = <<>>
<1>1. worker[w] \in Worker
  BY DEF LiveTypeOK
<1>2. worker[w].runtime \in Runtimes
  BY RuntimeHeld DEF AdoptSession
<1> DEFINE rec == [NoRecord EXCEPT !.session = worker[w].session, !.original = worker[w].seen]
<1>3. /\ rec \in Record
      /\ rec.session = worker[w].session
      /\ rec.original = worker[w].seen
      /\ rec.managed = <<>>
      /\ rec.marker = NoMarker
      /\ rec.pending = <<>>
  BY <1>1, OffIsWorker, EmptySeq DEF Worker, Record, NoRecord, AdoptSession, InStep, InStepAt
<1>4. Writes(w, rec, "prepare") /\ "prepare" \in Steppable
  BY DEF AdoptSession, Steppable
<1> HIDE DEF rec
<1>5. RecordBecomes(w, "prepare", rec)
  BY <1>2, <1>3, <1>4, WritesEffect DEF RecordBecomes
<1>6. record'[worker[w].runtime] = rec
  BY <1>5 DEF RecordBecomes
<1> QED
  BY <1>3, <1>5, <1>6

LEMMA ForgetMarkerEffect ==
  ASSUME LiveTypeOK, LocksHeld, InStep, NEW w \in Workers, ForgetMarker(w)
  PROVE  LET old == worker[w]
             rec == record'[worker[w].runtime]
         IN /\ rec \in Record /\ RecordBecomes(w, "prepare", rec)
            /\ rec.session = old.rec.session
            /\ rec.original = old.rec.original
            /\ rec.managed = old.seen
            /\ rec.marker = NoMarker
            /\ rec.pending = <<>>
<1>1. worker[w] \in Worker
  BY DEF LiveTypeOK
<1>2. worker[w].runtime \in Runtimes
  BY RuntimeHeld DEF ForgetMarker
<1> DEFINE rec == [worker[w].rec EXCEPT !.marker = NoMarker, !.pending = <<>>, !.managed = worker[w].seen]
<1>3. /\ rec \in Record
      /\ rec.session = worker[w].rec.session
      /\ rec.original = worker[w].rec.original
      /\ rec.managed = worker[w].seen
      /\ rec.marker = NoMarker
      /\ rec.pending = <<>>
  BY <1>1, EmptySeq DEF Worker, Record
<1>4. Writes(w, rec, "prepare") /\ "prepare" \in Steppable
  BY DEF ForgetMarker, Steppable
<1> HIDE DEF rec
<1>5. RecordBecomes(w, "prepare", rec)
  BY <1>2, <1>3, <1>4, WritesEffect DEF RecordBecomes
<1>6. record'[worker[w].runtime] = rec
  BY <1>5 DEF RecordBecomes
<1> QED
  BY <1>3, <1>5, <1>6

LEMMA MintMarkerEffect ==
  ASSUME LiveTypeOK, LocksHeld, InStep, NEW w \in Workers, MintMarker(w)
  PROVE  LET old == worker[w]
             rec == record'[worker[w].runtime]
         IN /\ rec \in Record /\ RecordBecomes(w, "create", rec)
            /\ rec.session = old.rec.session
            /\ rec.original = old.rec.original
            /\ rec.managed = old.rec.managed
            /\ rec.marker = minted + 1
            /\ rec.pending = old.rec.pending
<1>1. worker[w] \in Worker
  BY DEF LiveTypeOK
<1>2. worker[w].runtime \in Runtimes
  BY RuntimeHeld DEF MintMarker
<1>2a. minted + 1 \in Marker
  BY BoundsAreNumbers DEF Marker, MintMarker, LiveTypeOK
<1> DEFINE rec == [worker[w].rec EXCEPT !.marker = minted + 1]
<1>3. /\ rec \in Record
      /\ rec.session = worker[w].rec.session
      /\ rec.original = worker[w].rec.original
      /\ rec.managed = worker[w].rec.managed
      /\ rec.marker = minted + 1
      /\ rec.pending = worker[w].rec.pending
  BY <1>1, <1>2a DEF Worker, Record
<1>4. Writes(w, rec, "create") /\ "create" \in Steppable
  BY DEF MintMarker, Steppable
<1> HIDE DEF rec
<1>5. RecordBecomes(w, "create", rec)
  BY <1>2, <1>3, <1>4, WritesEffect DEF RecordBecomes
<1>6. record'[worker[w].runtime] = rec
  BY <1>5 DEF RecordBecomes
<1> QED
  BY <1>3, <1>5, <1>6

LEMMA ResolveAgentEffect ==
  ASSUME LiveTypeOK, LocksHeld, InStep, NEW w \in Workers, NEW agent \in AgentRules, ResolveAgent(w, agent)
  PROVE  LET old == worker[w]
             rec == record'[worker[w].runtime]
         IN /\ rec \in Record /\ RecordBecomes(w, "append", rec)
            /\ rec.session = old.rec.session
            /\ rec.original = old.rec.original
            /\ rec.managed = old.rec.managed
            /\ rec.marker = old.rec.marker
            /\ rec.pending = Baseline \o RestrictivePermissions(agent, old.rec.original)
<1>1. worker[w] \in Worker
  BY DEF LiveTypeOK
<1>2. worker[w].runtime \in Runtimes
  BY RuntimeHeld DEF ResolveAgent
<1>2a. Baseline \o RestrictivePermissions(agent, worker[w].rec.original) \in Seq(Rule)
  BY <1>1, RulesAreLists, RestrictiveIsRules, BaselineFirst DEF Worker, Record
<1> DEFINE rec == [worker[w].rec EXCEPT !.pending =
                   Baseline \o RestrictivePermissions(agent, worker[w].rec.original)]
<1>3. /\ rec \in Record
      /\ rec.session = worker[w].rec.session
      /\ rec.original = worker[w].rec.original
      /\ rec.managed = worker[w].rec.managed
      /\ rec.marker = worker[w].rec.marker
      /\ rec.pending = Baseline \o RestrictivePermissions(agent, worker[w].rec.original)
  BY <1>1, <1>2a DEF Worker, Record
<1>4. Writes(w, rec, "append") /\ "append" \in Steppable
  BY DEF ResolveAgent, Steppable
<1> HIDE DEF rec
<1>5. RecordBecomes(w, "append", rec)
  BY <1>2, <1>3, <1>4, WritesEffect DEF RecordBecomes
<1>6. record'[worker[w].runtime] = rec
  BY <1>5 DEF RecordBecomes
<1> QED
  BY <1>3, <1>5, <1>6

LEMMA SettleRecordEffect ==
  ASSUME LiveTypeOK, LocksHeld, InStep, NEW w \in Workers, SettleRecord(w)
  PROVE  LET old == worker[w]
             rec == record'[worker[w].runtime]
         IN /\ rec \in Record /\ RecordBecomes(w, "prompt", rec)
            /\ rec.session = old.rec.session
            /\ rec.original = old.rec.original
            /\ rec.managed = old.rec.pending
            /\ rec.marker = NoMarker
            /\ rec.pending = <<>>
<1>1. worker[w] \in Worker
  BY DEF LiveTypeOK
<1>2. worker[w].runtime \in Runtimes
  BY RuntimeHeld DEF SettleRecord
<1> DEFINE rec == [worker[w].rec EXCEPT !.managed = worker[w].rec.pending, !.marker = NoMarker,
                                 !.pending = <<>>]
<1>3. /\ rec \in Record
      /\ rec.session = worker[w].rec.session
      /\ rec.original = worker[w].rec.original
      /\ rec.managed = worker[w].rec.pending
      /\ rec.marker = NoMarker
      /\ rec.pending = <<>>
  BY <1>1, EmptySeq DEF Worker, Record
<1>4. Writes(w, rec, "prompt") /\ "prompt" \in Steppable
  BY DEF SettleRecord, Steppable
<1> HIDE DEF rec
<1>5. RecordBecomes(w, "prompt", rec)
  BY <1>2, <1>3, <1>4, WritesEffect DEF RecordBecomes
<1>6. record'[worker[w].runtime] = rec
  BY <1>5 DEF RecordBecomes
<1> QED
  BY <1>3, <1>5, <1>6

LEMMA SweepMarkerEffect ==
  ASSUME LiveTypeOK, LocksHeld, InStep, NEW w \in Workers, SweepMarker(w)
  PROVE  LET old == worker[w]
             s == worker[w].session
         IN /\ s \in Sessions
            /\ Becomes(w, "swept", old.runtime, old.named, s, old.rec, old.seen, old.undo)
            /\ NativeBecomes(s, native[s].exists, native[s].rules, native[s].markers \ {old.rec.marker}, native[s].undo)
<1>1. /\ worker \in [Workers -> Worker] /\ worker[w] \in Worker
      /\ native \in [Sessions -> Native] /\ record \in [Runtimes -> Record]
  BY DEF LiveTypeOK
<1>2. worker[w].session \in Sessions
  BY DEF SweepMarker, InStep, InStepAt, Prepared
<1>3. Goes(w, "swept") /\ "swept" \in Steppable
  BY DEF SweepMarker, Steppable
<1>4. LET old == worker[w]
      IN Becomes(w, "swept", old.runtime, old.named, old.session, old.rec, old.seen, old.undo)
  BY <1>1, <1>3, GoesEffect
<1> DEFINE s == worker[w].session
           after == [native[s] EXCEPT !.markers = @ \ {worker[w].rec.marker}]
<1>5. /\ after \in Native /\ after.exists = native[s].exists /\ after.rules = native[s].rules
      /\ after.markers = native[s].markers \ {worker[w].rec.marker} /\ after.undo = native[s].undo
  BY <1>1, <1>2 DEF Native
<1>6. native' = [native EXCEPT ![s] = after]
  BY DEF SweepMarker
<1> HIDE DEF after
<1>7. NativeBecomes(s, after.exists, after.rules, after.markers, after.undo)
  BY <1>1, <1>2, <1>5, <1>6, NativeEffect
<1> QED
  BY <1>2, <1>4, <1>5, <1>7

LEMMA RemovePreparationEffect ==
  ASSUME LiveTypeOK, LocksHeld, InStep, NEW w \in Workers, RemovePreparation(w)
  PROVE  LET old == worker[w]
             s == worker[w].session
         IN /\ s \in Sessions
            /\ Becomes(w, "settle", old.runtime, old.named, s, old.rec, old.seen, old.undo)
            /\ NativeBecomes(s, native[s].exists, native[s].rules, native[s].markers \ {old.rec.marker}, native[s].undo)
<1>1. /\ worker \in [Workers -> Worker] /\ worker[w] \in Worker
      /\ native \in [Sessions -> Native] /\ record \in [Runtimes -> Record]
  BY DEF LiveTypeOK
<1>2. worker[w].session \in Sessions
  BY DEF RemovePreparation, InStep, InStepAt, Prepared
<1>3. Goes(w, "settle") /\ "settle" \in Steppable
  BY DEF RemovePreparation, Steppable
<1>4. LET old == worker[w]
      IN Becomes(w, "settle", old.runtime, old.named, old.session, old.rec, old.seen, old.undo)
  BY <1>1, <1>3, GoesEffect
<1> DEFINE s == worker[w].session
           after == [native[s] EXCEPT !.markers = @ \ {worker[w].rec.marker}]
<1>5. /\ after \in Native /\ after.exists = native[s].exists /\ after.rules = native[s].rules
      /\ after.markers = native[s].markers \ {worker[w].rec.marker} /\ after.undo = native[s].undo
  BY <1>1, <1>2 DEF Native
<1>6. native' = [native EXCEPT ![s] = after]
  BY DEF RemovePreparation
<1> HIDE DEF after
<1>7. NativeBecomes(s, after.exists, after.rules, after.markers, after.undo)
  BY <1>1, <1>2, <1>5, <1>6, NativeEffect
<1> QED
  BY <1>2, <1>4, <1>5, <1>7

LEMMA CreatePreparationEffect ==
  ASSUME LiveTypeOK, LocksHeld, InStep, NEW w \in Workers, CreatePreparation(w)
  PROVE  LET old == worker[w]
             s == worker[w].session
         IN /\ s \in Sessions
            /\ Becomes(w, "resolve", old.runtime, old.named, s, old.rec, old.seen, old.undo)
            /\ NativeBecomes(s, native[s].exists, Baseline, native[s].markers \cup {old.rec.marker}, FALSE)
<1>1. /\ worker \in [Workers -> Worker] /\ worker[w] \in Worker
      /\ native \in [Sessions -> Native] /\ record \in [Runtimes -> Record]
  BY DEF LiveTypeOK
<1>2. worker[w].session \in Sessions
  BY DEF CreatePreparation, InStep, InStepAt, Prepared
<1>3. Goes(w, "resolve") /\ "resolve" \in Steppable
  BY DEF CreatePreparation, Steppable
<1>4. LET old == worker[w]
      IN Becomes(w, "resolve", old.runtime, old.named, old.session, old.rec, old.seen, old.undo)
  BY <1>1, <1>3, GoesEffect
<1> DEFINE s == worker[w].session
           after == WithPreparation(native[s], worker[w].rec.marker)
<1>5. /\ after \in Native /\ after.exists = native[s].exists /\ after.rules = Baseline
      /\ after.markers = native[s].markers \cup {worker[w].rec.marker} /\ after.undo = FALSE
  <2>1. Baseline \in Seq(Rule)
    BY WildcardIsRules DEF Baseline
  <2>2. worker[w].rec.marker \in Marker
    BY <1>1 DEF CreatePreparation, InStep, InStepAt, Prepared, Worker, Record
  <2> QED
    BY <1>1, <1>2, <2>1, <2>2 DEF Native, WithPreparation
<1>6. native' = [native EXCEPT ![s] = after]
  BY DEF CreatePreparation
<1> HIDE DEF after
<1>7. NativeBecomes(s, after.exists, after.rules, after.markers, after.undo)
  BY <1>1, <1>2, <1>5, <1>6, NativeEffect
<1> QED
  BY <1>2, <1>4, <1>5, <1>7

\* What is appended completes the baseline.
LEMMA RestrictiveOfInstalled ==
  ASSUME LiveTypeOK, InStep, NEW w \in Workers, worker[w].pc \in {"append", "verify", "unmark", "settle"}
  PROVE  /\ Restrictive(w) \in Seq(Rule)
         /\ Baseline \o Restrictive(w) = worker[w].rec.pending
         /\ worker[w].rec.pending # <<>>
<1>1. worker[w].rec.original \in Seq(Rule)
  BY DEF LiveTypeOK, Worker, Record
<1>2. PICK agent \in AgentRules :
        worker[w].rec.pending = Baseline \o RestrictivePermissions(agent, worker[w].rec.original)
  BY DEF InStep, InStepAt, Installed
<1>3. RestrictivePermissions(agent, worker[w].rec.original) \in Seq(Rule)
  BY <1>1, RulesAreLists, RestrictiveIsRules
<1> QED
  BY <1>2, <1>3, BaselineFirst DEF Restrictive

LEMMA AppendSessionPermissionsEffect ==
  ASSUME LiveTypeOK, LocksHeld, InStep, NEW w \in Workers, AppendSessionPermissions(w)
  PROVE  LET old == worker[w]
             s == worker[w].session
         IN /\ s \in Sessions
            /\ Becomes(w, "verify", old.runtime, old.named, s, old.rec, old.seen, old.undo)
            /\ NativeBecomes(s, native[s].exists, native[s].rules \o Restrictive(w), native[s].markers, native[s].undo)
<1>1. /\ worker \in [Workers -> Worker] /\ worker[w] \in Worker
      /\ native \in [Sessions -> Native] /\ record \in [Runtimes -> Record]
  BY DEF LiveTypeOK
<1>2. worker[w].session \in Sessions
  BY DEF AppendSessionPermissions, InStep, InStepAt, Prepared
<1>3. Goes(w, "verify") /\ "verify" \in Steppable
  BY DEF AppendSessionPermissions, Steppable
<1>4. LET old == worker[w]
      IN Becomes(w, "verify", old.runtime, old.named, old.session, old.rec, old.seen, old.undo)
  BY <1>1, <1>3, GoesEffect
<1> DEFINE s == worker[w].session
           after == [native[s] EXCEPT !.rules = @ \o Restrictive(w)]
<1>5. /\ after \in Native /\ after.exists = native[s].exists /\ after.rules = native[s].rules \o Restrictive(w)
      /\ after.markers = native[s].markers /\ after.undo = native[s].undo
  <2>1. Restrictive(w) \in Seq(Rule)
    BY RestrictiveOfInstalled DEF AppendSessionPermissions
  <2>2. native[s].rules \o Restrictive(w) \in Seq(Rule)
    BY <1>1, <1>2, <2>1, ConcatProperties DEF Native
  <2> QED
    BY <1>1, <1>2, <2>2 DEF Native
<1>6. native' = [native EXCEPT ![s] = after]
  BY DEF AppendSessionPermissions
<1> HIDE DEF after
<1>7. NativeBecomes(s, after.exists, after.rules, after.markers, after.undo)
  BY <1>1, <1>2, <1>5, <1>6, NativeEffect
<1> QED
  BY <1>2, <1>4, <1>5, <1>7

LEMMA ExecuteEffect ==
  ASSUME LiveTypeOK, NEW w \in Workers, Execute(w)
  PROVE  LET old == worker[w] IN Becomes(w, "session", old.runtime, old.named, old.session, old.rec, old.seen, old.undo)
<1>1. worker \in [Workers -> Worker]
  BY DEF LiveTypeOK
<1>2. Goes(w, "session") /\ "session" \in Steppable
  BY DEF Execute, Steppable
<1> QED
  BY <1>1, <1>2, GoesEffect

LEMMA VerifyReadbackEffect ==
  ASSUME LiveTypeOK, NEW w \in Workers, VerifyReadback(w)
  PROVE  LET old == worker[w] IN Becomes(w, "unmark", old.runtime, old.named, old.session, old.rec, old.seen, old.undo)
<1>1. worker \in [Workers -> Worker]
  BY DEF LiveTypeOK
<1>2. Goes(w, "unmark") /\ "unmark" \in Steppable
  BY DEF VerifyReadback, Steppable
<1> QED
  BY <1>1, <1>2, GoesEffect

LEMMA PromptEndsEffect ==
  ASSUME LiveTypeOK, NEW w \in Workers, PromptEnds(w)
  PROVE  LET old == worker[w] IN Becomes(w, "idle", old.runtime, old.named, old.session, NoRecord, <<>>, FALSE)
<1>1. worker \in [Workers -> Worker]
  BY DEF LiveTypeOK
<1>2. Ends(w, "idle") /\ "idle" \in Steppable
  BY DEF PromptEnds, Steppable
<1> QED
  BY <1>1, <1>2, EndsEffect

LEMMA RefuseEffect ==
  ASSUME LiveTypeOK, NEW w \in Workers, Refuse(w)
  PROVE  LET old == worker[w] IN Becomes(w, "idle", old.runtime, old.named, old.session, NoRecord, <<>>, FALSE)
<1>1. worker \in [Workers -> Worker]
  BY DEF LiveTypeOK
<1>2. Ends(w, "idle") /\ "idle" \in Steppable
  BY DEF Refuse, Steppable
<1> QED
  BY <1>1, <1>2, EndsEffect

LEMMA FailEffect ==
  ASSUME LiveTypeOK, NEW w \in Workers, NEW pc \in {"idle", "broken"}, Fail(w, pc)
  PROVE  LET old == worker[w] IN Becomes(w, pc, old.runtime, old.named, old.session, NoRecord, <<>>, FALSE)
<1>1. worker \in [Workers -> Worker]
  BY DEF LiveTypeOK
<1>2. Ends(w, pc) /\ pc \in Steppable
  BY DEF Fail, Steppable
<1> QED
  BY <1>1, <1>2, EndsEffect

LEMMA CloseEffect ==
  ASSUME LiveTypeOK, NEW w \in Workers, Close(w) \/ Kill(w)
  PROVE  /\ worker' \in [Workers -> Worker]
         /\ worker'[w] = Off
         /\ \A v \in Workers \ {w} : worker'[v] = worker[v]
<1>1. worker \in [Workers -> Worker]
  BY DEF LiveTypeOK
<1>2. worker' = [worker EXCEPT ![w] = Off]
  BY DEF Close, Kill
<1> QED
  BY <1>1, <1>2, OffIsWorker

\* What may still be executed after a worker was killed.
LEMMA UnderWayIsRequest ==
  ASSUME LiveTypeOK, InStep, NEW w \in Workers
  PROVE  /\ UnderWay(w) \subseteq Request
         /\ \A q \in UnderWay(w) : q.session = worker[w].session
<1>1. worker[w] \in Worker
  BY DEF LiveTypeOK
<1>2. worker[w].pc \in {"create", "append", "unmark"} \/ (worker[w].pc = "prepare" /\ Interrupted(w)) =>
        worker[w].session \in Sessions /\ worker[w].rec.marker \in Marker
  BY <1>1 DEF InStep, InStepAt, Prepared, Worker, Record, Interrupted
<1>3. worker[w].pc = "append" => Restrictive(w) \in Seq(Rule)
  BY RestrictiveOfInstalled
<1>4. <<>> \in Seq(Rule)
  BY EmptySeq
<1>5. CASE worker[w].pc = "create"
  BY <1>2, <1>4, <1>5 DEF UnderWay, Request
<1>6. CASE worker[w].pc = "append"
  BY <1>2, <1>3, <1>6 DEF UnderWay, Request
<1>7. CASE worker[w].pc = "unmark"
  BY <1>2, <1>4, <1>7 DEF UnderWay, Request
<1>8. CASE worker[w].pc = "prepare" /\ Interrupted(w)
  BY <1>2, <1>4, <1>8 DEF UnderWay, Request
<1>9. CASE worker[w].pc \notin {"create", "append", "unmark"} /\ ~(worker[w].pc = "prepare" /\ Interrupted(w))
  BY <1>9 DEF UnderWay
<1> QED
  BY <1>5, <1>6, <1>7, <1>8, <1>9

LEMMA EditRulesEffect ==
  ASSUME LiveTypeOK, NEW s \in Sessions, NEW rules \in HumanRules, EditRules(s, rules)
  PROVE  NativeBecomes(s, native[s].exists, rules, native[s].markers, native[s].undo)
<1>1. native \in [Sessions -> Native] /\ late \subseteq Request /\ s \in Sessions
  BY DEF LiveTypeOK, Request
<1> DEFINE after == [native[s] EXCEPT !.rules = rules]
<1>2. /\ after \in Native /\ after.exists = native[s].exists /\ after.rules = rules
      /\ after.markers = native[s].markers /\ after.undo = native[s].undo
  BY <1>1, RulesAreLists DEF Native
<1>3. native' = [native EXCEPT ![s] = after]
  BY DEF EditRules
<1> HIDE DEF after
<1>4. NativeBecomes(s, after.exists, after.rules, after.markers, after.undo)
  BY <1>1, <1>2, <1>3, NativeEffect
<1> QED
  BY <1>2, <1>4

LEMMA UndoEffect ==
  ASSUME LiveTypeOK, NEW s \in Sessions, Undo(s)
  PROVE  NativeBecomes(s, native[s].exists, native[s].rules, native[s].markers, TRUE)
<1>1. native \in [Sessions -> Native] /\ late \subseteq Request /\ s \in Sessions
  BY DEF LiveTypeOK, Request
<1> DEFINE after == [native[s] EXCEPT !.undo = TRUE]
<1>2. /\ after \in Native /\ after.exists = native[s].exists /\ after.rules = native[s].rules
      /\ after.markers = native[s].markers /\ after.undo = TRUE
  BY <1>1 DEF Native
<1>3. native' = [native EXCEPT ![s] = after]
  BY DEF Undo
<1> HIDE DEF after
<1>4. NativeBecomes(s, after.exists, after.rules, after.markers, after.undo)
  BY <1>1, <1>2, <1>3, NativeEffect
<1> QED
  BY <1>2, <1>4

LEMMA ResolveUndoEffect ==
  ASSUME LiveTypeOK, NEW s \in Sessions, ResolveUndo(s)
  PROVE  NativeBecomes(s, native[s].exists, native[s].rules, native[s].markers, FALSE)
<1>1. native \in [Sessions -> Native] /\ late \subseteq Request /\ s \in Sessions
  BY DEF LiveTypeOK, Request
<1> DEFINE after == [native[s] EXCEPT !.undo = FALSE]
<1>2. /\ after \in Native /\ after.exists = native[s].exists /\ after.rules = native[s].rules
      /\ after.markers = native[s].markers /\ after.undo = FALSE
  BY <1>1 DEF Native
<1>3. native' = [native EXCEPT ![s] = after]
  BY DEF ResolveUndo
<1> HIDE DEF after
<1>4. NativeBecomes(s, after.exists, after.rules, after.markers, after.undo)
  BY <1>1, <1>2, <1>3, NativeEffect
<1> QED
  BY <1>2, <1>4

\* A late request that is not a removal makes its session foreign, and one that
\* creates a marker makes the marker a stray.
LEMMA ExecuteLateEffect ==
  ASSUME LiveTypeOK, NEW q \in late, ExecuteLate(q)
  PROVE  /\ q \in Request /\ late' = late \ {q}
         /\ \E rules \in Seq(Rule), markers \in SUBSET Marker, undo \in BOOLEAN :
              /\ NativeBecomes(q.session, native[q.session].exists, rules, markers, undo)
              /\ rules = native[q.session].rules \/ q.session \in foreign'
              /\ markers \ stray' \subseteq native[q.session].markers \ stray
         /\ foreign' \in {foreign, foreign \cup {q.session}}
         /\ stray' \in {stray, stray \cup {q.marker}}
<1>1. native \in [Sessions -> Native] /\ q \in Request /\ q.session \in Sessions
  BY DEF LiveTypeOK, Request
<1>2. native[q.session] \in Native
  BY <1>1
<1>4. /\ foreign' = IF q.kind = "remove" THEN foreign ELSE foreign \cup {q.session}
      /\ stray' = IF q.kind = "create" THEN stray \cup {q.marker} ELSE stray
      /\ late' = late \ {q}
  BY DEF ExecuteLate
<1>3. native' = [native EXCEPT ![q.session] = AfterLate(q, native[q.session])]
  BY DEF ExecuteLate
<1>5. CASE q.kind = "create"
  <2> DEFINE after == WithPreparation(native[q.session], q.marker)
  <2>1. Baseline \in Seq(Rule)
    BY WildcardIsRules DEF Baseline
  <2>2. native' = [native EXCEPT ![q.session] = after]
    BY <1>3, <1>5 DEF AfterLate
  <2>3. /\ after \in Native /\ after.exists = native[q.session].exists
        /\ after.rules = Baseline /\ after.undo = FALSE
        /\ after.markers = native[q.session].markers \cup {q.marker}
    BY <1>1, <1>2, <2>1, <2>2 DEF WithPreparation, Native, Request
  <2> HIDE DEF after
  <2>4. NativeBecomes(q.session, after.exists, after.rules, after.markers, after.undo)
    BY <1>1, <2>2, <2>3, NativeEffect
  <2>5. after.rules \in Seq(Rule) /\ after.markers \in SUBSET Marker /\ after.undo \in BOOLEAN
    BY <2>3 DEF Native
  <2>6. after.markers \ stray' \subseteq native[q.session].markers \ stray
    BY <1>4, <1>5, <2>3
  <2> QED
    BY <1>1, <1>4, <1>5, <2>3, <2>4, <2>5, <2>6
<1>6. CASE q.kind = "append"
  <2> DEFINE after == [native[q.session] EXCEPT !.rules = @ \o q.rules]
  <2>1. native[q.session].rules \o q.rules \in Seq(Rule)
    BY <1>1, <1>2, ConcatProperties DEF Native, Request
  <2>2. native' = [native EXCEPT ![q.session] = after]
    BY <1>3, <1>6 DEF AfterLate
  <2>3. /\ after \in Native /\ after.exists = native[q.session].exists
        /\ after.undo = native[q.session].undo /\ after.markers = native[q.session].markers
    BY <1>2, <2>1, <2>2 DEF Native
  <2> HIDE DEF after
  <2>4. NativeBecomes(q.session, after.exists, after.rules, after.markers, after.undo)
    BY <1>1, <2>2, <2>3, NativeEffect
  <2>5. after.rules \in Seq(Rule) /\ after.markers \in SUBSET Marker /\ after.undo \in BOOLEAN
    BY <2>3 DEF Native
  <2> QED
    BY <1>1, <1>4, <1>6, <2>3, <2>4, <2>5
<1>7. CASE q.kind = "remove"
  <2> DEFINE after == [native[q.session] EXCEPT !.markers = @ \ {q.marker}]
  <2>1. native' = [native EXCEPT ![q.session] = after]
    BY <1>3, <1>7 DEF AfterLate
  <2>2. /\ after \in Native /\ after.exists = native[q.session].exists
        /\ after.rules = native[q.session].rules /\ after.undo = native[q.session].undo
        /\ after.markers = native[q.session].markers \ {q.marker}
    BY <1>2, <2>1 DEF Native
  <2> HIDE DEF after
  <2>3. NativeBecomes(q.session, after.exists, after.rules, after.markers, after.undo)
    BY <1>1, <2>1, <2>2, NativeEffect
  <2>4. after.rules \in Seq(Rule) /\ after.markers \in SUBSET Marker /\ after.undo \in BOOLEAN
    BY <2>2 DEF Native
  <2> QED
    BY <1>1, <1>4, <1>7, <2>2, <2>3, <2>4
<1> QED
  BY <1>1, <1>5, <1>6, <1>7 DEF Request

----------------------------------------------------------------------------
(* Types *)

\* Every step keeps the types.
LEMMA TypesKept ==
  ASSUME LiveTypeOK, LocksHeld, InStep, [Next]_vars
  PROVE  LiveTypeOK'
<1>1. ASSUME NEW w \in Workers, NEW r \in Runtimes, NEW named \in Sessions \cup {None}, Start(w, r, named)
      PROVE  LiveTypeOK'
  BY <1>1, StartEffect DEF LiveTypeOK, outside, Becomes, NativeBecomes, Start
<1>2. ASSUME NEW w \in Workers, Execute(w)
      PROVE  LiveTypeOK'
  BY <1>2, ExecuteEffect DEF LiveTypeOK, outside, Becomes, NativeBecomes, Execute
<1>3. ASSUME NEW w \in Workers, ClaimSession(w)
      PROVE  LiveTypeOK'
  <2>1. worker' \in [Workers -> Worker] /\ Wanted(w) \in Sessions
    BY <1>3, ClaimSessionEffect DEF Becomes
  <2>2. worker[w].runtime \in Runtimes
    BY <1>3, RuntimeHeld DEF ClaimSession
  <2>3. owner' \in [Sessions -> Runtimes \cup {None}]
    BY <1>3, <2>1, <2>2 DEF ClaimSession, LiveTypeOK
  <2> QED
    BY <1>3, <2>1, <2>3 DEF ClaimSession, LiveTypeOK, outside
<1>4. ASSUME NEW w \in Workers, ClaimCreated(w)
      PROVE  LiveTypeOK'
  <2>1. worker' \in [Workers -> Worker] /\ worker[w].rec.session \in Sessions
    BY <1>4, ClaimCreatedEffect DEF Becomes
  <2>2. worker[w].runtime \in Runtimes
    BY <1>4, RuntimeHeld DEF ClaimCreated
  <2>3. owner' \in [Sessions -> Runtimes \cup {None}] /\ foreign' \subseteq Sessions
    BY <1>4, <2>1, <2>2 DEF ClaimCreated, LiveTypeOK
  <2> QED
    BY <1>4, <2>1, <2>3 DEF ClaimCreated, LiveTypeOK, outside
<1>5. ASSUME NEW w \in Workers, GetSession(w)
      PROVE  LiveTypeOK'
  BY <1>5, GetSessionEffect DEF LiveTypeOK, outside, Becomes, NativeBecomes, GetSession
<1>6. ASSUME NEW w \in Workers, AdoptSession(w)
      PROVE  LiveTypeOK'
  <2>1. worker' \in [Workers -> Worker] /\ record' \in [Runtimes -> Record]
    BY <1>6, AdoptSessionEffect DEF RecordBecomes, Becomes
  <2>2. worker[w].session \in Sessions /\ worker[w].seen \in Seq(Rule)
    BY <1>6 DEF AdoptSession, InStep, InStepAt, LiveTypeOK, Worker
  <2>3. adopted' \in [Sessions -> Seq(Rule) \cup {None}]
    BY <1>6, <2>2 DEF AdoptSession, LiveTypeOK
  <2> QED
    BY <1>6, <2>1, <2>3 DEF AdoptSession, LiveTypeOK, outside
<1>7. ASSUME NEW w \in Workers, NEW s \in Sessions, CreateSession(w, s)
      PROVE  LiveTypeOK'
  BY <1>7, CreateSessionEffect DEF LiveTypeOK, outside, Becomes, NativeBecomes, CreateSession
<1>8. ASSUME NEW w \in Workers, SweepMarker(w)
      PROVE  LiveTypeOK'
  BY <1>8, SweepMarkerEffect DEF LiveTypeOK, outside, Becomes, NativeBecomes, SweepMarker
<1>9. ASSUME NEW w \in Workers, ForgetMarker(w)
      PROVE  LiveTypeOK'
  BY <1>9, ForgetMarkerEffect DEF LiveTypeOK, outside, Becomes, NativeBecomes, ForgetMarker, RecordBecomes
<1>10. ASSUME NEW w \in Workers, MintMarker(w)
      PROVE  LiveTypeOK'
  <2>1. minted' \in 0..MaxMarkers
    BY <1>10, BoundsAreNumbers DEF MintMarker, LiveTypeOK
  <2>2. worker' \in [Workers -> Worker] /\ record' \in [Runtimes -> Record]
    BY <1>10, MintMarkerEffect DEF RecordBecomes, Becomes
  <2> QED
    BY <1>10, <2>1, <2>2 DEF MintMarker, LiveTypeOK, outside
<1>11. ASSUME NEW w \in Workers, CreatePreparation(w)
      PROVE  LiveTypeOK'
  BY <1>11, CreatePreparationEffect DEF LiveTypeOK, outside, Becomes, NativeBecomes, CreatePreparation
<1>12. ASSUME NEW w \in Workers, NEW agent \in AgentRules, ResolveAgent(w, agent)
      PROVE  LiveTypeOK'
  BY <1>12, ResolveAgentEffect DEF LiveTypeOK, outside, Becomes, NativeBecomes, ResolveAgent, RecordBecomes
<1>13. ASSUME NEW w \in Workers, AppendSessionPermissions(w)
      PROVE  LiveTypeOK'
  BY <1>13, AppendSessionPermissionsEffect DEF LiveTypeOK, outside, Becomes, NativeBecomes, AppendSessionPermissions
<1>14. ASSUME NEW w \in Workers, VerifyReadback(w)
      PROVE  LiveTypeOK'
  BY <1>14, VerifyReadbackEffect DEF LiveTypeOK, outside, Becomes, NativeBecomes, VerifyReadback
<1>15. ASSUME NEW w \in Workers, RemovePreparation(w)
      PROVE  LiveTypeOK'
  BY <1>15, RemovePreparationEffect DEF LiveTypeOK, outside, Becomes, NativeBecomes, RemovePreparation
<1>16. ASSUME NEW w \in Workers, SettleRecord(w)
      PROVE  LiveTypeOK'
  BY <1>16, SettleRecordEffect DEF LiveTypeOK, outside, Becomes, NativeBecomes, SettleRecord, RecordBecomes
<1>17. ASSUME NEW w \in Workers, PromptEnds(w)
      PROVE  LiveTypeOK'
  BY <1>17, PromptEndsEffect DEF LiveTypeOK, outside, Becomes, NativeBecomes, PromptEnds
<1>18. ASSUME NEW w \in Workers, Refuse(w)
      PROVE  LiveTypeOK'
  BY <1>18, RefuseEffect DEF LiveTypeOK, outside, Becomes, NativeBecomes, Refuse
<1>19. ASSUME NEW w \in Workers, NEW pc \in {"idle", "broken"}, Fail(w, pc)
      PROVE  LiveTypeOK'
  <2>1. faults' \in 0..MaxFaults
    BY <1>19, BoundsAreNumbers DEF Fail, LiveTypeOK
  <2>2. worker' \in [Workers -> Worker]
    BY <1>19, FailEffect DEF Fail, Becomes
  <2> QED
    BY <1>19, <2>1, <2>2 DEF Fail, LiveTypeOK, outside
<1>20. ASSUME NEW w \in Workers, Close(w)
      PROVE  LiveTypeOK'
  BY <1>20, CloseEffect DEF LiveTypeOK, outside, Becomes, NativeBecomes, Close
<1>21. ASSUME NEW w \in Workers, Kill(w)
      PROVE  LiveTypeOK'
  <2>1. faults' \in 0..MaxFaults
    BY <1>21, BoundsAreNumbers DEF Kill, LiveTypeOK
  <2>2. worker' \in [Workers -> Worker]
    BY <1>21, CloseEffect
  <2>3. PICK requests \in SUBSET UnderWay(w) : late' = late \cup requests
    BY <1>21 DEF Kill
  <2>4. late' \subseteq Request
    BY <2>3, UnderWayIsRequest DEF LiveTypeOK
  <2> QED
    BY <1>21, <2>1, <2>2, <2>4 DEF Kill, LiveTypeOK, outside
<1>22. ASSUME NEW q \in late, ExecuteLate(q)
      PROVE  LiveTypeOK'
  <2>1. native' \in [Sessions -> Native]
    BY <1>22, ExecuteLateEffect DEF NativeBecomes
  <2>2. q \in Request /\ late' \subseteq Request
    BY <1>22, ExecuteLateEffect DEF LiveTypeOK
  <2>3. foreign' \subseteq Sessions /\ stray' \subseteq Marker
    BY <1>22, <2>2, ExecuteLateEffect DEF LiveTypeOK, Request
  <2> QED
    BY <1>22, <2>1, <2>2, <2>3 DEF ExecuteLate, LiveTypeOK, outside
<1>23. ASSUME NEW s \in Sessions, NEW rules \in HumanRules, EditRules(s, rules)
      PROVE  LiveTypeOK'
  <2>1. edits' \in 0..MaxEdits
    BY <1>23, BoundsAreNumbers DEF EditRules, LiveTypeOK
  <2>2. native' \in [Sessions -> Native]
    BY <1>23, EditRulesEffect DEF EditRules, NativeBecomes
  <2> QED
    BY <1>23, <2>1, <2>2 DEF EditRules, LiveTypeOK, outside
<1>24. ASSUME NEW s \in Sessions, Undo(s)
      PROVE  LiveTypeOK'
  <2>1. edits' \in 0..MaxEdits
    BY <1>24, BoundsAreNumbers DEF Undo, LiveTypeOK
  <2>2. native' \in [Sessions -> Native]
    BY <1>24, UndoEffect DEF Undo, NativeBecomes
  <2> QED
    BY <1>24, <2>1, <2>2 DEF Undo, LiveTypeOK, outside
<1>25. ASSUME NEW s \in Sessions, ResolveUndo(s)
      PROVE  LiveTypeOK'
  BY <1>25, ResolveUndoEffect DEF LiveTypeOK, outside, Becomes, NativeBecomes, ResolveUndo
<1>26. CASE UNCHANGED vars
  BY <1>26 DEF vars, outside, LiveTypeOK, outside, Becomes, NativeBecomes
<1> QED
  BY <1>1, <1>2, <1>3, <1>4, <1>5, <1>6, <1>7, <1>8, <1>9, <1>10, <1>11, <1>12, <1>13,
     <1>14, <1>15, <1>16, <1>17, <1>18, <1>19, <1>20, <1>21, <1>22, <1>23, <1>24, <1>25, <1>26 DEF Next, Steps

----------------------------------------------------------------------------
(* Locks and owners *)

\* Locks stay exclusive when the ones that worker w takes are free.
LEMMA LocksAreExclusive ==
  ASSUME LocksHeld, NEW w \in Workers,
         worker'[w].pc = "off" => worker'[w] = Off,
         worker'[w].pc # "off" => worker'[w].runtime \in Runtimes,
         \A v \in Workers \ {w} :
           /\ worker'[v] = worker[v]
           /\ worker'[w].runtime \in Runtimes => worker[v].runtime # worker'[w].runtime
           /\ worker'[w].session \in Sessions => worker[v].session # worker'[w].session
  PROVE  LocksHeld'
<1> SUFFICES ASSUME NEW u \in Workers
             PROVE  /\ worker'[u].pc = "off" => worker'[u] = Off
                    /\ worker'[u].pc # "off" => worker'[u].runtime \in Runtimes
                    /\ \A v \in Workers \ {u} :
                         /\ worker'[u].runtime \in Runtimes => worker'[v].runtime # worker'[u].runtime
                         /\ worker'[u].session \in Sessions => worker'[v].session # worker'[u].session
  BY DEF LocksHeld, Off
<1>1. CASE u = w
  BY <1>1
<1>2. CASE u # w
  BY <1>2 DEF LocksHeld
<1> QED
  BY <1>1, <1>2

LEMMA SameLocks ==
  ASSUME LocksHeld, NEW w \in Workers, worker[w].pc # "off", worker'[w].pc # "off",
         worker'[w].runtime = worker[w].runtime, worker'[w].session = worker[w].session,
         \A v \in Workers \ {w} : worker'[v] = worker[v]
  PROVE  LocksHeld'
<1>1. worker[w].runtime \in Runtimes
  BY DEF LocksHeld
<1>2. \A v \in Workers \ {w} :
        /\ worker[v].runtime # worker[w].runtime
        /\ worker[w].session \in Sessions => worker[v].session # worker[w].session
  BY <1>1 DEF LocksHeld
<1> QED
  BY <1>1, <1>2, LocksAreExclusive

\* Locks are taken only when they are free.
LEMMA LocksStayHeld ==
  ASSUME LiveTypeOK, LocksHeld, InStep, [Next]_vars
  PROVE  LocksHeld'
<1>1. ASSUME NEW w \in Workers, NEW r \in Runtimes, NEW named \in Sessions \cup {None}, Start(w, r, named)
      PROVE  LocksHeld'
  <2>1. /\ worker'[w].pc = "session" /\ worker'[w].runtime = r /\ worker'[w].session = None
        /\ \A v \in Workers \ {w} : worker'[v] = worker[v]
    BY <1>1, StartEffect DEF Becomes
  <2>2. \A v \in Workers : worker[v].runtime # r
    BY <1>1 DEF Start, Free
  <2> QED
    BY <2>1, <2>2, NoneIsNoValue, LocksAreExclusive
<1>2. ASSUME NEW w \in Workers, Execute(w)
      PROVE  LocksHeld'
  <2>1. /\ worker'[w].pc # "off" /\ worker'[w].runtime = worker[w].runtime
        /\ worker'[w].session = worker[w].session
        /\ \A v \in Workers \ {w} : worker'[v] = worker[v]
    BY <1>2, ExecuteEffect DEF Becomes
  <2>2. worker[w].pc # "off"
    BY <1>2 DEF Execute
  <2> QED
    BY <2>1, <2>2, SameLocks
<1>3. ASSUME NEW w \in Workers, ClaimSession(w)
      PROVE  LocksHeld'
  <2>1. /\ worker'[w].pc # "off" /\ worker'[w].runtime = worker[w].runtime
        /\ worker'[w].session = Wanted(w) /\ Wanted(w) \in Sessions
        /\ \A v \in Workers \ {w} : worker'[v] = worker[v]
    BY <1>3, ClaimSessionEffect DEF Becomes
  <2>2. worker[w].pc # "off" /\ CanClaim(w, Wanted(w))
    BY <1>3 DEF ClaimSession
  <2>3. worker[w].runtime \in Runtimes /\ \A v \in Workers \ {w} : worker[v].runtime # worker[w].runtime
    BY <2>2 DEF LocksHeld
  <2>4. \A v \in Workers \ {w} : worker[v].session # Wanted(w)
    BY <2>1, <2>2 DEF CanClaim, LocksHeld
  <2> QED
    BY <2>1, <2>3, <2>4, LocksAreExclusive
<1>4. ASSUME NEW w \in Workers, ClaimCreated(w)
      PROVE  LocksHeld'
  <2>1. /\ worker'[w].pc # "off" /\ worker'[w].runtime = worker[w].runtime
        /\ worker'[w].session = worker[w].rec.session /\ worker[w].rec.session \in Sessions
        /\ \A v \in Workers \ {w} : worker'[v] = worker[v]
    BY <1>4, ClaimCreatedEffect DEF Becomes
  <2>2. worker[w].pc # "off" /\ CanClaim(w, worker[w].rec.session)
    BY <1>4 DEF ClaimCreated
  <2>3. worker[w].runtime \in Runtimes /\ \A v \in Workers \ {w} : worker[v].runtime # worker[w].runtime
    BY <2>2 DEF LocksHeld
  <2>4. \A v \in Workers \ {w} : worker[v].session # worker[w].rec.session
    BY <2>1, <2>2 DEF CanClaim, LocksHeld
  <2> QED
    BY <2>1, <2>3, <2>4, LocksAreExclusive
<1>5. ASSUME NEW w \in Workers, GetSession(w)
      PROVE  LocksHeld'
  <2>1. /\ worker'[w].pc # "off" /\ worker'[w].runtime = worker[w].runtime
        /\ worker'[w].session = worker[w].session
        /\ \A v \in Workers \ {w} : worker'[v] = worker[v]
    BY <1>5, GetSessionEffect DEF Becomes
  <2>2. worker[w].pc # "off"
    BY <1>5 DEF GetSession
  <2> QED
    BY <2>1, <2>2, SameLocks
<1>6. ASSUME NEW w \in Workers, AdoptSession(w)
      PROVE  LocksHeld'
  <2>1. /\ worker'[w].pc # "off" /\ worker'[w].runtime = worker[w].runtime
        /\ worker'[w].session = worker[w].session
        /\ \A v \in Workers \ {w} : worker'[v] = worker[v]
    BY <1>6, AdoptSessionEffect DEF Becomes, RecordBecomes
  <2>2. worker[w].pc # "off"
    BY <1>6 DEF AdoptSession
  <2> QED
    BY <2>1, <2>2, SameLocks
<1>7. ASSUME NEW w \in Workers, NEW s \in Sessions, CreateSession(w, s)
      PROVE  LocksHeld'
  <2>1. /\ worker'[w].pc # "off" /\ worker'[w].runtime = worker[w].runtime
        /\ worker'[w].session = worker[w].session
        /\ \A v \in Workers \ {w} : worker'[v] = worker[v]
    BY <1>7, CreateSessionEffect DEF Becomes
  <2>2. worker[w].pc # "off"
    BY <1>7 DEF CreateSession
  <2> QED
    BY <2>1, <2>2, SameLocks
<1>8. ASSUME NEW w \in Workers, SweepMarker(w)
      PROVE  LocksHeld'
  <2>1. /\ worker'[w].pc # "off" /\ worker'[w].runtime = worker[w].runtime
        /\ worker'[w].session = worker[w].session
        /\ \A v \in Workers \ {w} : worker'[v] = worker[v]
    BY <1>8, SweepMarkerEffect DEF Becomes
  <2>2. worker[w].pc # "off"
    BY <1>8 DEF SweepMarker
  <2> QED
    BY <2>1, <2>2, SameLocks
<1>9. ASSUME NEW w \in Workers, ForgetMarker(w)
      PROVE  LocksHeld'
  <2>1. /\ worker'[w].pc # "off" /\ worker'[w].runtime = worker[w].runtime
        /\ worker'[w].session = worker[w].session
        /\ \A v \in Workers \ {w} : worker'[v] = worker[v]
    BY <1>9, ForgetMarkerEffect DEF Becomes, RecordBecomes
  <2>2. worker[w].pc # "off"
    BY <1>9 DEF ForgetMarker
  <2> QED
    BY <2>1, <2>2, SameLocks
<1>10. ASSUME NEW w \in Workers, MintMarker(w)
      PROVE  LocksHeld'
  <2>1. /\ worker'[w].pc # "off" /\ worker'[w].runtime = worker[w].runtime
        /\ worker'[w].session = worker[w].session
        /\ \A v \in Workers \ {w} : worker'[v] = worker[v]
    BY <1>10, MintMarkerEffect DEF Becomes, RecordBecomes
  <2>2. worker[w].pc # "off"
    BY <1>10 DEF MintMarker
  <2> QED
    BY <2>1, <2>2, SameLocks
<1>11. ASSUME NEW w \in Workers, CreatePreparation(w)
      PROVE  LocksHeld'
  <2>1. /\ worker'[w].pc # "off" /\ worker'[w].runtime = worker[w].runtime
        /\ worker'[w].session = worker[w].session
        /\ \A v \in Workers \ {w} : worker'[v] = worker[v]
    BY <1>11, CreatePreparationEffect DEF Becomes
  <2>2. worker[w].pc # "off"
    BY <1>11 DEF CreatePreparation
  <2> QED
    BY <2>1, <2>2, SameLocks
<1>12. ASSUME NEW w \in Workers, NEW agent \in AgentRules, ResolveAgent(w, agent)
      PROVE  LocksHeld'
  <2>1. /\ worker'[w].pc # "off" /\ worker'[w].runtime = worker[w].runtime
        /\ worker'[w].session = worker[w].session
        /\ \A v \in Workers \ {w} : worker'[v] = worker[v]
    BY <1>12, ResolveAgentEffect DEF Becomes, RecordBecomes
  <2>2. worker[w].pc # "off"
    BY <1>12 DEF ResolveAgent
  <2> QED
    BY <2>1, <2>2, SameLocks
<1>13. ASSUME NEW w \in Workers, AppendSessionPermissions(w)
      PROVE  LocksHeld'
  <2>1. /\ worker'[w].pc # "off" /\ worker'[w].runtime = worker[w].runtime
        /\ worker'[w].session = worker[w].session
        /\ \A v \in Workers \ {w} : worker'[v] = worker[v]
    BY <1>13, AppendSessionPermissionsEffect DEF Becomes
  <2>2. worker[w].pc # "off"
    BY <1>13 DEF AppendSessionPermissions
  <2> QED
    BY <2>1, <2>2, SameLocks
<1>14. ASSUME NEW w \in Workers, VerifyReadback(w)
      PROVE  LocksHeld'
  <2>1. /\ worker'[w].pc # "off" /\ worker'[w].runtime = worker[w].runtime
        /\ worker'[w].session = worker[w].session
        /\ \A v \in Workers \ {w} : worker'[v] = worker[v]
    BY <1>14, VerifyReadbackEffect DEF Becomes
  <2>2. worker[w].pc # "off"
    BY <1>14 DEF VerifyReadback
  <2> QED
    BY <2>1, <2>2, SameLocks
<1>15. ASSUME NEW w \in Workers, RemovePreparation(w)
      PROVE  LocksHeld'
  <2>1. /\ worker'[w].pc # "off" /\ worker'[w].runtime = worker[w].runtime
        /\ worker'[w].session = worker[w].session
        /\ \A v \in Workers \ {w} : worker'[v] = worker[v]
    BY <1>15, RemovePreparationEffect DEF Becomes
  <2>2. worker[w].pc # "off"
    BY <1>15 DEF RemovePreparation
  <2> QED
    BY <2>1, <2>2, SameLocks
<1>16. ASSUME NEW w \in Workers, SettleRecord(w)
      PROVE  LocksHeld'
  <2>1. /\ worker'[w].pc # "off" /\ worker'[w].runtime = worker[w].runtime
        /\ worker'[w].session = worker[w].session
        /\ \A v \in Workers \ {w} : worker'[v] = worker[v]
    BY <1>16, SettleRecordEffect DEF Becomes, RecordBecomes
  <2>2. worker[w].pc # "off"
    BY <1>16 DEF SettleRecord
  <2> QED
    BY <2>1, <2>2, SameLocks
<1>17. ASSUME NEW w \in Workers, PromptEnds(w)
      PROVE  LocksHeld'
  <2>1. /\ worker'[w].pc # "off" /\ worker'[w].runtime = worker[w].runtime
        /\ worker'[w].session = worker[w].session
        /\ \A v \in Workers \ {w} : worker'[v] = worker[v]
    BY <1>17, PromptEndsEffect DEF Becomes
  <2>2. worker[w].pc # "off"
    BY <1>17 DEF PromptEnds
  <2> QED
    BY <2>1, <2>2, SameLocks
<1>18. ASSUME NEW w \in Workers, Refuse(w)
      PROVE  LocksHeld'
  <2>1. /\ worker'[w].pc # "off" /\ worker'[w].runtime = worker[w].runtime
        /\ worker'[w].session = worker[w].session
        /\ \A v \in Workers \ {w} : worker'[v] = worker[v]
    BY <1>18, RefuseEffect DEF Becomes
  <2>2. worker[w].pc # "off"
    BY <1>18 DEF Refuse, Refused
  <2> QED
    BY <2>1, <2>2, SameLocks
<1>19. ASSUME NEW w \in Workers, NEW pc \in {"idle", "broken"}, Fail(w, pc)
      PROVE  LocksHeld'
  <2>1. /\ worker'[w].pc # "off" /\ worker'[w].runtime = worker[w].runtime
        /\ worker'[w].session = worker[w].session
        /\ \A v \in Workers \ {w} : worker'[v] = worker[v]
    BY <1>19, FailEffect DEF Becomes
  <2>2. worker[w].pc # "off"
    BY <1>19 DEF Fail
  <2> QED
    BY <2>1, <2>2, SameLocks
<1>20. ASSUME NEW w \in Workers, Close(w)
      PROVE  LocksHeld'
  <2>1. /\ worker'[w] = Off /\ Off.pc = "off" /\ Off.runtime = None /\ Off.session = None
        /\ \A v \in Workers \ {w} : worker'[v] = worker[v]
    BY <1>20, CloseEffect DEF Off
  <2> QED
    BY <2>1, NoneIsNoValue, LocksAreExclusive
<1>21. ASSUME NEW w \in Workers, Kill(w)
      PROVE  LocksHeld'
  <2>1. /\ worker'[w] = Off /\ Off.pc = "off" /\ Off.runtime = None /\ Off.session = None
        /\ \A v \in Workers \ {w} : worker'[v] = worker[v]
    BY <1>21, CloseEffect DEF Off
  <2> QED
    BY <2>1, NoneIsNoValue, LocksAreExclusive
<1>22. ASSUME NEW q \in late, ExecuteLate(q)
      PROVE  LocksHeld'
  BY <1>22 DEF ExecuteLate, LocksHeld, Off
<1>23. ASSUME NEW s \in Sessions, NEW rules \in HumanRules, EditRules(s, rules)
      PROVE  LocksHeld'
  BY <1>23 DEF EditRules, LocksHeld, Off
<1>24. ASSUME NEW s \in Sessions, Undo(s)
      PROVE  LocksHeld'
  BY <1>24 DEF Undo, LocksHeld, Off
<1>25. ASSUME NEW s \in Sessions, ResolveUndo(s)
      PROVE  LocksHeld'
  BY <1>25 DEF ResolveUndo, LocksHeld, Off
<1>26. CASE UNCHANGED vars
  BY <1>26 DEF vars, outside, LocksHeld, Off
<1> QED
  BY <1>1, <1>2, <1>3, <1>4, <1>5, <1>6, <1>7, <1>8, <1>9, <1>10, <1>11, <1>12, <1>13,
     <1>14, <1>15, <1>16, <1>17, <1>18, <1>19, <1>20, <1>21, <1>22, <1>23, <1>24, <1>25, <1>26 DEF Next, Steps

\* Owners stay what they are when worker w takes a session nobody else owns.
LEMMA OwnersAreKept ==
  ASSUME OwnersKept, NEW w \in Workers, owner' = owner,
         \A r \in Runtimes : record'[r].session = record[r].session,
         worker'[w].session \in Sessions => owner[worker'[w].session] = worker'[w].runtime,
         \A v \in Workers \ {w} : worker'[v] = worker[v]
  PROVE  OwnersKept'
<1>1. ASSUME NEW r \in Runtimes, record'[r].session \in Sessions
      PROVE  owner'[record'[r].session] = r
  BY <1>1 DEF OwnersKept
<1>2. ASSUME NEW v \in Workers, worker'[v].session \in Sessions
      PROVE  owner'[worker'[v].session] = worker'[v].runtime
  BY <1>2 DEF OwnersKept
<1> QED
  BY <1>1, <1>2 DEF OwnersKept

LEMMA NewOwner ==
  ASSUME LiveTypeOK, LocksHeld, OwnersKept, NEW w \in Workers, NEW s \in Sessions,
         worker[w].pc # "off", CanClaim(w, s),
         owner' = [owner EXCEPT ![s] = worker[w].runtime], record' = record,
         worker'[w].session = s, worker'[w].runtime = worker[w].runtime,
         \A v \in Workers \ {w} : worker'[v] = worker[v]
  PROVE  /\ OwnersKept'
         /\ owner[s] \in {None, worker[w].runtime}
<1>1. worker[w].runtime \in Runtimes /\ owner \in [Sessions -> Runtimes \cup {None}]
  BY DEF LocksHeld, LiveTypeOK
<1>2. owner[s] \in {None, worker[w].runtime}
  BY DEF CanClaim, OwnersKept
<1>3. \A t \in Sessions : owner'[t] = IF t = s THEN worker[w].runtime ELSE owner[t]
  BY <1>1
<1>4. \A v \in Workers \ {w} : worker[v].session # s
  BY DEF CanClaim, LocksHeld
<1>5. ASSUME NEW r \in Runtimes, record'[r].session \in Sessions
      PROVE  owner'[record'[r].session] = r
  BY <1>2, <1>3, <1>5, NoneIsNoValue DEF OwnersKept
<1>6. ASSUME NEW v \in Workers, worker'[v].session \in Sessions
      PROVE  owner'[worker'[v].session] = worker'[v].runtime
  BY <1>3, <1>4, <1>6 DEF OwnersKept
<1> QED
  BY <1>2, <1>5, <1>6 DEF OwnersKept

\* An owner file is never given to another runtime.
LEMMA OwnersStay ==
  ASSUME LiveTypeOK, LocksHeld, InStep, OwnersKept, [Next]_vars
  PROVE  OwnersKept'
<1>1. ASSUME NEW w \in Workers, NEW r \in Runtimes, NEW named \in Sessions \cup {None}, Start(w, r, named)
      PROVE  OwnersKept'
  <2>1. /\ worker'[w].session = None
        /\ \A v \in Workers \ {w} : worker'[v] = worker[v]
    BY <1>1, StartEffect DEF Becomes
  <2>2. owner' = owner /\ record' = record
    BY <1>1 DEF Start
  <2> QED
    BY <2>1, <2>2, NoneIsNoValue, OwnersAreKept
<1>2. ASSUME NEW w \in Workers, Execute(w)
      PROVE  OwnersKept'
  <2>1. /\ worker'[w].runtime = worker[w].runtime
        /\ worker'[w].session = worker[w].session
        /\ \A v \in Workers \ {w} : worker'[v] = worker[v]
    BY <1>2, ExecuteEffect DEF Becomes
  <2>2. owner' = owner /\ record' = record
    BY <1>2 DEF Execute
  <2> QED
    BY <2>1, <2>2, OwnersAreKept DEF OwnersKept
<1>3. ASSUME NEW w \in Workers, ClaimSession(w)
      PROVE  OwnersKept'
  <2>1. /\ worker'[w].runtime = worker[w].runtime
        /\ worker'[w].session = Wanted(w) /\ Wanted(w) \in Sessions
        /\ \A v \in Workers \ {w} : worker'[v] = worker[v]
    BY <1>3, ClaimSessionEffect DEF Becomes
  <2>2. /\ worker[w].pc # "off" /\ CanClaim(w, Wanted(w))
        /\ owner' = [owner EXCEPT ![Wanted(w)] = worker[w].runtime] /\ record' = record
    BY <1>3 DEF ClaimSession
  <2> QED
    BY <2>1, <2>2, NewOwner
<1>4. ASSUME NEW w \in Workers, ClaimCreated(w)
      PROVE  OwnersKept'
  <2>1. /\ worker'[w].runtime = worker[w].runtime
        /\ worker'[w].session = worker[w].rec.session /\ worker[w].rec.session \in Sessions
        /\ \A v \in Workers \ {w} : worker'[v] = worker[v]
    BY <1>4, ClaimCreatedEffect DEF Becomes
  <2>2. /\ worker[w].pc # "off" /\ CanClaim(w, worker[w].rec.session)
        /\ owner' = [owner EXCEPT ![worker[w].rec.session] = worker[w].runtime] /\ record' = record
    BY <1>4 DEF ClaimCreated
  <2> QED
    BY <2>1, <2>2, NewOwner
<1>5. ASSUME NEW w \in Workers, GetSession(w)
      PROVE  OwnersKept'
  <2>1. /\ worker'[w].runtime = worker[w].runtime
        /\ worker'[w].session = worker[w].session
        /\ \A v \in Workers \ {w} : worker'[v] = worker[v]
    BY <1>5, GetSessionEffect DEF Becomes
  <2>2. owner' = owner /\ record' = record
    BY <1>5 DEF GetSession
  <2> QED
    BY <2>1, <2>2, OwnersAreKept DEF OwnersKept
<1>6. ASSUME NEW w \in Workers, AdoptSession(w)
      PROVE  OwnersKept'
  <2>1. /\ worker'[w].runtime = worker[w].runtime
        /\ worker'[w].session = worker[w].session
        /\ record'[worker[w].runtime].session = worker[w].session
        /\ \A r \in Runtimes \ {worker[w].runtime} : record'[r] = record[r]
        /\ \A v \in Workers \ {w} : worker'[v] = worker[v]
    BY <1>6, AdoptSessionEffect DEF Becomes, RecordBecomes
  <2>2. owner' = owner /\ worker[w].session \in Sessions
    BY <1>6 DEF AdoptSession, InStep, InStepAt
  <2> QED
    BY <2>1, <2>2 DEF OwnersKept
<1>7. ASSUME NEW w \in Workers, NEW s \in Sessions, CreateSession(w, s)
      PROVE  OwnersKept'
  <2>1. /\ worker'[w].runtime = worker[w].runtime
        /\ worker'[w].session = worker[w].session
        /\ \A v \in Workers \ {w} : worker'[v] = worker[v]
    BY <1>7, CreateSessionEffect DEF Becomes
  <2>2. owner' = owner /\ record' = record
    BY <1>7 DEF CreateSession
  <2> QED
    BY <2>1, <2>2, OwnersAreKept DEF OwnersKept
<1>8. ASSUME NEW w \in Workers, SweepMarker(w)
      PROVE  OwnersKept'
  <2>1. /\ worker'[w].runtime = worker[w].runtime
        /\ worker'[w].session = worker[w].session
        /\ \A v \in Workers \ {w} : worker'[v] = worker[v]
    BY <1>8, SweepMarkerEffect DEF Becomes
  <2>2. owner' = owner /\ record' = record
    BY <1>8 DEF SweepMarker
  <2> QED
    BY <2>1, <2>2, OwnersAreKept DEF OwnersKept
<1>9. ASSUME NEW w \in Workers, ForgetMarker(w)
      PROVE  OwnersKept'
  <2>1. /\ worker'[w].runtime = worker[w].runtime
        /\ worker'[w].session = worker[w].session
        /\ \A v \in Workers \ {w} : worker'[v] = worker[v]
    BY <1>9, ForgetMarkerEffect DEF Becomes, RecordBecomes
  <2>2. owner' = owner
    BY <1>9 DEF ForgetMarker
  <2>3. worker[w].rec = record[worker[w].runtime]
    BY <1>9 DEF ForgetMarker, InStep, InStepAt, Prepared
  <2>4. \A r \in Runtimes : record'[r].session = record[r].session
    BY <1>9, <2>3, ForgetMarkerEffect DEF RecordBecomes
  <2> QED
    BY <2>1, <2>2, <2>4, OwnersAreKept DEF OwnersKept
<1>10. ASSUME NEW w \in Workers, MintMarker(w)
      PROVE  OwnersKept'
  <2>1. /\ worker'[w].runtime = worker[w].runtime
        /\ worker'[w].session = worker[w].session
        /\ \A v \in Workers \ {w} : worker'[v] = worker[v]
    BY <1>10, MintMarkerEffect DEF Becomes, RecordBecomes
  <2>2. owner' = owner
    BY <1>10 DEF MintMarker
  <2>3. worker[w].rec = record[worker[w].runtime]
    BY <1>10 DEF MintMarker, InStep, InStepAt, Prepared
  <2>4. \A r \in Runtimes : record'[r].session = record[r].session
    BY <1>10, <2>3, MintMarkerEffect DEF RecordBecomes
  <2> QED
    BY <2>1, <2>2, <2>4, OwnersAreKept DEF OwnersKept
<1>11. ASSUME NEW w \in Workers, CreatePreparation(w)
      PROVE  OwnersKept'
  <2>1. /\ worker'[w].runtime = worker[w].runtime
        /\ worker'[w].session = worker[w].session
        /\ \A v \in Workers \ {w} : worker'[v] = worker[v]
    BY <1>11, CreatePreparationEffect DEF Becomes
  <2>2. owner' = owner /\ record' = record
    BY <1>11 DEF CreatePreparation
  <2> QED
    BY <2>1, <2>2, OwnersAreKept DEF OwnersKept
<1>12. ASSUME NEW w \in Workers, NEW agent \in AgentRules, ResolveAgent(w, agent)
      PROVE  OwnersKept'
  <2>1. /\ worker'[w].runtime = worker[w].runtime
        /\ worker'[w].session = worker[w].session
        /\ \A v \in Workers \ {w} : worker'[v] = worker[v]
    BY <1>12, ResolveAgentEffect DEF Becomes, RecordBecomes
  <2>2. owner' = owner
    BY <1>12 DEF ResolveAgent
  <2>3. worker[w].rec = record[worker[w].runtime]
    BY <1>12 DEF ResolveAgent, InStep, InStepAt, Prepared
  <2>4. \A r \in Runtimes : record'[r].session = record[r].session
    BY <1>12, <2>3, ResolveAgentEffect DEF RecordBecomes
  <2> QED
    BY <2>1, <2>2, <2>4, OwnersAreKept DEF OwnersKept
<1>13. ASSUME NEW w \in Workers, AppendSessionPermissions(w)
      PROVE  OwnersKept'
  <2>1. /\ worker'[w].runtime = worker[w].runtime
        /\ worker'[w].session = worker[w].session
        /\ \A v \in Workers \ {w} : worker'[v] = worker[v]
    BY <1>13, AppendSessionPermissionsEffect DEF Becomes
  <2>2. owner' = owner /\ record' = record
    BY <1>13 DEF AppendSessionPermissions
  <2> QED
    BY <2>1, <2>2, OwnersAreKept DEF OwnersKept
<1>14. ASSUME NEW w \in Workers, VerifyReadback(w)
      PROVE  OwnersKept'
  <2>1. /\ worker'[w].runtime = worker[w].runtime
        /\ worker'[w].session = worker[w].session
        /\ \A v \in Workers \ {w} : worker'[v] = worker[v]
    BY <1>14, VerifyReadbackEffect DEF Becomes
  <2>2. owner' = owner /\ record' = record
    BY <1>14 DEF VerifyReadback
  <2> QED
    BY <2>1, <2>2, OwnersAreKept DEF OwnersKept
<1>15. ASSUME NEW w \in Workers, RemovePreparation(w)
      PROVE  OwnersKept'
  <2>1. /\ worker'[w].runtime = worker[w].runtime
        /\ worker'[w].session = worker[w].session
        /\ \A v \in Workers \ {w} : worker'[v] = worker[v]
    BY <1>15, RemovePreparationEffect DEF Becomes
  <2>2. owner' = owner /\ record' = record
    BY <1>15 DEF RemovePreparation
  <2> QED
    BY <2>1, <2>2, OwnersAreKept DEF OwnersKept
<1>16. ASSUME NEW w \in Workers, SettleRecord(w)
      PROVE  OwnersKept'
  <2>1. /\ worker'[w].runtime = worker[w].runtime
        /\ worker'[w].session = worker[w].session
        /\ \A v \in Workers \ {w} : worker'[v] = worker[v]
    BY <1>16, SettleRecordEffect DEF Becomes, RecordBecomes
  <2>2. owner' = owner
    BY <1>16 DEF SettleRecord
  <2>3. worker[w].rec = record[worker[w].runtime]
    BY <1>16 DEF SettleRecord, InStep, InStepAt, Prepared
  <2>4. \A r \in Runtimes : record'[r].session = record[r].session
    BY <1>16, <2>3, SettleRecordEffect DEF RecordBecomes
  <2> QED
    BY <2>1, <2>2, <2>4, OwnersAreKept DEF OwnersKept
<1>17. ASSUME NEW w \in Workers, PromptEnds(w)
      PROVE  OwnersKept'
  <2>1. /\ worker'[w].runtime = worker[w].runtime
        /\ worker'[w].session = worker[w].session
        /\ \A v \in Workers \ {w} : worker'[v] = worker[v]
    BY <1>17, PromptEndsEffect DEF Becomes
  <2>2. owner' = owner /\ record' = record
    BY <1>17 DEF PromptEnds
  <2> QED
    BY <2>1, <2>2, OwnersAreKept DEF OwnersKept
<1>18. ASSUME NEW w \in Workers, Refuse(w)
      PROVE  OwnersKept'
  <2>1. /\ worker'[w].runtime = worker[w].runtime
        /\ worker'[w].session = worker[w].session
        /\ \A v \in Workers \ {w} : worker'[v] = worker[v]
    BY <1>18, RefuseEffect DEF Becomes
  <2>2. owner' = owner /\ record' = record
    BY <1>18 DEF Refuse
  <2> QED
    BY <2>1, <2>2, OwnersAreKept DEF OwnersKept
<1>19. ASSUME NEW w \in Workers, NEW pc \in {"idle", "broken"}, Fail(w, pc)
      PROVE  OwnersKept'
  <2>1. /\ worker'[w].runtime = worker[w].runtime
        /\ worker'[w].session = worker[w].session
        /\ \A v \in Workers \ {w} : worker'[v] = worker[v]
    BY <1>19, FailEffect DEF Becomes
  <2>2. owner' = owner /\ record' = record
    BY <1>19 DEF Fail
  <2> QED
    BY <2>1, <2>2, OwnersAreKept DEF OwnersKept
<1>20. ASSUME NEW w \in Workers, Close(w)
      PROVE  OwnersKept'
  <2>1. /\ worker'[w] = Off /\ Off.session = None
        /\ \A v \in Workers \ {w} : worker'[v] = worker[v]
    BY <1>20, CloseEffect DEF Off
  <2>2. owner' = owner /\ record' = record
    BY <1>20 DEF Close
  <2> QED
    BY <2>1, <2>2, NoneIsNoValue, OwnersAreKept
<1>21. ASSUME NEW w \in Workers, Kill(w)
      PROVE  OwnersKept'
  <2>1. /\ worker'[w] = Off /\ Off.session = None
        /\ \A v \in Workers \ {w} : worker'[v] = worker[v]
    BY <1>21, CloseEffect DEF Off
  <2>2. owner' = owner /\ record' = record
    BY <1>21 DEF Kill
  <2> QED
    BY <2>1, <2>2, NoneIsNoValue, OwnersAreKept
<1>22. ASSUME NEW q \in late, ExecuteLate(q)
      PROVE  OwnersKept'
  BY <1>22 DEF ExecuteLate, OwnersKept
<1>23. ASSUME NEW s \in Sessions, NEW rules \in HumanRules, EditRules(s, rules)
      PROVE  OwnersKept'
  BY <1>23 DEF EditRules, OwnersKept
<1>24. ASSUME NEW s \in Sessions, Undo(s)
      PROVE  OwnersKept'
  BY <1>24 DEF Undo, OwnersKept
<1>25. ASSUME NEW s \in Sessions, ResolveUndo(s)
      PROVE  OwnersKept'
  BY <1>25 DEF ResolveUndo, OwnersKept
<1>26. CASE UNCHANGED vars
  BY <1>26 DEF vars, outside, OwnersKept
<1> QED
  BY <1>1, <1>2, <1>3, <1>4, <1>5, <1>6, <1>7, <1>8, <1>9, <1>10, <1>11, <1>12, <1>13,
     <1>14, <1>15, <1>16, <1>17, <1>18, <1>19, <1>20, <1>21, <1>22, <1>23, <1>24, <1>25, <1>26 DEF Next, Steps

----------------------------------------------------------------------------
(* Memory and disk *)

\* The records of other workers are not touched.
LEMMA OthersInStep ==
  ASSUME LocksHeld, InStep, NEW w \in Workers, InStepAt(w)',
         \A v \in Workers \ {w} : worker'[v] = worker[v],
         \A r \in Runtimes \ {worker[w].runtime} : record'[r] = record[r]
  PROVE  InStep'
<1> SUFFICES ASSUME NEW v \in Workers \ {w}
             PROVE  InStepAt(v)'
  BY DEF InStep
<1>1. worker'[v] = worker[v] /\ InStepAt(v)
  BY DEF InStep
<1>2. CASE worker[v].pc = "off"
  BY <1>1, <1>2 DEF InStepAt, Prepared
<1>3. CASE worker[v].pc # "off"
  <2>1. worker[v].runtime \in Runtimes /\ worker[v].runtime # worker[w].runtime
    BY <1>3 DEF LocksHeld
  <2>2. record'[worker'[v].runtime] = record[worker[v].runtime]
    BY <1>1, <2>1
  <2> QED
    BY <1>1, <2>2 DEF InStepAt, Installed
<1> QED
  BY <1>2, <1>3

\* Memory and disk stay in step.
LEMMA StepsStayInStep ==
  ASSUME LiveTypeOK, LocksHeld, InStep, [Next]_vars
  PROVE  InStep'
<1>1. ASSUME NEW w \in Workers, NEW r \in Runtimes, NEW named \in Sessions \cup {None}, Start(w, r, named)
      PROVE  InStep'
  <2>1. /\ \A v \in Workers \ {w} : worker'[v] = worker[v]
        /\ record' = record
    BY <1>1, StartEffect DEF Becomes, Start
  <2>2. InStepAt(w)'
    BY <1>1, StartEffect, <2>1 DEF Becomes, Start, InStep, InStepAt, Prepared, Installed
  <2> QED
    BY <2>1, <2>2, OthersInStep
<1>2. ASSUME NEW w \in Workers, Execute(w)
      PROVE  InStep'
  <2>1. /\ \A v \in Workers \ {w} : worker'[v] = worker[v]
        /\ record' = record
    BY <1>2, ExecuteEffect DEF Becomes, Execute
  <2>2. InStepAt(w)'
    BY <1>2, ExecuteEffect, <2>1 DEF Becomes, Execute, InStep, InStepAt, Prepared, Installed
  <2> QED
    BY <2>1, <2>2, OthersInStep
<1>3. ASSUME NEW w \in Workers, ClaimSession(w)
      PROVE  InStep'
  <2>1. /\ \A v \in Workers \ {w} : worker'[v] = worker[v]
        /\ record' = record
    BY <1>3, ClaimSessionEffect DEF Becomes, ClaimSession
  <2>2. worker'[w].pc = "read" /\ worker'[w].runtime = worker[w].runtime
        /\ worker'[w].session = Wanted(w) /\ Wanted(w) \in Sessions
    BY <1>3, ClaimSessionEffect DEF Becomes
  <2>3. record[worker[w].runtime].session \in {None, Wanted(w)}
    BY DEF Wanted, HasRecord, OnRecord
  <2>4. InStepAt(w)'
    BY <2>1, <2>2, <2>3 DEF InStepAt, Prepared
  <2> QED
    BY <2>1, <2>4, OthersInStep
<1>4. ASSUME NEW w \in Workers, ClaimCreated(w)
      PROVE  InStep'
  <2>1. /\ \A v \in Workers \ {w} : worker'[v] = worker[v]
        /\ record' = record
    BY <1>4, ClaimCreatedEffect DEF Becomes, ClaimCreated
  <2>2. InStepAt(w)'
    BY <1>4, ClaimCreatedEffect, <2>1 DEF Becomes, ClaimCreated, InStep, InStepAt, Prepared, Installed
  <2> QED
    BY <2>1, <2>2, OthersInStep
<1>5. ASSUME NEW w \in Workers, GetSession(w)
      PROVE  InStep'
  <2>1. /\ \A v \in Workers \ {w} : worker'[v] = worker[v]
        /\ record' = record
    BY <1>5, GetSessionEffect DEF Becomes, GetSession
  <2>2. worker'[w].pc = (IF HasRecord(w) THEN "prepare" ELSE "adopt")
        /\ worker'[w].runtime = worker[w].runtime
        /\ worker'[w].session = worker[w].session /\ worker[w].session \in Sessions
        /\ worker'[w].rec = record[worker[w].runtime]
    BY <1>5, GetSessionEffect DEF Becomes
  <2>3. record[worker[w].runtime].session \in {None, worker[w].session}
    BY <1>5 DEF GetSession, InStep, InStepAt
  <2>4. ASSUME HasRecord(w) PROVE InStepAt(w)'
    <3>1. worker'[w].pc = "prepare" /\ record[worker[w].runtime].session = worker[w].session
      BY <2>2, <2>3, <2>4 DEF HasRecord, OnRecord
    <3> QED
      BY <2>1, <2>2, <3>1 DEF InStepAt, Prepared
  <2>5. ASSUME ~HasRecord(w) PROVE InStepAt(w)'
    <3>1. worker'[w].pc = "adopt" /\ record[worker[w].runtime].session = None
      BY <2>2, <2>3, <2>5 DEF HasRecord, OnRecord
    <3> QED
      BY <2>1, <2>2, <3>1 DEF InStepAt, Prepared
  <2>6. InStepAt(w)'
    BY <2>4, <2>5
  <2> QED
    BY <2>1, <2>6, OthersInStep
<1>6. ASSUME NEW w \in Workers, AdoptSession(w)
      PROVE  InStep'
  <2>1. /\ \A v \in Workers \ {w} : worker'[v] = worker[v]
        /\ \A r \in Runtimes \ {worker[w].runtime} : record'[r] = record[r]
    BY <1>6, AdoptSessionEffect DEF RecordBecomes, Becomes
  <2> DEFINE rec == record'[worker[w].runtime]
  <2>2. /\ worker'[w].pc = "prepare" /\ worker'[w].runtime = worker[w].runtime
        /\ worker'[w].session = worker[w].session /\ worker'[w].rec = rec
        /\ rec.session = worker[w].session
    BY <1>6, AdoptSessionEffect DEF RecordBecomes, Becomes
  <2> HIDE DEF rec
  <2>3. record'[worker'[w].runtime] = rec
    BY <2>2 DEF rec
  <2>4. worker[w].session \in Sessions
    BY <1>6 DEF AdoptSession, InStep, InStepAt, Prepared
  <2>5. InStepAt(w)'
    BY <2>2, <2>3, <2>4 DEF InStepAt, Prepared, Installed
  <2> QED
    BY <2>1, <2>5, OthersInStep
<1>7. ASSUME NEW w \in Workers, NEW s \in Sessions, CreateSession(w, s)
      PROVE  InStep'
  <2>1. /\ \A v \in Workers \ {w} : worker'[v] = worker[v]
        /\ record' = record
    BY <1>7, CreateSessionEffect DEF Becomes, CreateSession
  <2>2. worker'[w].pc = "made" /\ worker'[w].runtime = worker[w].runtime
        /\ worker'[w].rec = [worker[w].rec EXCEPT !.session = s]
    BY <1>7, CreateSessionEffect DEF Becomes
  <2>3. worker'[w].rec.session = s
    BY <2>2 DEF LiveTypeOK, Worker, Record
  <2>4. record[worker[w].runtime].session = None
    BY <1>7, RuntimeHeld DEF CreateSession, Wanted, HasRecord, OnRecord
  <2>5. InStepAt(w)'
    BY <2>1, <2>2, <2>3, <2>4 DEF InStepAt, Prepared
  <2> QED
    BY <2>1, <2>5, OthersInStep
<1>8. ASSUME NEW w \in Workers, SweepMarker(w)
      PROVE  InStep'
  <2>1. /\ \A v \in Workers \ {w} : worker'[v] = worker[v]
        /\ record' = record
    BY <1>8, SweepMarkerEffect DEF Becomes, SweepMarker
  <2>2. worker'[w].pc = "swept" /\ worker'[w].runtime = worker[w].runtime
        /\ worker'[w].session = worker[w].session /\ worker'[w].rec = worker[w].rec
    BY <1>8, SweepMarkerEffect DEF Becomes
  <2>3. InStepAt(w)
    BY DEF InStep
  <2>4. InStepAt(w)'
    BY <1>8, <2>1, <2>2, <2>3 DEF SweepMarker, InStepAt, Prepared, Installed, Interrupted
  <2> QED
    BY <2>1, <2>4, OthersInStep
<1>9. ASSUME NEW w \in Workers, ForgetMarker(w)
      PROVE  InStep'
  <2>1. /\ \A v \in Workers \ {w} : worker'[v] = worker[v]
        /\ \A r \in Runtimes \ {worker[w].runtime} : record'[r] = record[r]
    BY <1>9, ForgetMarkerEffect DEF RecordBecomes, Becomes
  <2> DEFINE rec == record'[worker[w].runtime]
  <2>2. /\ worker'[w].pc = "prepare" /\ worker'[w].runtime = worker[w].runtime
        /\ worker'[w].session = worker[w].session /\ worker'[w].rec = rec
        /\ rec.session = worker[w].rec.session
    BY <1>9, ForgetMarkerEffect DEF RecordBecomes, Becomes
  <2> HIDE DEF rec
  <2>3. record'[worker'[w].runtime] = rec
    BY <2>2 DEF rec
  <2>4. worker[w].session \in Sessions /\ worker[w].rec.session = worker[w].session
    BY <1>9 DEF ForgetMarker, InStep, InStepAt, Prepared
  <2>5. InStepAt(w)'
    BY <2>2, <2>3, <2>4 DEF InStepAt, Prepared, Installed
  <2> QED
    BY <2>1, <2>5, OthersInStep
<1>10. ASSUME NEW w \in Workers, MintMarker(w)
      PROVE  InStep'
  <2>1. /\ \A v \in Workers \ {w} : worker'[v] = worker[v]
        /\ \A r \in Runtimes \ {worker[w].runtime} : record'[r] = record[r]
    BY <1>10, MintMarkerEffect DEF RecordBecomes, Becomes
  <2> DEFINE rec == record'[worker[w].runtime]
  <2>2. /\ worker'[w].pc = "create" /\ worker'[w].runtime = worker[w].runtime
        /\ worker'[w].session = worker[w].session /\ worker'[w].rec = rec
        /\ rec.session = worker[w].rec.session /\ rec.marker = minted + 1
    BY <1>10, MintMarkerEffect DEF RecordBecomes, Becomes
  <2> HIDE DEF rec
  <2>3. record'[worker'[w].runtime] = rec
    BY <2>2 DEF rec
  <2>4. worker[w].session \in Sessions /\ worker[w].rec.session = worker[w].session /\ minted + 1 # NoMarker
    BY <1>10 DEF MintMarker, InStep, InStepAt, Prepared, LiveTypeOK
  <2>5. InStepAt(w)'
    BY <2>2, <2>3, <2>4 DEF InStepAt, Prepared, Installed
  <2> QED
    BY <2>1, <2>5, OthersInStep
<1>11. ASSUME NEW w \in Workers, CreatePreparation(w)
      PROVE  InStep'
  <2>1. /\ \A v \in Workers \ {w} : worker'[v] = worker[v]
        /\ record' = record
    BY <1>11, CreatePreparationEffect DEF Becomes, CreatePreparation
  <2>2. worker'[w].pc = "resolve" /\ worker'[w].runtime = worker[w].runtime
        /\ worker'[w].session = worker[w].session /\ worker'[w].rec = worker[w].rec
    BY <1>11, CreatePreparationEffect DEF Becomes
  <2>3. InStepAt(w)
    BY DEF InStep
  <2>4. InStepAt(w)'
    BY <1>11, <2>1, <2>2, <2>3 DEF CreatePreparation, InStepAt, Prepared, Installed
  <2> QED
    BY <2>1, <2>4, OthersInStep
<1>12. ASSUME NEW w \in Workers, NEW agent \in AgentRules, ResolveAgent(w, agent)
      PROVE  InStep'
  <2>1. /\ \A v \in Workers \ {w} : worker'[v] = worker[v]
        /\ \A r \in Runtimes \ {worker[w].runtime} : record'[r] = record[r]
    BY <1>12, ResolveAgentEffect DEF RecordBecomes, Becomes
  <2> DEFINE rec == record'[worker[w].runtime]
  <2>2. /\ worker'[w].pc = "append" /\ worker'[w].runtime = worker[w].runtime
        /\ worker'[w].session = worker[w].session /\ worker'[w].rec = rec
        /\ rec.session = worker[w].rec.session /\ rec.marker = worker[w].rec.marker
        /\ rec.original = worker[w].rec.original
        /\ rec.pending = Baseline \o RestrictivePermissions(agent, worker[w].rec.original)
    BY <1>12, ResolveAgentEffect DEF RecordBecomes, Becomes
  <2> HIDE DEF rec
  <2>3. record'[worker'[w].runtime] = rec
    BY <2>2 DEF rec
  <2>4. worker[w].session \in Sessions /\ worker[w].rec.session = worker[w].session /\ worker[w].rec.marker # NoMarker
    BY <1>12 DEF ResolveAgent, InStep, InStepAt, Prepared
  <2>5. InStepAt(w)'
    BY <2>2, <2>3, <2>4 DEF InStepAt, Prepared, Installed
  <2> QED
    BY <2>1, <2>5, OthersInStep
<1>13. ASSUME NEW w \in Workers, AppendSessionPermissions(w)
      PROVE  InStep'
  <2>1. /\ \A v \in Workers \ {w} : worker'[v] = worker[v]
        /\ record' = record
    BY <1>13, AppendSessionPermissionsEffect DEF Becomes, AppendSessionPermissions
  <2>2. worker'[w].pc = "verify" /\ worker'[w].runtime = worker[w].runtime
        /\ worker'[w].session = worker[w].session /\ worker'[w].rec = worker[w].rec
    BY <1>13, AppendSessionPermissionsEffect DEF Becomes
  <2>3. InStepAt(w)
    BY DEF InStep
  <2>4. InStepAt(w)'
    BY <1>13, <2>1, <2>2, <2>3 DEF AppendSessionPermissions, InStepAt, Prepared, Installed
  <2> QED
    BY <2>1, <2>4, OthersInStep
<1>14. ASSUME NEW w \in Workers, VerifyReadback(w)
      PROVE  InStep'
  <2>1. /\ \A v \in Workers \ {w} : worker'[v] = worker[v]
        /\ record' = record
    BY <1>14, VerifyReadbackEffect DEF Becomes, VerifyReadback
  <2>2. worker'[w].pc = "unmark" /\ worker'[w].runtime = worker[w].runtime
        /\ worker'[w].session = worker[w].session /\ worker'[w].rec = worker[w].rec
    BY <1>14, VerifyReadbackEffect DEF Becomes
  <2>3. InStepAt(w)
    BY DEF InStep
  <2>4. InStepAt(w)'
    BY <1>14, <2>1, <2>2, <2>3 DEF VerifyReadback, InStepAt, Prepared, Installed
  <2> QED
    BY <2>1, <2>4, OthersInStep
<1>15. ASSUME NEW w \in Workers, RemovePreparation(w)
      PROVE  InStep'
  <2>1. /\ \A v \in Workers \ {w} : worker'[v] = worker[v]
        /\ record' = record
    BY <1>15, RemovePreparationEffect DEF Becomes, RemovePreparation
  <2>2. worker'[w].pc = "settle" /\ worker'[w].runtime = worker[w].runtime
        /\ worker'[w].session = worker[w].session /\ worker'[w].rec = worker[w].rec
    BY <1>15, RemovePreparationEffect DEF Becomes
  <2>3. InStepAt(w)
    BY DEF InStep
  <2>4. InStepAt(w)'
    BY <1>15, <2>1, <2>2, <2>3 DEF RemovePreparation, InStepAt, Prepared, Installed
  <2> QED
    BY <2>1, <2>4, OthersInStep
<1>16. ASSUME NEW w \in Workers, SettleRecord(w)
      PROVE  InStep'
  <2>1. /\ \A v \in Workers \ {w} : worker'[v] = worker[v]
        /\ \A r \in Runtimes \ {worker[w].runtime} : record'[r] = record[r]
    BY <1>16, SettleRecordEffect DEF RecordBecomes, Becomes
  <2> DEFINE rec == record'[worker[w].runtime]
  <2>2. /\ worker'[w].pc = "prompt" /\ worker'[w].runtime = worker[w].runtime
        /\ worker'[w].session = worker[w].session /\ worker'[w].rec = rec
        /\ rec.session = worker[w].rec.session /\ rec.marker = NoMarker
        /\ rec.original = worker[w].rec.original /\ rec.managed = worker[w].rec.pending
    BY <1>16, SettleRecordEffect DEF RecordBecomes, Becomes
  <2> HIDE DEF rec
  <2>3. record'[worker'[w].runtime] = rec
    BY <2>2 DEF rec
  <2>4. worker[w].session \in Sessions /\ worker[w].rec.session = worker[w].session
        /\ Installed(worker[w].rec.pending, worker[w].rec.original)
    BY <1>16 DEF SettleRecord, InStep, InStepAt, Prepared
  <2>5. InStepAt(w)'
    BY <2>2, <2>3, <2>4 DEF InStepAt, Prepared, Installed
  <2> QED
    BY <2>1, <2>5, OthersInStep
<1>17. ASSUME NEW w \in Workers, PromptEnds(w)
      PROVE  InStep'
  <2>1. /\ \A v \in Workers \ {w} : worker'[v] = worker[v]
        /\ record' = record
    BY <1>17, PromptEndsEffect DEF Becomes, PromptEnds
  <2>2. InStepAt(w)'
    BY <1>17, PromptEndsEffect, <2>1 DEF Becomes, PromptEnds, InStep, InStepAt, Prepared, Installed
  <2> QED
    BY <2>1, <2>2, OthersInStep
<1>18. ASSUME NEW w \in Workers, Refuse(w)
      PROVE  InStep'
  <2>1. /\ \A v \in Workers \ {w} : worker'[v] = worker[v]
        /\ record' = record
    BY <1>18, RefuseEffect DEF Becomes, Refuse
  <2>2. InStepAt(w)'
    BY <1>18, RefuseEffect, <2>1 DEF Becomes, Refuse, InStep, InStepAt, Prepared, Installed
  <2> QED
    BY <2>1, <2>2, OthersInStep
<1>19. ASSUME NEW w \in Workers, NEW pc \in {"idle", "broken"}, Fail(w, pc)
      PROVE  InStep'
  <2>1. /\ \A v \in Workers \ {w} : worker'[v] = worker[v]
        /\ record' = record
    BY <1>19, FailEffect DEF Becomes, Fail
  <2>2. InStepAt(w)'
    BY <1>19, FailEffect, <2>1 DEF Becomes, Fail, InStep, InStepAt, Prepared, Installed
  <2> QED
    BY <2>1, <2>2, OthersInStep
<1>20. ASSUME NEW w \in Workers, Close(w)
      PROVE  InStep'
  <2>1. /\ worker'[w].pc = "off"
        /\ \A v \in Workers \ {w} : worker'[v] = worker[v]
        /\ record' = record
    BY <1>20, CloseEffect DEF Off, Close
  <2>2. InStepAt(w)'
    BY <2>1 DEF InStepAt, Prepared
  <2> QED
    BY <2>1, <2>2, OthersInStep
<1>21. ASSUME NEW w \in Workers, Kill(w)
      PROVE  InStep'
  <2>1. /\ worker'[w].pc = "off"
        /\ \A v \in Workers \ {w} : worker'[v] = worker[v]
        /\ record' = record
    BY <1>21, CloseEffect DEF Off, Kill
  <2>2. InStepAt(w)'
    BY <2>1 DEF InStepAt, Prepared
  <2> QED
    BY <2>1, <2>2, OthersInStep
<1>22. ASSUME NEW q \in late, ExecuteLate(q)
      PROVE  InStep'
  BY <1>22 DEF ExecuteLate, InStep, InStepAt, Installed
<1>23. ASSUME NEW s \in Sessions, NEW rules \in HumanRules, EditRules(s, rules)
      PROVE  InStep'
  BY <1>23 DEF EditRules, InStep, InStepAt, Installed
<1>24. ASSUME NEW s \in Sessions, Undo(s)
      PROVE  InStep'
  BY <1>24 DEF Undo, InStep, InStepAt, Installed
<1>25. ASSUME NEW s \in Sessions, ResolveUndo(s)
      PROVE  InStep'
  BY <1>25 DEF ResolveUndo, InStep, InStepAt, Installed
<1>26. CASE UNCHANGED vars
  BY <1>26 DEF vars, outside, InStep, InStepAt, Installed
<1> QED
  BY <1>1, <1>2, <1>3, <1>4, <1>5, <1>6, <1>7, <1>8, <1>9, <1>10, <1>11, <1>12, <1>13,
     <1>14, <1>15, <1>16, <1>17, <1>18, <1>19, <1>20, <1>21, <1>22, <1>23, <1>24, <1>25, <1>26 DEF Next, Steps

----------------------------------------------------------------------------
(* Kinds of steps *)

\* People, and the requests of workers that were killed, change sessions only,
\* and rules only when they count as foreign.
OthersAct ==
  /\ worker' = worker /\ record' = record /\ owner' = owner /\ adopted' = adopted
  /\ late' \subseteq late
  /\ foreign \subseteq foreign'
  /\ \A s \in Sessions :
       /\ native'[s].exists = native[s].exists
       /\ native'[s].markers \ stray' \subseteq native[s].markers \ stray
       /\ native'[s].rules # native[s].rules => s \in foreign' /\ native[s].exists

\* Worker w goes on, or not, and changes nothing but its own state.
GoesOn(w) ==
  /\ native' = native /\ record' = record /\ owner' = owner
  /\ adopted' = adopted /\ foreign' = foreign /\ stray' = stray
  /\ \A v \in Workers \ {w} : worker'[v] = worker[v]
  /\ \/ worker'[w].pc \notin Prepared \cup {"made", "adopt"}
     \/ /\ worker[w].pc = "verify" /\ worker'[w].pc = "unmark"
        /\ worker'[w].session = worker[w].session /\ worker'[w].rec = worker[w].rec
  /\ worker'[w].named \in Sessions => native[worker'[w].named].exists
  /\ \A q \in late' : q \in late \/ owner[q.session] # None

\* A worker whose preparation is under way has its session to itself.
LEMMA Holder ==
  ASSUME LocksHeld, OwnersKept, InStep, NEW w \in Workers,
         worker[w].pc \in Prepared \cup {"read", "adopt"}
  PROVE  /\ worker[w].session \in Sessions /\ worker[w].runtime \in Runtimes
         /\ owner[worker[w].session] = worker[w].runtime
         /\ \A v \in Workers \ {w} : worker[v].session # worker[w].session
         /\ \A v \in Workers \ {w} : worker[v].runtime # worker[w].runtime
         /\ \A r \in Runtimes \ {worker[w].runtime} : record[r].session # worker[w].session
<1>1. worker[w].session \in Sessions
  BY DEF InStep, InStepAt
<1>2. worker[w].runtime \in Runtimes
  BY DEF LocksHeld, Prepared
<1> QED
  BY <1>1, <1>2 DEF LocksHeld, OwnersKept

\* So has one that has just created a session, unless somebody was faster.
LEMMA NewHolder ==
  ASSUME LiveTypeOK, LocksHeld, OwnersKept, NEW w \in Workers, NEW s \in Sessions,
         worker[w].pc # "off", CanClaim(w, s)
  PROVE  /\ worker[w].runtime \in Runtimes
         /\ owner[s] \in {None, worker[w].runtime}
         /\ \A v \in Workers \ {w} : worker[v].session # s
         /\ \A v \in Workers \ {w} : worker[v].runtime # worker[w].runtime
         /\ \A r \in Runtimes \ {worker[w].runtime} : record[r].session # s
<1>1. worker[w].runtime \in Runtimes
  BY DEF LocksHeld
<1>2. owner[s] \in {None, worker[w].runtime}
  BY DEF CanClaim, OwnersKept
<1>3. \A v \in Workers \ {w} : worker[v].session # s
  BY DEF CanClaim, LocksHeld
<1>4. \A v \in Workers \ {w} : worker[v].runtime # worker[w].runtime
  BY <1>1 DEF LocksHeld
<1>5. \A r \in Runtimes \ {worker[w].runtime} : record[r].session # s
  BY <1>2, NoneIsNoValue DEF OwnersKept
<1> QED
  BY <1>1, <1>2, <1>3, <1>4, <1>5

LEMMA KindsOfSteps ==
  ASSUME LiveTypeOK, LocksHeld, OwnersKept, InStep, SessionsBorn, [Next]_vars
  PROVE  \/ OthersAct
         \/ \E w \in Workers :
              \/ GoesOn(w) \/ ClaimSession(w) \/ ClaimCreated(w) \/ GetSession(w)
              \/ AdoptSession(w) \/ \E s \in Sessions : CreateSession(w, s)
              \/ SweepMarker(w) \/ ForgetMarker(w) \/ MintMarker(w) \/ CreatePreparation(w)
              \/ \E agent \in AgentRules : ResolveAgent(w, agent)
              \/ AppendSessionPermissions(w) \/ RemovePreparation(w) \/ SettleRecord(w)
<1>1. ASSUME NEW w \in Workers, NEW r \in Runtimes, NEW named \in Sessions \cup {None},
             Start(w, r, named)
      PROVE  GoesOn(w)
  <2>1. worker'[w].pc = "session" /\ worker'[w].named = named
        /\ \A v \in Workers \ {w} : worker'[v] = worker[v]
    BY <1>1, StartEffect DEF Becomes
  <2>2. named \in Sessions => native[named].exists
    BY <1>1, NoneIsNoValue DEF Start
  <2> QED
    BY <1>1, <2>1, <2>2 DEF Start, GoesOn, Prepared, outside
<1> DEFINE Same(w) == /\ worker'[w].named = worker[w].named
                      /\ \A v \in Workers \ {w} : worker'[v] = worker[v]
<1>2. ASSUME NEW w \in Workers, Same(w), worker'[w].pc \in {"session", "idle", "broken"},
             UNCHANGED <<native, record, owner, late, outside>>
      PROVE  GoesOn(w)
  BY <1>2 DEF GoesOn, Prepared, outside, SessionsBorn
<1>3. ASSUME NEW w \in Workers, Execute(w)
      PROVE  GoesOn(w)
  <2>1. Same(w) /\ worker'[w].pc = "session"
    BY <1>3, ExecuteEffect DEF Becomes
  <2> QED
    BY <1>2, <1>3, <2>1 DEF Execute
<1>4. ASSUME NEW w \in Workers, VerifyReadback(w)
      PROVE  GoesOn(w)
  <2>1. Same(w) /\ worker'[w].pc = "unmark"
        /\ worker'[w].session = worker[w].session /\ worker'[w].rec = worker[w].rec
    BY <1>4, VerifyReadbackEffect DEF Becomes
  <2> QED
    BY <1>4, <2>1 DEF VerifyReadback, GoesOn, Prepared, outside, SessionsBorn
<1>5. ASSUME NEW w \in Workers, PromptEnds(w)
      PROVE  GoesOn(w)
  <2>1. Same(w) /\ worker'[w].pc = "idle"
    BY <1>5, PromptEndsEffect DEF Becomes
  <2> QED
    BY <1>2, <1>5, <2>1 DEF PromptEnds
<1>6. ASSUME NEW w \in Workers, Refuse(w)
      PROVE  GoesOn(w)
  <2>1. Same(w) /\ worker'[w].pc = "idle"
    BY <1>6, RefuseEffect DEF Becomes
  <2> QED
    BY <1>2, <1>6, <2>1 DEF Refuse
<1>7. ASSUME NEW w \in Workers, NEW pc \in {"idle", "broken"}, Fail(w, pc)
      PROVE  GoesOn(w)
  <2>1. Same(w) /\ worker'[w].pc = pc
    BY <1>7, FailEffect DEF Becomes
  <2> QED
    BY <1>2, <1>7, <2>1 DEF Fail
<1>8. ASSUME NEW w \in Workers, Close(w) \/ Kill(w)
      PROVE  GoesOn(w)
  <2>1. /\ worker'[w].pc = "off" /\ worker'[w].named = None
        /\ \A v \in Workers \ {w} : worker'[v] = worker[v]
    BY <1>8, CloseEffect DEF Off
  <2>2. /\ native' = native /\ record' = record /\ owner' = owner
        /\ adopted' = adopted /\ foreign' = foreign /\ stray' = stray
        /\ late' = late \/ (worker[w].pc # "off" /\ late' \subseteq late \cup UnderWay(w))
    BY <1>8 DEF Close, Kill, outside
  <2>3. ASSUME NEW q \in UnderWay(w), worker[w].pc # "off"
        PROVE  owner[q.session] # None
    <3>1. q.session \in Sessions /\ q.session = worker[w].session
      BY UnderWayIsRequest DEF Request
    <3>2. worker[w].runtime \in Runtimes
      BY <2>3 DEF LocksHeld
    <3> QED
      BY <3>1, <3>2, NoneIsNoValue DEF OwnersKept
  <2> QED
    BY <2>1, <2>2, <2>3, NoneIsNoValue DEF GoesOn, Prepared
<1>9. ASSUME NEW q \in late, ExecuteLate(q)
      PROVE  OthersAct
  <2>1. /\ q \in Request /\ late' = late \ {q}
        /\ \E rules \in Seq(Rule), markers \in SUBSET Marker, undo \in BOOLEAN :
             /\ NativeBecomes(q.session, native[q.session].exists, rules, markers, undo)
             /\ rules = native[q.session].rules \/ q.session \in foreign'
             /\ markers \ stray' \subseteq native[q.session].markers \ stray
        /\ foreign' \in {foreign, foreign \cup {q.session}}
        /\ stray' \in {stray, stray \cup {q.marker}}
    BY <1>9, ExecuteLateEffect
  <2>2. q.session \in Sessions /\ native[q.session].exists
    BY <2>1 DEF SessionsBorn, LiveTypeOK, Native, Request
  <2>3. worker' = worker /\ record' = record /\ owner' = owner /\ adopted' = adopted
    BY <1>9 DEF ExecuteLate
  <2>4. foreign \subseteq foreign' /\ stray \subseteq stray'
    BY <2>1
  <2>5. ASSUME NEW s \in Sessions
        PROVE  /\ native'[s].exists = native[s].exists
               /\ native'[s].markers \ stray' \subseteq native[s].markers \ stray
               /\ native'[s].rules # native[s].rules => s \in foreign' /\ native[s].exists
    <3>1. CASE s = q.session
      BY <2>1, <2>2, <3>1 DEF NativeBecomes
    <3>2. CASE s # q.session
      <4>1. native'[s] = native[s]
        BY <2>1, <3>2 DEF NativeBecomes
      <4> QED
        BY <4>1, <2>4
    <3> QED
      BY <3>1, <3>2
  <2> QED
    BY <2>1, <2>3, <2>4, <2>5 DEF OthersAct
<1>10. ASSUME NEW s \in Sessions, NEW rules \in HumanRules, EditRules(s, rules)
       PROVE  OthersAct
  BY <1>10, EditRulesEffect DEF NativeBecomes, EditRules, OthersAct
<1>11. ASSUME NEW s \in Sessions, Undo(s)
       PROVE  OthersAct
  BY <1>11, UndoEffect DEF NativeBecomes, Undo, OthersAct, outside
<1>12. ASSUME NEW s \in Sessions, ResolveUndo(s)
       PROVE  OthersAct
  BY <1>12, ResolveUndoEffect DEF NativeBecomes, ResolveUndo, OthersAct, outside
<1>13. CASE UNCHANGED vars
  BY <1>13 DEF vars, outside, OthersAct
<1> HIDE DEF Same
<1> QED
  BY <1>1, <1>3, <1>4, <1>5, <1>6, <1>7, <1>8, <1>9, <1>10, <1>11, <1>12, <1>13 DEF Next, Steps

----------------------------------------------------------------------------
(* Rules of a session *)

\* Other workers see what they saw, when their sessions are left alone.
LEMMA OthersSee ==
  ASSUME RulesSeen, NEW w \in Workers, RulesSeenBy(w)',
         \A v \in Workers \ {w} : worker'[v] = worker[v],
         \A v \in Workers \ {w} :
           worker[v].session \in Sessions \ foreign' =>
             /\ worker[v].session \notin foreign
             /\ native'[worker[v].session].rules = native[worker[v].session].rules
  PROVE  RulesSeen'
<1> SUFFICES ASSUME NEW v \in Workers \ {w}
             PROVE  RulesSeenBy(v)'
  BY DEF RulesSeen
<1> QED
  BY DEF RulesSeen, RulesSeenBy

\* A worker sees what it did to its session, unless others changed it.
LEMMA RulesStaySeen ==
  ASSUME LiveTypeOK, LocksHeld, OwnersKept, InStep, SessionsBorn,
         RulesSeen, [Next]_vars
  PROVE  RulesSeen'
<1>1. CASE OthersAct
  BY <1>1 DEF OthersAct, RulesSeen, RulesSeenBy
<1>2. ASSUME NEW w \in Workers, GoesOn(w)
      PROVE  RulesSeen'
  <2>1. RulesSeenBy(w)
    BY DEF RulesSeen
  <2>2. RulesSeenBy(w)'
    BY <1>2, <2>1 DEF GoesOn, RulesSeenBy, Prepared
  <2> QED
    BY <1>2, <2>2, OthersSee DEF GoesOn
<1>3. ASSUME NEW w \in Workers, ClaimSession(w)
      PROVE  RulesSeen'
  <2>1. worker'[w].pc = "read"
        /\ \A v \in Workers \ {w} : worker'[v] = worker[v]
    BY <1>3, ClaimSessionEffect DEF Becomes
  <2>2. native' = native /\ foreign' = foreign
    BY <1>3 DEF ClaimSession, outside
  <2>3. RulesSeenBy(w)'
    BY <2>1 DEF RulesSeenBy
  <2> QED
    BY <2>1, <2>2, <2>3, OthersSee
<1>4. ASSUME NEW w \in Workers, ClaimCreated(w)
      PROVE  RulesSeen'
  <2> DEFINE s == worker[w].rec.session
  <2>1. /\ s \in Sessions /\ worker'[w].pc = "adopt"
        /\ worker'[w].session = s /\ worker'[w].seen = <<>>
        /\ \A v \in Workers \ {w} : worker'[v] = worker[v]
    BY <1>4, ClaimCreatedEffect DEF Becomes
  <2>2. /\ worker[w].pc = "made" /\ CanClaim(w, s) /\ native' = native
        /\ foreign' = IF native[s].rules = <<>> THEN foreign \ {s} ELSE foreign
    BY <1>4 DEF ClaimCreated
  <2>3. /\ owner[s] \in {None, worker[w].runtime}
        /\ \A v \in Workers \ {w} : worker[v].session # s
    BY <2>1, <2>2, NewHolder
  <2>4. s \notin foreign' => native[s].rules = <<>>
    BY <2>2, <2>3 DEF SessionsBorn
  <2> HIDE DEF s
  <2>5. RulesSeenBy(w)'
    BY <2>1, <2>2, <2>4 DEF RulesSeenBy
  <2> QED
    BY <2>1, <2>2, <2>3, <2>5, OthersSee
<1>5. ASSUME NEW w \in Workers, GetSession(w)
      PROVE  RulesSeen'
  <2> DEFINE s == worker[w].session
  <2>1. /\ worker'[w].pc \in {"prepare", "adopt"}
        /\ worker'[w].session = s /\ worker'[w].seen = native[s].rules
        /\ \A v \in Workers \ {w} : worker'[v] = worker[v]
    BY <1>5, GetSessionEffect DEF Becomes
  <2>2. native' = native /\ foreign' \in {foreign, foreign \ {s}}
    BY <1>5 DEF GetSession
  <2>3. \A v \in Workers \ {w} : worker[v].session # s
    BY <1>5, Holder DEF GetSession
  <2> HIDE DEF s
  <2>4. RulesSeenBy(w)'
    BY <2>1, <2>2 DEF RulesSeenBy
  <2> QED
    BY <2>1, <2>2, <2>3, <2>4, OthersSee
<1>6. ASSUME NEW w \in Workers, AdoptSession(w)
      PROVE  RulesSeen'
  <2>1. /\ worker'[w].pc = "prepare" /\ worker'[w].session = worker[w].session
        /\ worker'[w].seen = worker[w].seen
        /\ \A v \in Workers \ {w} : worker'[v] = worker[v]
    BY <1>6, AdoptSessionEffect DEF RecordBecomes, Becomes
  <2>2. native' = native /\ foreign' = foreign /\ worker[w].pc = "adopt"
    BY <1>6 DEF AdoptSession, outside
  <2>3. RulesSeenBy(w)
    BY DEF RulesSeen
  <2>4. RulesSeenBy(w)'
    BY <2>1, <2>2, <2>3 DEF RulesSeenBy
  <2> QED
    BY <2>1, <2>2, <2>4, OthersSee
<1>7. ASSUME NEW w \in Workers, NEW s \in Sessions, CreateSession(w, s)
      PROVE  RulesSeen'
  <2>1. worker'[w].pc = "made"
        /\ \A v \in Workers \ {w} : worker'[v] = worker[v]
    BY <1>7, CreateSessionEffect DEF Becomes
  <2>2. \A t \in Sessions : native'[t].rules = native[t].rules
    BY <1>7, CreateSessionEffect DEF NativeBecomes
  <2>3. foreign' = foreign
    BY <1>7 DEF CreateSession, outside
  <2>4. RulesSeenBy(w)'
    BY <2>1 DEF RulesSeenBy
  <2> QED
    BY <2>1, <2>2, <2>3, <2>4, OthersSee
<1>8. ASSUME NEW w \in Workers, SweepMarker(w)
      PROVE  RulesSeen'
  <2> DEFINE s == worker[w].session
  <2>1. /\ s \in Sessions /\ worker'[w].pc = "swept" /\ worker'[w].session = s
        /\ worker'[w].seen = worker[w].seen /\ worker'[w].rec = worker[w].rec
        /\ native'[s].rules = native[s].rules
        /\ \A t \in Sessions \ {s} : native'[t] = native[t]
        /\ \A v \in Workers \ {w} : worker'[v] = worker[v]
    BY <1>8, SweepMarkerEffect DEF Becomes, NativeBecomes
  <2>2. foreign' = foreign /\ worker[w].pc = "prepare"
    BY <1>8 DEF SweepMarker, outside
  <2>3. \A v \in Workers \ {w} : worker[v].session # s
    BY <2>2, Holder DEF Prepared
  <2>4. RulesSeenBy(w)
    BY DEF RulesSeen
  <2> HIDE DEF s
  <2>5. RulesSeenBy(w)'
    BY <2>1, <2>2, <2>4 DEF RulesSeenBy, s
  <2> QED
    BY <2>1, <2>2, <2>3, <2>5, OthersSee
<1>9. ASSUME NEW w \in Workers, ForgetMarker(w)
      PROVE  RulesSeen'
  <2>1. /\ worker'[w].pc = "prepare" /\ worker'[w].session = worker[w].session
        /\ worker'[w].seen = worker[w].seen
        /\ \A v \in Workers \ {w} : worker'[v] = worker[v]
    BY <1>9, ForgetMarkerEffect DEF RecordBecomes, Becomes
  <2>2. native' = native /\ foreign' = foreign /\ worker[w].pc = "swept"
    BY <1>9 DEF ForgetMarker, outside
  <2>3. RulesSeenBy(w)
    BY DEF RulesSeen
  <2>4. RulesSeenBy(w)'
    BY <2>1, <2>2, <2>3 DEF RulesSeenBy
  <2> QED
    BY <2>1, <2>2, <2>4, OthersSee
<1>10. ASSUME NEW w \in Workers, MintMarker(w)
      PROVE  RulesSeen'
  <2>1. /\ worker'[w].pc = "create" /\ worker'[w].session = worker[w].session
        /\ worker'[w].seen = worker[w].seen
        /\ \A v \in Workers \ {w} : worker'[v] = worker[v]
    BY <1>10, MintMarkerEffect DEF RecordBecomes, Becomes
  <2>2. native' = native /\ foreign' = foreign /\ worker[w].pc = "prepare"
    BY <1>10 DEF MintMarker, outside
  <2>3. RulesSeenBy(w)
    BY DEF RulesSeen
  <2>4. RulesSeenBy(w)'
    BY <2>1, <2>2, <2>3 DEF RulesSeenBy
  <2> QED
    BY <2>1, <2>2, <2>4, OthersSee
<1>11. ASSUME NEW w \in Workers, CreatePreparation(w)
      PROVE  RulesSeen'
  <2> DEFINE s == worker[w].session
  <2>1. /\ s \in Sessions /\ worker'[w].pc = "resolve" /\ worker'[w].session = s
        /\ worker'[w].seen = worker[w].seen /\ worker'[w].rec = worker[w].rec
        /\ native'[s].rules = Baseline
        /\ \A t \in Sessions \ {s} : native'[t] = native[t]
        /\ \A v \in Workers \ {w} : worker'[v] = worker[v]
    BY <1>11, CreatePreparationEffect DEF Becomes, NativeBecomes
  <2>2. foreign' = foreign \ {s} /\ worker[w].pc = "create"
    BY <1>11 DEF CreatePreparation, outside
  <2>3. \A v \in Workers \ {w} : worker[v].session # s
    BY <2>2, Holder DEF Prepared
  <2>4. RulesSeenBy(w)
    BY DEF RulesSeen
  <2> HIDE DEF s
  <2>5. RulesSeenBy(w)'
    BY <2>1, <2>2, <2>4 DEF RulesSeenBy, s
  <2> QED
    BY <2>1, <2>2, <2>3, <2>5, OthersSee
<1>12. ASSUME NEW w \in Workers, NEW agent \in AgentRules, ResolveAgent(w, agent)
      PROVE  RulesSeen'
  <2>1. /\ worker'[w].pc = "append" /\ worker'[w].session = worker[w].session
        /\ worker'[w].seen = worker[w].seen
        /\ \A v \in Workers \ {w} : worker'[v] = worker[v]
    BY <1>12, ResolveAgentEffect DEF RecordBecomes, Becomes
  <2>2. native' = native /\ foreign' = foreign /\ worker[w].pc = "resolve"
    BY <1>12 DEF ResolveAgent, outside
  <2>3. RulesSeenBy(w)
    BY DEF RulesSeen
  <2>4. RulesSeenBy(w)'
    BY <2>1, <2>2, <2>3 DEF RulesSeenBy
  <2> QED
    BY <2>1, <2>2, <2>4, OthersSee
<1>13. ASSUME NEW w \in Workers, AppendSessionPermissions(w)
      PROVE  RulesSeen'
  <2> DEFINE s == worker[w].session
  <2>1. /\ s \in Sessions /\ worker'[w].pc = "verify" /\ worker'[w].session = s
        /\ worker'[w].seen = worker[w].seen /\ worker'[w].rec = worker[w].rec
        /\ native'[s].rules = native[s].rules \o Restrictive(w)
        /\ \A t \in Sessions \ {s} : native'[t] = native[t]
        /\ \A v \in Workers \ {w} : worker'[v] = worker[v]
    BY <1>13, AppendSessionPermissionsEffect DEF Becomes, NativeBecomes
  <2>2. foreign' = foreign /\ worker[w].pc = "append"
    BY <1>13 DEF AppendSessionPermissions, outside
  <2>3. \A v \in Workers \ {w} : worker[v].session # s
    BY <2>2, Holder DEF Prepared
  <2>4. RulesSeenBy(w)
    BY DEF RulesSeen
  <2>6. Baseline \o Restrictive(w) = worker[w].rec.pending
    BY <2>2, RestrictiveOfInstalled
  <2> HIDE DEF s
  <2>5. RulesSeenBy(w)'
    BY <2>1, <2>2, <2>4, <2>6 DEF RulesSeenBy, s
  <2> QED
    BY <2>1, <2>2, <2>3, <2>5, OthersSee
<1>14. ASSUME NEW w \in Workers, RemovePreparation(w)
      PROVE  RulesSeen'
  <2> DEFINE s == worker[w].session
  <2>1. /\ s \in Sessions /\ worker'[w].pc = "settle" /\ worker'[w].session = s
        /\ worker'[w].seen = worker[w].seen /\ worker'[w].rec = worker[w].rec
        /\ native'[s].rules = native[s].rules
        /\ \A t \in Sessions \ {s} : native'[t] = native[t]
        /\ \A v \in Workers \ {w} : worker'[v] = worker[v]
    BY <1>14, RemovePreparationEffect DEF Becomes, NativeBecomes
  <2>2. foreign' = foreign /\ worker[w].pc = "unmark"
    BY <1>14 DEF RemovePreparation, outside
  <2>3. \A v \in Workers \ {w} : worker[v].session # s
    BY <2>2, Holder DEF Prepared
  <2>4. RulesSeenBy(w)
    BY DEF RulesSeen
  <2> HIDE DEF s
  <2>5. RulesSeenBy(w)'
    BY <2>1, <2>2, <2>4 DEF RulesSeenBy, s
  <2> QED
    BY <2>1, <2>2, <2>3, <2>5, OthersSee
<1>15. ASSUME NEW w \in Workers, SettleRecord(w)
      PROVE  RulesSeen'
  <2>1. /\ worker'[w].pc = "prompt" /\ worker'[w].session = worker[w].session
        /\ worker'[w].seen = worker[w].seen /\ worker'[w].rec.managed = worker[w].rec.pending
        /\ \A v \in Workers \ {w} : worker'[v] = worker[v]
    BY <1>15, SettleRecordEffect DEF RecordBecomes, Becomes
  <2>2. native' = native /\ foreign' = foreign /\ worker[w].pc = "settle"
    BY <1>15 DEF SettleRecord, outside
  <2>3. RulesSeenBy(w)
    BY DEF RulesSeen
  <2>4. RulesSeenBy(w)'
    BY <2>1, <2>2, <2>3 DEF RulesSeenBy
  <2> QED
    BY <2>1, <2>2, <2>4, OthersSee
<1> QED
  BY <1>1, <1>2, <1>3, <1>4, <1>5, <1>6, <1>7, <1>8, <1>9, <1>10, <1>11, <1>12, <1>13, <1>14, <1>15, KindsOfSteps

\* Other records hold what they held, when their sessions are left alone.
LEMMA OthersExpect ==
  ASSUME RulesExpected, NEW rt \in Runtimes, RulesExpectedBy(rt)',
         \A r \in Runtimes \ {rt} : record'[r] = record[r],
         \A r \in Runtimes \ {rt} :
           record[r].session \in Sessions \ foreign' =>
             /\ record[r].session \notin foreign
             /\ native'[record[r].session].rules = native[record[r].session].rules
  PROVE  RulesExpected'
<1> SUFFICES ASSUME NEW r \in Runtimes \ {rt}
             PROVE  RulesExpectedBy(r)'
  BY DEF RulesExpected
<1> QED
  BY DEF RulesExpected, RulesExpectedBy, Expected

\* The record explains the rules of its session, unless others changed them.
LEMMA RulesStayExpected ==
  ASSUME LiveTypeOK, LocksHeld, OwnersKept, InStep, SessionsBorn,
         RulesSeen, RulesExpected, [Next]_vars
  PROVE  RulesExpected'
<1>1. CASE OthersAct
  BY <1>1 DEF OthersAct, RulesExpected, RulesExpectedBy, Expected
<1>2. ASSUME NEW w \in Workers, GoesOn(w)
      PROVE  RulesExpected'
  BY <1>2 DEF GoesOn, RulesExpected, RulesExpectedBy, Expected
<1>3. ASSUME NEW w \in Workers, ClaimSession(w)
      PROVE  RulesExpected'
  <2>1. native' = native /\ foreign' = foreign /\ record' = record
    BY <1>3 DEF ClaimSession, outside
  <2> QED
    BY <2>1 DEF RulesExpected, RulesExpectedBy, Expected
<1>4. ASSUME NEW w \in Workers, ClaimCreated(w)
      PROVE  RulesExpected'
  <2> DEFINE s == worker[w].rec.session
  <2>1. /\ s \in Sessions /\ native' = native /\ record' = record
        /\ foreign' \in {foreign, foreign \ {s}}
        /\ worker[w].pc = "made" /\ CanClaim(w, s)
    BY <1>4, ClaimCreatedEffect DEF ClaimCreated
  <2>2. /\ worker[w].runtime \in Runtimes
        /\ \A r \in Runtimes \ {worker[w].runtime} : record[r].session # s
    BY <2>1, NewHolder
  <2>3. record[worker[w].runtime].session = None
    BY <2>1 DEF InStep, InStepAt
  <2> HIDE DEF s
  <2>4. \A r \in Runtimes : record[r].session # s
    BY <2>1, <2>2, <2>3, NoneIsNoValue
  <2> QED
    BY <2>1, <2>4 DEF RulesExpected, RulesExpectedBy, Expected
<1>5. ASSUME NEW w \in Workers, GetSession(w)
      PROVE  RulesExpected'
  <2> DEFINE s == worker[w].session
  <2>1. /\ native' = native /\ record' = record
        /\ foreign' = IF HasRecord(w) THEN foreign ELSE foreign \ {s}
        /\ worker[w].pc = "read"
    BY <1>5 DEF GetSession
  <2>2. /\ s \in Sessions /\ worker[w].runtime \in Runtimes
        /\ \A r \in Runtimes \ {worker[w].runtime} : record[r].session # s
    BY <2>1, Holder
  <2> HIDE DEF s
  <2>3. CASE HasRecord(w)
    BY <2>1, <2>3 DEF RulesExpected, RulesExpectedBy, Expected
  <2>4. CASE ~HasRecord(w)
    <3>1. \A r \in Runtimes : record[r].session # s
      BY <2>2, <2>4, NoneIsNoValue DEF HasRecord, OnRecord
    <3> QED
      BY <2>1, <2>4, <3>1 DEF RulesExpected, RulesExpectedBy, Expected
  <2> QED
    BY <2>3, <2>4
<1>6. ASSUME NEW w \in Workers, AdoptSession(w)
      PROVE  RulesExpected'
  <2> DEFINE s == worker[w].session
  <2>2. native' = native /\ foreign' = foreign /\ worker[w].pc = "adopt"
    BY <1>6 DEF AdoptSession, outside
  <2>3. PICK rt \in Runtimes : rt = worker[w].runtime /\ s \in Sessions
    BY <2>2, Holder DEF Prepared
  <2> DEFINE rec == record'[rt]
  <2>1. /\ rec.session = s /\ rec.original = worker[w].seen /\ rec.managed = <<>>
        /\ rec.marker = NoMarker
        /\ \A r \in Runtimes \ {rt} : record'[r] = record[r]
    BY <1>6, <2>3, AdoptSessionEffect DEF RecordBecomes
  <2>4. RulesSeenBy(w) /\ RulesExpectedBy(rt)
    BY <2>3 DEF RulesSeen, RulesExpected
  <2>6. RulesExpectedBy(rt)'
    BY <2>1, <2>2, <2>4 DEF RulesSeenBy, RulesExpectedBy, Expected
  <2> HIDE DEF s, rec
  <2> QED
    BY <2>1, <2>2, <2>3, <2>6, OthersExpect
<1>7. ASSUME NEW w \in Workers, NEW s \in Sessions, CreateSession(w, s)
      PROVE  RulesExpected'
  <2>1. \A t \in Sessions : native'[t].rules = native[t].rules
    BY <1>7, CreateSessionEffect DEF NativeBecomes
  <2>2. foreign' = foreign /\ record' = record
    BY <1>7 DEF CreateSession, outside
  <2> QED
    BY <2>1, <2>2 DEF RulesExpected, RulesExpectedBy, Expected
<1>8. ASSUME NEW w \in Workers, SweepMarker(w)
      PROVE  RulesExpected'
  <2>1. \A t \in Sessions : native'[t].rules = native[t].rules
    BY <1>8, SweepMarkerEffect DEF NativeBecomes
  <2>2. foreign' = foreign /\ record' = record
    BY <1>8 DEF SweepMarker, outside
  <2> QED
    BY <2>1, <2>2 DEF RulesExpected, RulesExpectedBy, Expected
<1>9. ASSUME NEW w \in Workers, ForgetMarker(w)
      PROVE  RulesExpected'
  <2> DEFINE s == worker[w].session
  <2>2. native' = native /\ foreign' = foreign /\ worker[w].pc = "swept"
    BY <1>9 DEF ForgetMarker, outside
  <2>3. PICK rt \in Runtimes : rt = worker[w].runtime /\ s \in Sessions
    BY <2>2, Holder DEF Prepared
  <2> DEFINE rec == record'[rt]
  <2>1. /\ rec.session = worker[w].rec.session /\ rec.original = worker[w].rec.original
        /\ rec.managed = worker[w].seen /\ rec.marker = NoMarker
        /\ \A r \in Runtimes \ {rt} : record'[r] = record[r]
    BY <1>9, <2>3, ForgetMarkerEffect DEF RecordBecomes
  <2>4. RulesSeenBy(w) /\ RulesExpectedBy(rt)
    BY <2>3 DEF RulesSeen, RulesExpected
  <2>5. worker[w].rec = record[rt] /\ worker[w].rec.session = s
    BY <2>2, <2>3 DEF InStep, InStepAt, Prepared
  <2>6. ASSUME s \notin foreign
        PROVE  worker[w].seen = Expected(rec)
    <3>1. native[s].rules = worker[w].seen
      BY <2>2, <2>3, <2>4, <2>6 DEF RulesSeenBy
    <3>2. Baseline # <<>>
      BY DEF Baseline, Wildcard
    <3>3. worker[w].seen = <<>> => worker[w].rec.original = <<>>
      BY <2>3, <2>4, <2>5, <2>6, <3>1, <3>2 DEF RulesExpectedBy, Expected
    <3> QED
      BY <2>1, <3>3 DEF Expected
  <2>7. RulesExpectedBy(rt)'
    BY <2>1, <2>2, <2>3, <2>4, <2>5, <2>6 DEF RulesSeenBy, RulesExpectedBy, Expected
  <2> HIDE DEF s, rec
  <2> QED
    BY <2>1, <2>2, <2>3, <2>7, OthersExpect
<1>10. ASSUME NEW w \in Workers, MintMarker(w)
      PROVE  RulesExpected'
  <2> DEFINE s == worker[w].session
  <2>2. native' = native /\ foreign' = foreign /\ worker[w].pc = "prepare"
    BY <1>10 DEF MintMarker, outside
  <2>3. PICK rt \in Runtimes : rt = worker[w].runtime /\ s \in Sessions
    BY <2>2, Holder DEF Prepared
  <2> DEFINE rec == record'[rt]
  <2>1. /\ rec.session = worker[w].rec.session /\ rec.original = worker[w].rec.original
        /\ rec.managed = worker[w].rec.managed
        /\ \A r \in Runtimes \ {rt} : record'[r] = record[r]
    BY <1>10, <2>3, MintMarkerEffect DEF RecordBecomes
  <2>4. RulesSeenBy(w) /\ RulesExpectedBy(rt)
    BY <2>3 DEF RulesSeen, RulesExpected
  <2>5. worker[w].rec = record[rt] /\ worker[w].rec.session = s
    BY <2>2, <2>3 DEF InStep, InStepAt, Prepared
  <2>6. worker[w].rec.marker = NoMarker
    BY <1>10 DEF MintMarker, Interrupted
  <2>7. RulesExpectedBy(rt)'
    BY <2>1, <2>2, <2>4, <2>5, <2>6 DEF RulesExpectedBy, Expected
  <2> HIDE DEF s, rec
  <2> QED
    BY <2>1, <2>2, <2>3, <2>7, OthersExpect
<1>11. ASSUME NEW w \in Workers, CreatePreparation(w)
      PROVE  RulesExpected'
  <2> DEFINE s == worker[w].session
  <2>1. /\ native'[s].rules = Baseline
        /\ \A t \in Sessions \ {s} : native'[t] = native[t]
    BY <1>11, CreatePreparationEffect DEF NativeBecomes
  <2>2. foreign' = foreign \ {s} /\ record' = record /\ worker[w].pc = "create"
    BY <1>11 DEF CreatePreparation, outside
  <2>3. PICK rt \in Runtimes :
          /\ rt = worker[w].runtime /\ s \in Sessions
          /\ \A r \in Runtimes \ {rt} : record[r].session # s
    BY <2>2, Holder DEF Prepared
  <2>4. worker[w].rec = record[rt] /\ worker[w].rec.session = s /\ worker[w].rec.marker # NoMarker
    BY <2>2, <2>3 DEF InStep, InStepAt, Prepared
  <2> HIDE DEF s
  <2>8. RulesExpectedBy(rt)'
    BY <2>1, <2>2, <2>4 DEF RulesExpectedBy, Expected
  <2> QED
    BY <2>1, <2>2, <2>3, <2>8, OthersExpect
<1>12. ASSUME NEW w \in Workers, NEW agent \in AgentRules, ResolveAgent(w, agent)
      PROVE  RulesExpected'
  <2> DEFINE s == worker[w].session
  <2>2. native' = native /\ foreign' = foreign /\ worker[w].pc = "resolve"
    BY <1>12 DEF ResolveAgent, outside
  <2>3. PICK rt \in Runtimes : rt = worker[w].runtime /\ s \in Sessions
    BY <2>2, Holder DEF Prepared
  <2> DEFINE rec == record'[rt]
  <2>1. /\ rec.session = worker[w].rec.session /\ rec.marker = worker[w].rec.marker
        /\ \A r \in Runtimes \ {rt} : record'[r] = record[r]
    BY <1>12, <2>3, ResolveAgentEffect DEF RecordBecomes
  <2>4. RulesSeenBy(w) /\ RulesExpectedBy(rt)
    BY <2>3 DEF RulesSeen, RulesExpected
  <2>5. worker[w].rec = record[rt] /\ worker[w].rec.session = s
    BY <2>2, <2>3 DEF InStep, InStepAt, Prepared
  <2>6. worker[w].rec.marker # NoMarker
    BY <2>2 DEF InStep, InStepAt, Prepared
  <2>7. RulesExpectedBy(rt)'
    BY <2>1, <2>2, <2>4, <2>5, <2>6 DEF RulesSeenBy, RulesExpectedBy
  <2> HIDE DEF s, rec
  <2> QED
    BY <2>1, <2>2, <2>3, <2>7, OthersExpect
<1>13. ASSUME NEW w \in Workers, AppendSessionPermissions(w)
      PROVE  RulesExpected'
  <2> DEFINE s == worker[w].session
  <2>1. /\ native'[s].rules = native[s].rules \o Restrictive(w)
        /\ \A t \in Sessions \ {s} : native'[t] = native[t]
    BY <1>13, AppendSessionPermissionsEffect DEF NativeBecomes
  <2>2. foreign' = foreign /\ record' = record /\ worker[w].pc = "append"
    BY <1>13 DEF AppendSessionPermissions, outside
  <2>3. PICK rt \in Runtimes :
          /\ rt = worker[w].runtime /\ s \in Sessions
          /\ \A r \in Runtimes \ {rt} : record[r].session # s
    BY <2>2, Holder DEF Prepared
  <2>4. worker[w].rec = record[rt] /\ worker[w].rec.session = s /\ worker[w].rec.marker # NoMarker
    BY <2>2, <2>3 DEF InStep, InStepAt, Prepared
  <2>6. Baseline \o Restrictive(w) = worker[w].rec.pending /\ worker[w].rec.pending # <<>>
    BY <2>2, RestrictiveOfInstalled
  <2>7. s \notin foreign => native[s].rules = Baseline
    BY <2>2, <2>3 DEF RulesSeen, RulesSeenBy
  <2> HIDE DEF s
  <2>8. RulesExpectedBy(rt)'
    BY <2>1, <2>2, <2>4, <2>6, <2>7 DEF RulesExpectedBy, Expected
  <2> QED
    BY <2>1, <2>2, <2>3, <2>8, OthersExpect
<1>14. ASSUME NEW w \in Workers, RemovePreparation(w)
      PROVE  RulesExpected'
  <2>1. \A t \in Sessions : native'[t].rules = native[t].rules
    BY <1>14, RemovePreparationEffect DEF NativeBecomes
  <2>2. foreign' = foreign /\ record' = record
    BY <1>14 DEF RemovePreparation, outside
  <2> QED
    BY <2>1, <2>2 DEF RulesExpected, RulesExpectedBy, Expected
<1>15. ASSUME NEW w \in Workers, SettleRecord(w)
      PROVE  RulesExpected'
  <2> DEFINE s == worker[w].session
  <2>2. native' = native /\ foreign' = foreign /\ worker[w].pc = "settle"
    BY <1>15 DEF SettleRecord, outside
  <2>3. PICK rt \in Runtimes : rt = worker[w].runtime /\ s \in Sessions
    BY <2>2, Holder DEF Prepared
  <2> DEFINE rec == record'[rt]
  <2>1. /\ rec.session = worker[w].rec.session /\ rec.managed = worker[w].rec.pending
        /\ rec.marker = NoMarker
        /\ \A r \in Runtimes \ {rt} : record'[r] = record[r]
    BY <1>15, <2>3, SettleRecordEffect DEF RecordBecomes
  <2>4. RulesSeenBy(w) /\ RulesExpectedBy(rt)
    BY <2>3 DEF RulesSeen, RulesExpected
  <2>5. worker[w].rec = record[rt] /\ worker[w].rec.session = s
    BY <2>2, <2>3 DEF InStep, InStepAt, Prepared
  <2>6. worker[w].rec.pending # <<>>
    BY <2>2, RestrictiveOfInstalled
  <2>7. RulesExpectedBy(rt)'
    BY <2>1, <2>2, <2>4, <2>5, <2>6 DEF RulesSeenBy, RulesExpectedBy, Expected
  <2> HIDE DEF s, rec
  <2> QED
    BY <2>1, <2>2, <2>3, <2>7, OthersExpect
<1> QED
  BY <1>1, <1>2, <1>3, <1>4, <1>5, <1>6, <1>7, <1>8, <1>9, <1>10, <1>11, <1>12, <1>13, <1>14, <1>15, KindsOfSteps

----------------------------------------------------------------------------
(* Markers *)

\* Other workers find swept what they swept, when no marker is added to their sessions.
LEMMA OthersSwept ==
  ASSUME MarkersSwept, NEW w \in Workers, MarkersSweptBy(w)',
         \A v \in Workers \ {w} : worker'[v] = worker[v],
         \A v \in Workers \ {w} :
           worker[v].pc \in {"swept", "settle"} =>
             native'[worker[v].session].markers \ stray' \subseteq
               native[worker[v].session].markers \ stray
  PROVE  MarkersSwept'
<1> SUFFICES ASSUME NEW v \in Workers \ {w}
             PROVE  MarkersSweptBy(v)'
  BY DEF MarkersSwept
<1> QED
  BY DEF MarkersSwept, MarkersSweptBy

\* A marker that was removed does not come back.
LEMMA MarkersStaySwept ==
  ASSUME LiveTypeOK, LocksHeld, OwnersKept, InStep, SessionsBorn,
         MarkersSwept, [Next]_vars
  PROVE  MarkersSwept'
<1>1. CASE OthersAct
  <2>1. \A v \in Workers : worker[v].pc \in {"swept", "settle"} => worker[v].session \in Sessions
    BY DEF InStep, InStepAt, Prepared
  <2> QED
    BY <1>1, <2>1 DEF OthersAct, MarkersSwept, MarkersSweptBy
<1>2. ASSUME NEW w \in Workers, GoesOn(w)
      PROVE  MarkersSwept'
  <2>1. MarkersSweptBy(w)'
    BY <1>2 DEF GoesOn, MarkersSweptBy, Prepared
  <2> QED
    BY <1>2, <2>1, OthersSwept DEF GoesOn
<1>3. ASSUME NEW w \in Workers, ClaimSession(w)
      PROVE  MarkersSwept'
  <2>1. /\ worker'[w].pc = "read"
        /\ \A v \in Workers \ {w} : worker'[v] = worker[v]
    BY <1>3, ClaimSessionEffect DEF Becomes
  <2>2. native' = native /\ stray' = stray
    BY <1>3 DEF ClaimSession, outside
  <2>3. MarkersSweptBy(w)'
    BY <2>1 DEF MarkersSweptBy
  <2> QED
    BY <2>1, <2>2, <2>3, OthersSwept
<1>4. ASSUME NEW w \in Workers, ClaimCreated(w)
      PROVE  MarkersSwept'
  <2>1. /\ worker'[w].pc = "adopt"
        /\ \A v \in Workers \ {w} : worker'[v] = worker[v]
    BY <1>4, ClaimCreatedEffect DEF Becomes
  <2>2. native' = native /\ stray' = stray
    BY <1>4 DEF ClaimCreated, outside
  <2>3. MarkersSweptBy(w)'
    BY <2>1 DEF MarkersSweptBy
  <2> QED
    BY <2>1, <2>2, <2>3, OthersSwept
<1>5. ASSUME NEW w \in Workers, GetSession(w)
      PROVE  MarkersSwept'
  <2>1. /\ worker'[w].pc \in {"prepare", "adopt"}
        /\ \A v \in Workers \ {w} : worker'[v] = worker[v]
    BY <1>5, GetSessionEffect DEF Becomes
  <2>2. native' = native /\ stray' = stray
    BY <1>5 DEF GetSession, outside
  <2>3. MarkersSweptBy(w)'
    BY <2>1 DEF MarkersSweptBy
  <2> QED
    BY <2>1, <2>2, <2>3, OthersSwept
<1>6. ASSUME NEW w \in Workers, AdoptSession(w)
      PROVE  MarkersSwept'
  <2>1. /\ worker'[w].pc = "prepare"
        /\ \A v \in Workers \ {w} : worker'[v] = worker[v]
    BY <1>6, AdoptSessionEffect DEF Becomes, RecordBecomes
  <2>2. native' = native /\ stray' = stray
    BY <1>6 DEF AdoptSession, outside
  <2>3. MarkersSweptBy(w)'
    BY <2>1 DEF MarkersSweptBy
  <2> QED
    BY <2>1, <2>2, <2>3, OthersSwept
<1>7. ASSUME NEW w \in Workers, NEW s \in Sessions, CreateSession(w, s)
      PROVE  MarkersSwept'
  <2>1. /\ worker'[w].pc = "made"
        /\ \A v \in Workers \ {w} : worker'[v] = worker[v]
    BY <1>7, CreateSessionEffect DEF Becomes
  <2>2. \A t \in Sessions : native'[t].markers = native[t].markers
    BY <1>7, CreateSessionEffect DEF NativeBecomes
  <2>3. stray' = stray
    BY <1>7 DEF CreateSession, outside
  <2>4. \A v \in Workers : worker[v].pc \in {"swept", "settle"} => worker[v].session \in Sessions
    BY DEF InStep, InStepAt, Prepared
  <2>5. MarkersSweptBy(w)'
    BY <2>1 DEF MarkersSweptBy
  <2> QED
    BY <2>1, <2>2, <2>3, <2>4, <2>5, OthersSwept
<1>8. ASSUME NEW w \in Workers, SweepMarker(w)
      PROVE  MarkersSwept'
  <2> DEFINE s == worker[w].session
  <2>1. /\ worker'[w].pc = "swept"
        /\ worker'[w].session = s /\ worker'[w].rec = worker[w].rec
        /\ native'[s].markers = native[s].markers \ {worker[w].rec.marker}
        /\ \A t \in Sessions \ {s} : native'[t] = native[t]
        /\ \A v \in Workers \ {w} : worker'[v] = worker[v]
    BY <1>8, SweepMarkerEffect DEF Becomes, NativeBecomes
  <2>2. stray' = stray /\ worker[w].pc = "prepare"
    BY <1>8 DEF SweepMarker, outside
  <2>3. \A v \in Workers \ {w} : worker[v].session # s
    BY <2>2, Holder DEF Prepared
  <2>4. \A v \in Workers : worker[v].pc \in {"swept", "settle"} => worker[v].session \in Sessions
    BY DEF InStep, InStepAt, Prepared
  <2> HIDE DEF s
  <2>5. MarkersSweptBy(w)'
    BY <2>1 DEF MarkersSweptBy, s
  <2> QED
    BY <2>1, <2>2, <2>3, <2>4, <2>5, OthersSwept
<1>9. ASSUME NEW w \in Workers, ForgetMarker(w)
      PROVE  MarkersSwept'
  <2>1. /\ worker'[w].pc = "prepare"
        /\ \A v \in Workers \ {w} : worker'[v] = worker[v]
    BY <1>9, ForgetMarkerEffect DEF Becomes, RecordBecomes
  <2>2. native' = native /\ stray' = stray
    BY <1>9 DEF ForgetMarker, outside
  <2>3. MarkersSweptBy(w)'
    BY <2>1 DEF MarkersSweptBy
  <2> QED
    BY <2>1, <2>2, <2>3, OthersSwept
<1>10. ASSUME NEW w \in Workers, MintMarker(w)
      PROVE  MarkersSwept'
  <2>1. /\ worker'[w].pc = "create"
        /\ \A v \in Workers \ {w} : worker'[v] = worker[v]
    BY <1>10, MintMarkerEffect DEF Becomes, RecordBecomes
  <2>2. native' = native /\ stray' = stray
    BY <1>10 DEF MintMarker, outside
  <2>3. MarkersSweptBy(w)'
    BY <2>1 DEF MarkersSweptBy
  <2> QED
    BY <2>1, <2>2, <2>3, OthersSwept
<1>11. ASSUME NEW w \in Workers, CreatePreparation(w)
      PROVE  MarkersSwept'
  <2> DEFINE s == worker[w].session
  <2>1. /\ worker'[w].pc = "resolve"
        /\ worker'[w].session = s /\ worker'[w].rec = worker[w].rec
        /\ native'[s].markers = native[s].markers \cup {worker[w].rec.marker}
        /\ \A t \in Sessions \ {s} : native'[t] = native[t]
        /\ \A v \in Workers \ {w} : worker'[v] = worker[v]
    BY <1>11, CreatePreparationEffect DEF Becomes, NativeBecomes
  <2>2. stray' = stray /\ worker[w].pc = "create"
    BY <1>11 DEF CreatePreparation, outside
  <2>3. \A v \in Workers \ {w} : worker[v].session # s
    BY <2>2, Holder DEF Prepared
  <2>4. \A v \in Workers : worker[v].pc \in {"swept", "settle"} => worker[v].session \in Sessions
    BY DEF InStep, InStepAt, Prepared
  <2> HIDE DEF s
  <2>5. MarkersSweptBy(w)'
    BY <2>1 DEF MarkersSweptBy, s
  <2> QED
    BY <2>1, <2>2, <2>3, <2>4, <2>5, OthersSwept
<1>12. ASSUME NEW w \in Workers, NEW agent \in AgentRules, ResolveAgent(w, agent)
      PROVE  MarkersSwept'
  <2>1. /\ worker'[w].pc = "append"
        /\ \A v \in Workers \ {w} : worker'[v] = worker[v]
    BY <1>12, ResolveAgentEffect DEF Becomes, RecordBecomes
  <2>2. native' = native /\ stray' = stray
    BY <1>12 DEF ResolveAgent, outside
  <2>3. MarkersSweptBy(w)'
    BY <2>1 DEF MarkersSweptBy
  <2> QED
    BY <2>1, <2>2, <2>3, OthersSwept
<1>13. ASSUME NEW w \in Workers, AppendSessionPermissions(w)
      PROVE  MarkersSwept'
  <2>1. /\ worker'[w].pc = "verify"
        /\ \A v \in Workers \ {w} : worker'[v] = worker[v]
    BY <1>13, AppendSessionPermissionsEffect DEF Becomes
  <2>2. \A t \in Sessions : native'[t].markers = native[t].markers
    BY <1>13, AppendSessionPermissionsEffect DEF NativeBecomes
  <2>3. stray' = stray
    BY <1>13 DEF AppendSessionPermissions, outside
  <2>4. \A v \in Workers : worker[v].pc \in {"swept", "settle"} => worker[v].session \in Sessions
    BY DEF InStep, InStepAt, Prepared
  <2>5. MarkersSweptBy(w)'
    BY <2>1 DEF MarkersSweptBy
  <2> QED
    BY <2>1, <2>2, <2>3, <2>4, <2>5, OthersSwept
<1>14. ASSUME NEW w \in Workers, RemovePreparation(w)
      PROVE  MarkersSwept'
  <2> DEFINE s == worker[w].session
  <2>1. /\ worker'[w].pc = "settle"
        /\ worker'[w].session = s /\ worker'[w].rec = worker[w].rec
        /\ native'[s].markers = native[s].markers \ {worker[w].rec.marker}
        /\ \A t \in Sessions \ {s} : native'[t] = native[t]
        /\ \A v \in Workers \ {w} : worker'[v] = worker[v]
    BY <1>14, RemovePreparationEffect DEF Becomes, NativeBecomes
  <2>2. stray' = stray /\ worker[w].pc = "unmark"
    BY <1>14 DEF RemovePreparation, outside
  <2>3. \A v \in Workers \ {w} : worker[v].session # s
    BY <2>2, Holder DEF Prepared
  <2>4. \A v \in Workers : worker[v].pc \in {"swept", "settle"} => worker[v].session \in Sessions
    BY DEF InStep, InStepAt, Prepared
  <2> HIDE DEF s
  <2>5. MarkersSweptBy(w)'
    BY <2>1 DEF MarkersSweptBy, s
  <2> QED
    BY <2>1, <2>2, <2>3, <2>4, <2>5, OthersSwept
<1>15. ASSUME NEW w \in Workers, SettleRecord(w)
      PROVE  MarkersSwept'
  <2>1. /\ worker'[w].pc = "prompt"
        /\ \A v \in Workers \ {w} : worker'[v] = worker[v]
    BY <1>15, SettleRecordEffect DEF Becomes, RecordBecomes
  <2>2. native' = native /\ stray' = stray
    BY <1>15 DEF SettleRecord, outside
  <2>3. MarkersSweptBy(w)'
    BY <2>1 DEF MarkersSweptBy
  <2> QED
    BY <2>1, <2>2, <2>3, OthersSwept
<1> QED
  BY <1>1, <1>2, <1>3, <1>4, <1>5, <1>6, <1>7, <1>8, <1>9, <1>10, <1>11, <1>12, <1>13, <1>14, <1>15, KindsOfSteps

\* Markers stay accounted for when none is added and the one of a record that
\* is rewritten is gone, or kept.
LEMMA AccountedStays ==
  ASSUME MarkersAccounted, NEW rt \in Runtimes,
         \A s \in Sessions : native'[s].markers \ stray' \subseteq native[s].markers \ stray,
         \A r \in Runtimes \ {rt} : record'[r] = record[r],
         \/ record[rt].session \notin Sessions
         \/ record[rt].marker \notin native[record[rt].session].markers \ stray
         \/ record'[rt].session = record[rt].session /\ record'[rt].marker = record[rt].marker
  PROVE  MarkersAccounted'
<1> SUFFICES ASSUME NEW s \in Sessions, NEW m \in native'[s].markers \ stray'
             PROVE  \E r \in Runtimes : record'[r].session = s /\ record'[r].marker = m
  BY DEF MarkersAccounted
<1>1. PICK r \in Runtimes : record[r].session = s /\ record[r].marker = m
  BY DEF MarkersAccounted
<1>2. CASE r # rt
  BY <1>1, <1>2
<1>3. CASE r = rt
  BY <1>1, <1>3
<1> QED
  BY <1>2, <1>3

\* Every marker stays on record until it is gone.
LEMMA MarkersStayAccounted ==
  ASSUME LiveTypeOK, LocksHeld, OwnersKept, InStep, SessionsBorn,
         MarkersSwept, MarkersAccounted, [Next]_vars
  PROVE  MarkersAccounted'
<1>1. CASE OthersAct
  BY <1>1 DEF OthersAct, MarkersAccounted
<1>2. ASSUME NEW w \in Workers, GoesOn(w)
      PROVE  MarkersAccounted'
  BY <1>2 DEF GoesOn, MarkersAccounted
<1>3. ASSUME NEW w \in Workers, ClaimSession(w)
      PROVE  MarkersAccounted'
  BY <1>3 DEF ClaimSession, MarkersAccounted, outside
<1>4. ASSUME NEW w \in Workers, ClaimCreated(w)
      PROVE  MarkersAccounted'
  BY <1>4 DEF ClaimCreated, MarkersAccounted, outside
<1>5. ASSUME NEW w \in Workers, GetSession(w)
      PROVE  MarkersAccounted'
  BY <1>5 DEF GetSession, MarkersAccounted, outside
<1>6. ASSUME NEW w \in Workers, AdoptSession(w)
      PROVE  MarkersAccounted'
  <2>1. native' = native /\ stray' = stray /\ worker[w].pc = "adopt"
    BY <1>6 DEF AdoptSession, outside
  <2>2. PICK rt \in Runtimes : rt = worker[w].runtime /\ worker[w].session \in Sessions
    BY <2>1, Holder DEF Prepared
  <2>3. \A r \in Runtimes \ {rt} : record'[r] = record[r]
    BY <1>6, <2>2, AdoptSessionEffect DEF RecordBecomes
  <2>4. record[rt].session \notin Sessions
    BY <2>1, <2>2, NoneIsNoValue DEF InStep, InStepAt
  <2> QED
    BY <2>1, <2>3, <2>4, AccountedStays
<1>7. ASSUME NEW w \in Workers, NEW s \in Sessions, CreateSession(w, s)
      PROVE  MarkersAccounted'
  <2>1. \A t \in Sessions : native'[t].markers \subseteq native[t].markers
    BY <1>7, CreateSessionEffect DEF NativeBecomes
  <2>2. stray' = stray /\ record' = record
    BY <1>7 DEF CreateSession, outside
  <2> QED
    BY <2>1, <2>2 DEF MarkersAccounted
<1>8. ASSUME NEW w \in Workers, SweepMarker(w)
      PROVE  MarkersAccounted'
  <2>1. \A t \in Sessions : native'[t].markers \subseteq native[t].markers
    BY <1>8, SweepMarkerEffect DEF NativeBecomes
  <2>2. stray' = stray /\ record' = record
    BY <1>8 DEF SweepMarker, outside
  <2> QED
    BY <2>1, <2>2 DEF MarkersAccounted
<1>9. ASSUME NEW w \in Workers, ForgetMarker(w)
      PROVE  MarkersAccounted'
  <2>1. native' = native /\ stray' = stray /\ worker[w].pc = "swept"
    BY <1>9 DEF ForgetMarker, outside
  <2>2. PICK rt \in Runtimes : rt = worker[w].runtime /\ worker[w].session \in Sessions
    BY <2>1, Holder DEF Prepared
  <2>3. \A r \in Runtimes \ {rt} : record'[r] = record[r]
    BY <1>9, <2>2, ForgetMarkerEffect DEF RecordBecomes
  <2>5. worker[w].rec = record[rt] /\ worker[w].rec.session = worker[w].session
    BY <2>1, <2>2 DEF InStep, InStepAt, Prepared
  <2>4. record[rt].marker \notin native[record[rt].session].markers \ stray
    BY <2>1, <2>5 DEF MarkersSwept, MarkersSweptBy
  <2> QED
    BY <2>1, <2>3, <2>4, AccountedStays
<1>10. ASSUME NEW w \in Workers, MintMarker(w)
      PROVE  MarkersAccounted'
  <2>1. native' = native /\ stray' = stray /\ worker[w].pc = "prepare"
    BY <1>10 DEF MintMarker, outside
  <2>2. PICK rt \in Runtimes : rt = worker[w].runtime /\ worker[w].session \in Sessions
    BY <2>1, Holder DEF Prepared
  <2>3. \A r \in Runtimes \ {rt} : record'[r] = record[r]
    BY <1>10, <2>2, MintMarkerEffect DEF RecordBecomes
  <2>5. worker[w].rec = record[rt] /\ worker[w].rec.session = worker[w].session
    BY <2>1, <2>2 DEF InStep, InStepAt, Prepared
  <2>4. record[rt].marker \notin native[record[rt].session].markers \ stray
    <3>1. record[rt].marker = 0
      BY <1>10, <2>5 DEF MintMarker, Interrupted
    <3>2. native[record[rt].session].markers \subseteq Marker
      BY <2>2, <2>5 DEF LiveTypeOK, Native
    <3> QED
      BY <3>1, <3>2, BoundsAreNumbers DEF Marker
  <2> QED
    BY <2>1, <2>3, <2>4, AccountedStays
<1>11. ASSUME NEW w \in Workers, CreatePreparation(w)
      PROVE  MarkersAccounted'
  <2> DEFINE s == worker[w].session
             rec == worker[w].rec
  <2>1. /\ native'[s].markers = native[s].markers \cup {rec.marker}
        /\ \A t \in Sessions \ {s} : native'[t] = native[t]
    BY <1>11, CreatePreparationEffect DEF NativeBecomes
  <2>2. stray' = stray /\ record' = record /\ worker[w].pc = "create"
    BY <1>11 DEF CreatePreparation
  <2>3. s \in Sessions /\ worker[w].runtime \in Runtimes
    BY <2>2, Holder DEF Prepared
  <2>4. record[worker[w].runtime].session = s /\ record[worker[w].runtime].marker = rec.marker
    BY <2>2 DEF InStep, InStepAt, Prepared
  <2> HIDE DEF s, rec
  <2>5. ASSUME NEW t \in Sessions, NEW m \in native'[t].markers \ stray'
        PROVE  \E r \in Runtimes : record[r].session = t /\ record[r].marker = m
    <3>1. CASE m \in native[t].markers
      BY <2>2, <3>1 DEF MarkersAccounted
    <3>2. CASE m \notin native[t].markers
      BY <2>1, <2>3, <2>4, <3>2
    <3> QED
      BY <3>1, <3>2
  <2> QED
    BY <2>2, <2>5 DEF MarkersAccounted
<1>12. ASSUME NEW w \in Workers, NEW agent \in AgentRules, ResolveAgent(w, agent)
      PROVE  MarkersAccounted'
  <2>1. native' = native /\ stray' = stray /\ worker[w].pc = "resolve"
    BY <1>12 DEF ResolveAgent, outside
  <2>2. PICK rt \in Runtimes : rt = worker[w].runtime /\ worker[w].session \in Sessions
    BY <2>1, Holder DEF Prepared
  <2>3. \A r \in Runtimes \ {rt} : record'[r] = record[r]
    BY <1>12, <2>2, ResolveAgentEffect DEF RecordBecomes
  <2>5. worker[w].rec = record[rt] /\ worker[w].rec.session = worker[w].session
    BY <2>1, <2>2 DEF InStep, InStepAt, Prepared
  <2>4. record'[rt].session = record[rt].session /\ record'[rt].marker = record[rt].marker
    BY <1>12, <2>2, <2>5, ResolveAgentEffect
  <2> QED
    BY <2>1, <2>3, <2>4, AccountedStays
<1>13. ASSUME NEW w \in Workers, AppendSessionPermissions(w)
      PROVE  MarkersAccounted'
  <2>1. \A t \in Sessions : native'[t].markers \subseteq native[t].markers
    BY <1>13, AppendSessionPermissionsEffect DEF NativeBecomes
  <2>2. stray' = stray /\ record' = record
    BY <1>13 DEF AppendSessionPermissions, outside
  <2> QED
    BY <2>1, <2>2 DEF MarkersAccounted
<1>14. ASSUME NEW w \in Workers, RemovePreparation(w)
      PROVE  MarkersAccounted'
  <2>1. \A t \in Sessions : native'[t].markers \subseteq native[t].markers
    BY <1>14, RemovePreparationEffect DEF NativeBecomes
  <2>2. stray' = stray /\ record' = record
    BY <1>14 DEF RemovePreparation, outside
  <2> QED
    BY <2>1, <2>2 DEF MarkersAccounted
<1>15. ASSUME NEW w \in Workers, SettleRecord(w)
      PROVE  MarkersAccounted'
  <2>1. native' = native /\ stray' = stray /\ worker[w].pc = "settle"
    BY <1>15 DEF SettleRecord, outside
  <2>2. PICK rt \in Runtimes : rt = worker[w].runtime /\ worker[w].session \in Sessions
    BY <2>1, Holder DEF Prepared
  <2>3. \A r \in Runtimes \ {rt} : record'[r] = record[r]
    BY <1>15, <2>2, SettleRecordEffect DEF RecordBecomes
  <2>5. worker[w].rec = record[rt] /\ worker[w].rec.session = worker[w].session
    BY <2>1, <2>2 DEF InStep, InStepAt, Prepared
  <2>4. record[rt].marker \notin native[record[rt].session].markers \ stray
    BY <2>1, <2>5 DEF MarkersSwept, MarkersSweptBy
  <2> QED
    BY <2>1, <2>3, <2>4, AccountedStays
<1> QED
  BY <1>1, <1>2, <1>3, <1>4, <1>5, <1>6, <1>7, <1>8, <1>9, <1>10, <1>11, <1>12, <1>13, <1>14, <1>15, KindsOfSteps

----------------------------------------------------------------------------
(* Sessions *)

\* What was adopted stays on record when records keep their sessions and rules
\* and owners stay where they are needed.
LEMMA OriginalsAreKept ==
  ASSUME OriginalsKept, adopted' = adopted,
         \A r \in Runtimes : record'[r].session = record[r].session
                            /\ record'[r].original = record[r].original,
         \A s \in Sessions : owner[s] \in Runtimes => owner'[s] = owner[s]
  PROVE  OriginalsKept'
<1> SUFFICES ASSUME NEW s \in Sessions
             PROVE  /\ adopted'[s] # None => owner'[s] \in Runtimes /\ record'[owner'[s]].session = s
                    /\ \A r \in Runtimes : record'[r].session = s => adopted'[s] = record'[r].original
  BY DEF OriginalsKept
<1> QED
  BY DEF OriginalsKept

\* The rules a session came with are never replaced.
LEMMA OriginalsStay ==
  ASSUME LiveTypeOK, LocksHeld, OwnersKept, InStep, SessionsBorn,
         OriginalsKept, [Next]_vars
  PROVE  OriginalsKept'
<1>1. CASE OthersAct
  BY <1>1 DEF OthersAct, OriginalsKept
<1>2. ASSUME NEW w \in Workers, GoesOn(w)
      PROVE  OriginalsKept'
  BY <1>2 DEF GoesOn, OriginalsKept
<1>3. ASSUME NEW w \in Workers, ClaimSession(w)
      PROVE  OriginalsKept'
  <2>1. /\ Wanted(w) \in Sessions /\ worker[w].pc # "off" /\ CanClaim(w, Wanted(w))
        /\ owner' = [owner EXCEPT ![Wanted(w)] = worker[w].runtime]
        /\ record' = record /\ adopted' = adopted
    BY <1>3, ClaimSessionEffect DEF ClaimSession, outside
  <2>2. owner[Wanted(w)] \in {None, worker[w].runtime}
    BY <2>1, NewHolder
  <2>3. \A s \in Sessions : owner[s] \in Runtimes => owner'[s] = owner[s]
    BY <2>1, <2>2, NoneIsNoValue DEF LiveTypeOK
  <2> QED
    BY <2>1, <2>3, OriginalsAreKept
<1>4. ASSUME NEW w \in Workers, ClaimCreated(w)
      PROVE  OriginalsKept'
  <2>1. /\ worker[w].rec.session \in Sessions /\ worker[w].pc # "off" /\ CanClaim(w, worker[w].rec.session)
        /\ owner' = [owner EXCEPT ![worker[w].rec.session] = worker[w].runtime]
        /\ record' = record /\ adopted' = adopted
    BY <1>4, ClaimCreatedEffect DEF ClaimCreated, outside
  <2>2. owner[worker[w].rec.session] \in {None, worker[w].runtime}
    BY <2>1, NewHolder
  <2>3. \A s \in Sessions : owner[s] \in Runtimes => owner'[s] = owner[s]
    BY <2>1, <2>2, NoneIsNoValue DEF LiveTypeOK
  <2> QED
    BY <2>1, <2>3, OriginalsAreKept
<1>5. ASSUME NEW w \in Workers, GetSession(w)
      PROVE  OriginalsKept'
  BY <1>5 DEF GetSession, OriginalsKept, outside
<1>6. ASSUME NEW w \in Workers, AdoptSession(w)
      PROVE  OriginalsKept'
  <2> DEFINE s == worker[w].session
  <2>1. /\ owner' = owner /\ worker[w].pc = "adopt"
        /\ adopted' = [adopted EXCEPT ![s] = IF adopted[s] = None THEN worker[w].seen ELSE adopted[s]]
    BY <1>6 DEF AdoptSession
  <2>2. PICK rt \in Runtimes :
          /\ rt = worker[w].runtime /\ s \in Sessions /\ owner[s] = rt
          /\ \A r \in Runtimes \ {rt} : record[r].session # s
    BY <2>1, Holder
  <2>3. /\ record'[rt].session = s /\ record'[rt].original = worker[w].seen
        /\ \A r \in Runtimes \ {rt} : record'[r] = record[r]
    BY <1>6, <2>2, AdoptSessionEffect DEF RecordBecomes
  <2>4. record[rt].session = None
    BY <2>1, <2>2 DEF InStep, InStepAt
  <2>5. adopted[s] = None
    BY <2>2, <2>4, NoneIsNoValue DEF OriginalsKept
  <2> HIDE DEF s
  <2>6. adopted'[s] = worker[w].seen /\ \A t \in Sessions \ {s} : adopted'[t] = adopted[t]
    BY <2>1, <2>2, <2>5 DEF LiveTypeOK
  <2>7. ASSUME NEW t \in Sessions
        PROVE  /\ adopted'[t] # None => owner'[t] \in Runtimes /\ record'[owner'[t]].session = t
               /\ \A r \in Runtimes : record'[r].session = t => adopted'[t] = record'[r].original
    <3>1. CASE t = s
      BY <2>1, <2>2, <2>3, <2>6, <3>1
    <3>2. CASE t # s
      BY <2>1, <2>2, <2>3, <2>4, <2>6, <3>2, NoneIsNoValue DEF OriginalsKept
    <3> QED
      BY <3>1, <3>2
  <2> QED
    BY <2>7 DEF OriginalsKept
<1>7. ASSUME NEW w \in Workers, NEW s \in Sessions, CreateSession(w, s)
      PROVE  OriginalsKept'
  BY <1>7 DEF CreateSession, OriginalsKept, outside
<1>8. ASSUME NEW w \in Workers, SweepMarker(w)
      PROVE  OriginalsKept'
  BY <1>8 DEF SweepMarker, OriginalsKept, outside
<1>9. ASSUME NEW w \in Workers, ForgetMarker(w)
      PROVE  OriginalsKept'
  <2>1. adopted' = adopted /\ owner' = owner /\ worker[w].pc = "swept"
    BY <1>9 DEF ForgetMarker, outside
  <2>2. worker[w].rec = record[worker[w].runtime]
    BY <2>1 DEF InStep, InStepAt, Prepared
  <2>3. \A r \in Runtimes : record'[r].session = record[r].session
                           /\ record'[r].original = record[r].original
    BY <1>9, <2>2, ForgetMarkerEffect DEF RecordBecomes
  <2> QED
    BY <2>1, <2>3, OriginalsAreKept
<1>10. ASSUME NEW w \in Workers, MintMarker(w)
      PROVE  OriginalsKept'
  <2>1. adopted' = adopted /\ owner' = owner /\ worker[w].pc = "prepare"
    BY <1>10 DEF MintMarker, outside
  <2>2. worker[w].rec = record[worker[w].runtime]
    BY <2>1 DEF InStep, InStepAt, Prepared
  <2>3. \A r \in Runtimes : record'[r].session = record[r].session
                           /\ record'[r].original = record[r].original
    BY <1>10, <2>2, MintMarkerEffect DEF RecordBecomes
  <2> QED
    BY <2>1, <2>3, OriginalsAreKept
<1>11. ASSUME NEW w \in Workers, CreatePreparation(w)
      PROVE  OriginalsKept'
  BY <1>11 DEF CreatePreparation, OriginalsKept, outside
<1>12. ASSUME NEW w \in Workers, NEW agent \in AgentRules, ResolveAgent(w, agent)
      PROVE  OriginalsKept'
  <2>1. adopted' = adopted /\ owner' = owner /\ worker[w].pc = "resolve"
    BY <1>12 DEF ResolveAgent, outside
  <2>2. worker[w].rec = record[worker[w].runtime]
    BY <2>1 DEF InStep, InStepAt, Prepared
  <2>3. \A r \in Runtimes : record'[r].session = record[r].session
                           /\ record'[r].original = record[r].original
    BY <1>12, <2>2, ResolveAgentEffect DEF RecordBecomes
  <2> QED
    BY <2>1, <2>3, OriginalsAreKept
<1>13. ASSUME NEW w \in Workers, AppendSessionPermissions(w)
      PROVE  OriginalsKept'
  BY <1>13 DEF AppendSessionPermissions, OriginalsKept, outside
<1>14. ASSUME NEW w \in Workers, RemovePreparation(w)
      PROVE  OriginalsKept'
  BY <1>14 DEF RemovePreparation, OriginalsKept, outside
<1>15. ASSUME NEW w \in Workers, SettleRecord(w)
      PROVE  OriginalsKept'
  <2>1. adopted' = adopted /\ owner' = owner /\ worker[w].pc = "settle"
    BY <1>15 DEF SettleRecord, outside
  <2>2. worker[w].rec = record[worker[w].runtime]
    BY <2>1 DEF InStep, InStepAt, Prepared
  <2>3. \A r \in Runtimes : record'[r].session = record[r].session
                           /\ record'[r].original = record[r].original
    BY <1>15, <2>2, SettleRecordEffect DEF RecordBecomes
  <2> QED
    BY <2>1, <2>3, OriginalsAreKept
<1> QED
  BY <1>1, <1>2, <1>3, <1>4, <1>5, <1>6, <1>7, <1>8, <1>9, <1>10, <1>11, <1>12, <1>13, <1>14, <1>15, KindsOfSteps

\* What SessionsBorn says of one worker that has just created a session.
BornFor(w) ==
  worker[w].pc = "made" =>
    LET s == worker[w].rec.session
    IN /\ native[s].exists
       /\ owner[s] \in {None, worker[w].runtime} /\ s \notin foreign => native[s].rules = <<>>

\* Sessions stay as they were born when a worker only touches the session it has
\* or takes, and that one exists.
LEMMA SessionsStay ==
  ASSUME LiveTypeOK, LocksHeld, InStep, SessionsBorn, NEW w \in Workers, NEW s \in Sessions,
         worker[w].runtime \in Runtimes, native'[s].exists,
         \A v \in Workers \ {w} : worker'[v] = worker[v],
         owner'[s] = worker[w].runtime,
         \A t \in Sessions \ {s} : owner'[t] = owner[t] /\ native'[t] = native[t]
                                  /\ (t \notin foreign' => t \notin foreign),
         worker'[w].named = worker[w].named, worker'[w].pc # "made", late' = late
  PROVE  SessionsBorn'
<1>1. ASSUME NEW t \in Sessions, ~native'[t].exists
      PROVE  owner'[t] = None /\ native'[t].rules = <<>>
  BY <1>1 DEF SessionsBorn
<1>2. ASSUME NEW v \in Workers, worker'[v].named \in Sessions
      PROVE  native'[worker'[v].named].exists
  BY <1>2 DEF SessionsBorn
<1>3. ASSUME NEW q \in late'
      PROVE  owner'[q.session] # None
  <2>1. q.session \in Sessions
    BY DEF LiveTypeOK, Request
  <2> QED
    BY <2>1, NoneIsNoValue DEF SessionsBorn
<1>4. ASSUME NEW v \in Workers, worker'[v].pc = "made"
      PROVE  BornFor(v)'
  <2>1. worker'[v] = worker[v] /\ v # w
    BY <1>4
  <2>2. worker[v].rec.session \in Sessions /\ worker[v].runtime # worker[w].runtime
    BY <1>4, <2>1 DEF InStep, InStepAt, LocksHeld
  <2>3. BornFor(v)
    BY DEF SessionsBorn, BornFor
  <2>4. CASE worker[v].rec.session = s
    BY <2>1, <2>2, <2>4, NoneIsNoValue DEF BornFor
  <2>5. CASE worker[v].rec.session # s
    BY <2>1, <2>2, <2>3, <2>5 DEF BornFor
  <2> QED
    BY <2>4, <2>5
<1> QED
  BY <1>1, <1>2, <1>3, <1>4 DEF SessionsBorn, BornFor

\* Sessions that do not exist stay bare, new ones stay as they were made.
LEMMA SessionsStayBorn ==
  ASSUME LiveTypeOK, LocksHeld, OwnersKept, InStep, SessionsBorn,
         [Next]_vars
  PROVE  SessionsBorn'
<1>1. CASE OthersAct
  <2>1. \A t \in Sessions : ~native'[t].exists => owner'[t] = None /\ native'[t].rules = <<>>
    BY <1>1 DEF OthersAct, SessionsBorn
  <2>2. \A v \in Workers : worker'[v].named \in Sessions => native'[worker'[v].named].exists
    BY <1>1 DEF OthersAct, SessionsBorn
  <2>3. \A q \in late' : owner'[q.session] # None
    BY <1>1 DEF OthersAct, SessionsBorn
  <2>4. ASSUME NEW v \in Workers, worker'[v].pc = "made"
        PROVE  BornFor(v)'
    <3>1. worker'[v] = worker[v] /\ worker[v].rec.session \in Sessions
      BY <1>1, <2>4 DEF OthersAct, InStep, InStepAt
    <3>2. BornFor(v)
      BY DEF SessionsBorn, BornFor
    <3> QED
      BY <1>1, <3>1, <3>2 DEF OthersAct, BornFor
  <2> QED
    BY <2>1, <2>2, <2>3, <2>4 DEF SessionsBorn, BornFor
<1>2. ASSUME NEW w \in Workers, GoesOn(w)
      PROVE  SessionsBorn'
  <2>1. /\ native' = native /\ owner' = owner /\ foreign' = foreign
        /\ \A v \in Workers \ {w} : worker'[v] = worker[v]
        /\ worker'[w].pc # "made"
        /\ worker'[w].named \in Sessions => native[worker'[w].named].exists
        /\ \A q \in late' : q \in late \/ owner[q.session] # None
    BY <1>2 DEF GoesOn, Prepared
  <2>2. ASSUME NEW v \in Workers, worker'[v].pc = "made"
        PROVE  BornFor(v)'
    BY <2>1, <2>2 DEF SessionsBorn, BornFor
  <2>3. \A v \in Workers : worker'[v].named \in Sessions => native'[worker'[v].named].exists
    BY <2>1 DEF SessionsBorn
  <2>4. \A q \in late' : owner'[q.session] # None
    BY <2>1 DEF SessionsBorn
  <2> QED
    BY <2>1, <2>2, <2>3, <2>4 DEF SessionsBorn, BornFor
<1>3. ASSUME NEW w \in Workers, ClaimSession(w)
      PROVE  SessionsBorn'
  <2> DEFINE s == Wanted(w)
  <2>1. /\ s \in Sessions /\ worker'[w].pc = "read" /\ worker'[w].named = worker[w].named
        /\ \A v \in Workers \ {w} : worker'[v] = worker[v]
    BY <1>3, ClaimSessionEffect DEF Becomes
  <2>2. /\ worker[w].pc # "off" /\ native' = native /\ late' = late /\ foreign' = foreign
        /\ owner' = [owner EXCEPT ![s] = worker[w].runtime]
    BY <1>3 DEF ClaimSession, outside
  <2>3. worker[w].runtime \in Runtimes
    BY <2>2, RuntimeHeld
  <2>4. ASSUME HasRecord(w)
        PROVE  native[s].exists
    <3>1. s = record[worker[w].runtime].session
      BY <2>4 DEF Wanted, OnRecord
    <3>2. owner[s] = worker[w].runtime
      BY <2>1, <2>3, <3>1 DEF OwnersKept
    <3> QED
      BY <2>1, <2>3, <3>2, NoneIsNoValue DEF SessionsBorn
  <2>5. ASSUME ~HasRecord(w)
        PROVE  native[s].exists
    BY <2>1, <2>5 DEF SessionsBorn, Wanted
  <2>6. native[s].exists
    BY <2>4, <2>5
  <2> HIDE DEF s
  <2>7. owner'[s] = worker[w].runtime /\ \A t \in Sessions \ {s} : owner'[t] = owner[t]
    BY <2>1, <2>2 DEF LiveTypeOK
  <2> QED
    BY <2>1, <2>2, <2>3, <2>6, <2>7, SessionsStay
<1>4. ASSUME NEW w \in Workers, ClaimCreated(w)
      PROVE  SessionsBorn'
  <2> DEFINE s == worker[w].rec.session
  <2>1. /\ s \in Sessions /\ worker'[w].pc = "adopt" /\ worker'[w].named = worker[w].named
        /\ \A v \in Workers \ {w} : worker'[v] = worker[v]
    BY <1>4, ClaimCreatedEffect DEF Becomes
  <2>2. /\ worker[w].pc = "made" /\ native' = native /\ late' = late
        /\ foreign' \in {foreign, foreign \ {s}}
        /\ owner' = [owner EXCEPT ![s] = worker[w].runtime]
    BY <1>4 DEF ClaimCreated
  <2>3. worker[w].runtime \in Runtimes /\ native[s].exists
    BY <2>2, RuntimeHeld DEF SessionsBorn
  <2> HIDE DEF s
  <2>4. owner'[s] = worker[w].runtime /\ \A t \in Sessions \ {s} : owner'[t] = owner[t]
    BY <2>1, <2>2 DEF LiveTypeOK
  <2> QED
    BY <2>1, <2>2, <2>3, <2>4, SessionsStay
<1>5. ASSUME NEW w \in Workers, GetSession(w)
      PROVE  SessionsBorn'
  <2> DEFINE s == worker[w].session
  <2>1. /\ worker'[w].pc \in {"prepare", "adopt"} /\ worker'[w].named = worker[w].named
        /\ \A v \in Workers \ {w} : worker'[v] = worker[v]
    BY <1>5, GetSessionEffect DEF Becomes
  <2>2. /\ worker[w].pc = "read" /\ owner' = owner /\ late' = late /\ native' = native
        /\ foreign' \in {foreign, foreign \ {s}}
    BY <1>5 DEF GetSession, outside
  <2>3. s \in Sessions /\ worker[w].runtime \in Runtimes /\ owner[s] = worker[w].runtime
    BY <2>2, Holder DEF Prepared
  <2>4. native[s].exists
    BY <2>3, NoneIsNoValue DEF SessionsBorn
  <2> HIDE DEF s
  <2> QED
    BY <2>1, <2>2, <2>3, <2>4, SessionsStay
<1>6. ASSUME NEW w \in Workers, AdoptSession(w)
      PROVE  SessionsBorn'
  <2> DEFINE s == worker[w].session
  <2>1. /\ worker'[w].pc = "prepare" /\ worker'[w].named = worker[w].named
        /\ \A v \in Workers \ {w} : worker'[v] = worker[v]
    BY <1>6, AdoptSessionEffect DEF Becomes, RecordBecomes
  <2>2. /\ worker[w].pc = "adopt" /\ owner' = owner /\ late' = late /\ native' = native
        /\ foreign' \in {foreign, foreign \ {s}}
    BY <1>6 DEF AdoptSession, outside
  <2>3. s \in Sessions /\ worker[w].runtime \in Runtimes /\ owner[s] = worker[w].runtime
    BY <2>2, Holder DEF Prepared
  <2>4. native[s].exists
    BY <2>3, NoneIsNoValue DEF SessionsBorn
  <2> HIDE DEF s
  <2> QED
    BY <2>1, <2>2, <2>3, <2>4, SessionsStay
<1>7. ASSUME NEW w \in Workers, NEW s \in Sessions, CreateSession(w, s)
      PROVE  SessionsBorn'
  <2>1. /\ worker'[w].pc = "made" /\ worker'[w].named = worker[w].named
        /\ worker'[w].rec = [worker[w].rec EXCEPT !.session = s]
        /\ native'[s].exists /\ native'[s].rules = native[s].rules
        /\ \A t \in Sessions \ {s} : native'[t] = native[t]
        /\ \A v \in Workers \ {w} : worker'[v] = worker[v]
    BY <1>7, CreateSessionEffect DEF Becomes, NativeBecomes
  <2>2. /\ ~native[s].exists /\ owner' = owner /\ late' = late /\ foreign' = foreign
    BY <1>7 DEF CreateSession, outside
  <2>3. native[s].rules = <<>>
    BY <2>2 DEF SessionsBorn
  <2>4. worker'[w].rec.session = s
    BY <2>1 DEF LiveTypeOK, Worker, Record
  <2>5. ASSUME NEW v \in Workers, worker'[v].pc = "made"
        PROVE  BornFor(v)'
    <3>1. CASE v = w
      BY <2>1, <2>3, <2>4, <3>1 DEF BornFor
    <3>2. CASE v # w
      <4>1. worker'[v] = worker[v] /\ worker[v].rec.session \in Sessions
        BY <2>1, <2>5, <3>2 DEF InStep, InStepAt
      <4>2. BornFor(v)
        BY DEF SessionsBorn, BornFor
      <4> QED
        BY <2>1, <2>2, <2>3, <4>1, <4>2 DEF BornFor
    <3> QED
      BY <3>1, <3>2
  <2>6. ASSUME NEW t \in Sessions, ~native'[t].exists
        PROVE  owner'[t] = None /\ native'[t].rules = <<>>
    BY <2>1, <2>2, <2>6 DEF SessionsBorn
  <2>7. ASSUME NEW v \in Workers, worker'[v].named \in Sessions
        PROVE  native'[worker'[v].named].exists
    BY <2>1, <2>7 DEF SessionsBorn
  <2> QED
    BY <2>2, <2>5, <2>6, <2>7 DEF SessionsBorn, BornFor
<1>8. ASSUME NEW w \in Workers, SweepMarker(w)
      PROVE  SessionsBorn'
  <2> DEFINE s == worker[w].session
  <2>1. /\ worker'[w].pc = "swept" /\ worker'[w].named = worker[w].named
        /\ native'[s].exists = native[s].exists
        /\ \A t \in Sessions \ {s} : native'[t] = native[t]
        /\ \A v \in Workers \ {w} : worker'[v] = worker[v]
    BY <1>8, SweepMarkerEffect DEF Becomes, NativeBecomes
  <2>2. /\ worker[w].pc = "prepare" /\ owner' = owner /\ late' = late
        /\ foreign' \in {foreign, foreign \ {s}}
    BY <1>8 DEF SweepMarker, outside
  <2>3. s \in Sessions /\ worker[w].runtime \in Runtimes /\ owner[s] = worker[w].runtime
    BY <2>2, Holder DEF Prepared
  <2>4. native[s].exists
    BY <2>3, NoneIsNoValue DEF SessionsBorn
  <2> HIDE DEF s
  <2> QED
    BY <2>1, <2>2, <2>3, <2>4, SessionsStay
<1>9. ASSUME NEW w \in Workers, ForgetMarker(w)
      PROVE  SessionsBorn'
  <2> DEFINE s == worker[w].session
  <2>1. /\ worker'[w].pc = "prepare" /\ worker'[w].named = worker[w].named
        /\ \A v \in Workers \ {w} : worker'[v] = worker[v]
    BY <1>9, ForgetMarkerEffect DEF Becomes, RecordBecomes
  <2>2. /\ worker[w].pc = "swept" /\ owner' = owner /\ late' = late /\ native' = native
        /\ foreign' \in {foreign, foreign \ {s}}
    BY <1>9 DEF ForgetMarker, outside
  <2>3. s \in Sessions /\ worker[w].runtime \in Runtimes /\ owner[s] = worker[w].runtime
    BY <2>2, Holder DEF Prepared
  <2>4. native[s].exists
    BY <2>3, NoneIsNoValue DEF SessionsBorn
  <2> HIDE DEF s
  <2> QED
    BY <2>1, <2>2, <2>3, <2>4, SessionsStay
<1>10. ASSUME NEW w \in Workers, MintMarker(w)
      PROVE  SessionsBorn'
  <2> DEFINE s == worker[w].session
  <2>1. /\ worker'[w].pc = "create" /\ worker'[w].named = worker[w].named
        /\ \A v \in Workers \ {w} : worker'[v] = worker[v]
    BY <1>10, MintMarkerEffect DEF Becomes, RecordBecomes
  <2>2. /\ worker[w].pc = "prepare" /\ owner' = owner /\ late' = late /\ native' = native
        /\ foreign' \in {foreign, foreign \ {s}}
    BY <1>10 DEF MintMarker, outside
  <2>3. s \in Sessions /\ worker[w].runtime \in Runtimes /\ owner[s] = worker[w].runtime
    BY <2>2, Holder DEF Prepared
  <2>4. native[s].exists
    BY <2>3, NoneIsNoValue DEF SessionsBorn
  <2> HIDE DEF s
  <2> QED
    BY <2>1, <2>2, <2>3, <2>4, SessionsStay
<1>11. ASSUME NEW w \in Workers, CreatePreparation(w)
      PROVE  SessionsBorn'
  <2> DEFINE s == worker[w].session
  <2>1. /\ worker'[w].pc = "resolve" /\ worker'[w].named = worker[w].named
        /\ native'[s].exists = native[s].exists
        /\ \A t \in Sessions \ {s} : native'[t] = native[t]
        /\ \A v \in Workers \ {w} : worker'[v] = worker[v]
    BY <1>11, CreatePreparationEffect DEF Becomes, NativeBecomes
  <2>2. /\ worker[w].pc = "create" /\ owner' = owner /\ late' = late
        /\ foreign' \in {foreign, foreign \ {s}}
    BY <1>11 DEF CreatePreparation, outside
  <2>3. s \in Sessions /\ worker[w].runtime \in Runtimes /\ owner[s] = worker[w].runtime
    BY <2>2, Holder DEF Prepared
  <2>4. native[s].exists
    BY <2>3, NoneIsNoValue DEF SessionsBorn
  <2> HIDE DEF s
  <2> QED
    BY <2>1, <2>2, <2>3, <2>4, SessionsStay
<1>12. ASSUME NEW w \in Workers, NEW agent \in AgentRules, ResolveAgent(w, agent)
      PROVE  SessionsBorn'
  <2> DEFINE s == worker[w].session
  <2>1. /\ worker'[w].pc = "append" /\ worker'[w].named = worker[w].named
        /\ \A v \in Workers \ {w} : worker'[v] = worker[v]
    BY <1>12, ResolveAgentEffect DEF Becomes, RecordBecomes
  <2>2. /\ worker[w].pc = "resolve" /\ owner' = owner /\ late' = late /\ native' = native
        /\ foreign' \in {foreign, foreign \ {s}}
    BY <1>12 DEF ResolveAgent, outside
  <2>3. s \in Sessions /\ worker[w].runtime \in Runtimes /\ owner[s] = worker[w].runtime
    BY <2>2, Holder DEF Prepared
  <2>4. native[s].exists
    BY <2>3, NoneIsNoValue DEF SessionsBorn
  <2> HIDE DEF s
  <2> QED
    BY <2>1, <2>2, <2>3, <2>4, SessionsStay
<1>13. ASSUME NEW w \in Workers, AppendSessionPermissions(w)
      PROVE  SessionsBorn'
  <2> DEFINE s == worker[w].session
  <2>1. /\ worker'[w].pc = "verify" /\ worker'[w].named = worker[w].named
        /\ native'[s].exists = native[s].exists
        /\ \A t \in Sessions \ {s} : native'[t] = native[t]
        /\ \A v \in Workers \ {w} : worker'[v] = worker[v]
    BY <1>13, AppendSessionPermissionsEffect DEF Becomes, NativeBecomes
  <2>2. /\ worker[w].pc = "append" /\ owner' = owner /\ late' = late
        /\ foreign' \in {foreign, foreign \ {s}}
    BY <1>13 DEF AppendSessionPermissions, outside
  <2>3. s \in Sessions /\ worker[w].runtime \in Runtimes /\ owner[s] = worker[w].runtime
    BY <2>2, Holder DEF Prepared
  <2>4. native[s].exists
    BY <2>3, NoneIsNoValue DEF SessionsBorn
  <2> HIDE DEF s
  <2> QED
    BY <2>1, <2>2, <2>3, <2>4, SessionsStay
<1>14. ASSUME NEW w \in Workers, RemovePreparation(w)
      PROVE  SessionsBorn'
  <2> DEFINE s == worker[w].session
  <2>1. /\ worker'[w].pc = "settle" /\ worker'[w].named = worker[w].named
        /\ native'[s].exists = native[s].exists
        /\ \A t \in Sessions \ {s} : native'[t] = native[t]
        /\ \A v \in Workers \ {w} : worker'[v] = worker[v]
    BY <1>14, RemovePreparationEffect DEF Becomes, NativeBecomes
  <2>2. /\ worker[w].pc = "unmark" /\ owner' = owner /\ late' = late
        /\ foreign' \in {foreign, foreign \ {s}}
    BY <1>14 DEF RemovePreparation, outside
  <2>3. s \in Sessions /\ worker[w].runtime \in Runtimes /\ owner[s] = worker[w].runtime
    BY <2>2, Holder DEF Prepared
  <2>4. native[s].exists
    BY <2>3, NoneIsNoValue DEF SessionsBorn
  <2> HIDE DEF s
  <2> QED
    BY <2>1, <2>2, <2>3, <2>4, SessionsStay
<1>15. ASSUME NEW w \in Workers, SettleRecord(w)
      PROVE  SessionsBorn'
  <2> DEFINE s == worker[w].session
  <2>1. /\ worker'[w].pc = "prompt" /\ worker'[w].named = worker[w].named
        /\ \A v \in Workers \ {w} : worker'[v] = worker[v]
    BY <1>15, SettleRecordEffect DEF Becomes, RecordBecomes
  <2>2. /\ worker[w].pc = "settle" /\ owner' = owner /\ late' = late /\ native' = native
        /\ foreign' \in {foreign, foreign \ {s}}
    BY <1>15 DEF SettleRecord, outside
  <2>3. s \in Sessions /\ worker[w].runtime \in Runtimes /\ owner[s] = worker[w].runtime
    BY <2>2, Holder DEF Prepared
  <2>4. native[s].exists
    BY <2>3, NoneIsNoValue DEF SessionsBorn
  <2> HIDE DEF s
  <2> QED
    BY <2>1, <2>2, <2>3, <2>4, SessionsStay
<1> QED
  BY <1>1, <1>2, <1>3, <1>4, <1>5, <1>6, <1>7, <1>8, <1>9, <1>10, <1>11, <1>12, <1>13, <1>14, <1>15, KindsOfSteps

----------------------------------------------------------------------------
(* Theorems *)

LEMMA InitiallyInv == Init => SessionInv
<1> SUFFICES ASSUME Init
             PROVE  SessionInv
  OBVIOUS
<1>1. HumanRules \cup {<<>>} \subseteq Seq(Rule) /\ <<>> \in Seq(Rule)
  BY RulesAreLists, EmptySeq
<1>2. /\ Off.pc = "off" /\ Off.runtime = None /\ Off.session = None /\ Off.named = None
      /\ NoRecord.session = None
  BY DEF Off, NoRecord
<1>3. \A w \in Workers : worker[w] = Off
  BY DEF Init
<1>4. \A r \in Runtimes : record[r] = NoRecord
  BY DEF Init
<1>5. \A s \in Sessions :
        /\ native[s].markers = {} /\ native[s].undo = FALSE
        /\ owner[s] = None /\ adopted[s] = None
        /\ (~native[s].exists => native[s].rules = <<>>)
  BY DEF Init
<1>6. LiveTypeOK
  <2>1. native \in [Sessions -> Native]
    BY <1>1 DEF Init, Native
  <2>2. minted \in 0..MaxMarkers /\ edits \in 0..MaxEdits /\ faults \in 0..MaxFaults
    BY BoundsAreNumbers DEF Init
  <2> QED
    BY <2>1, <2>2, OffIsWorker DEF Init, LiveTypeOK
<1>7. LocksHeld
  BY <1>2, <1>3, NoneIsNoValue DEF LocksHeld
<1>8. OwnersKept
  BY <1>2, <1>3, <1>4, NoneIsNoValue DEF OwnersKept
<1>9. InStep
  BY <1>2, <1>3 DEF InStep, InStepAt, Prepared
<1>10. RulesSeen
  BY <1>2, <1>3, NoneIsNoValue DEF RulesSeen, RulesSeenBy
<1>11. RulesExpected
  BY <1>2, <1>4, NoneIsNoValue DEF RulesExpected, RulesExpectedBy
<1>12. MarkersSwept
  BY <1>2, <1>3 DEF MarkersSwept, MarkersSweptBy
<1>13. MarkersAccounted
  BY <1>5 DEF MarkersAccounted
<1>14. OriginalsKept
  BY <1>2, <1>4, <1>5, NoneIsNoValue DEF OriginalsKept
<1>15. SessionsBorn
  <2>1. late = {}
    BY DEF Init
  <2> QED
    BY <1>2, <1>3, <1>5, <2>1, NoneIsNoValue DEF SessionsBorn
<1> QED
  BY <1>6, <1>7, <1>8, <1>9, <1>10, <1>11, <1>12, <1>13, <1>14, <1>15 DEF SessionInv

LEMMA StepsKeepInv == SessionInv /\ [Next]_vars => SessionInv'
<1> SUFFICES ASSUME SessionInv, [Next]_vars
             PROVE  SessionInv'
  OBVIOUS
<1> USE DEF SessionInv
<1>1. LiveTypeOK'
  BY TypesKept
<1>2. LocksHeld'
  BY LocksStayHeld
<1>3. OwnersKept'
  BY OwnersStay
<1>4. InStep'
  BY StepsStayInStep
<1>5. RulesSeen'
  BY RulesStaySeen
<1>6. RulesExpected'
  BY RulesStayExpected
<1>7. MarkersSwept'
  BY MarkersStaySwept
<1>8. MarkersAccounted'
  BY MarkersStayAccounted
<1>9. OriginalsKept'
  BY OriginalsStay
<1>10. SessionsBorn'
  BY SessionsStayBorn
<1> QED
  BY <1>1, <1>2, <1>3, <1>4, <1>5, <1>6, <1>7, <1>8, <1>9, <1>10

\* Whatever fails and whoever is killed, memory, disk and the sessions of the
\* provider stay in step.
THEOREM LiveInvariance == Spec => []SessionInv
<1>1. Init => SessionInv
  BY InitiallyInv
<1>2. SessionInv /\ [Next]_vars => SessionInv'
  BY StepsKeepInv
<1> QED
  BY <1>1, <1>2, PTL DEF Spec

\* The variables keep their types: minted markers, late requests and the records
\* that are read back after a crash are what the worker wrote.
THEOREM LiveTypes == Spec => []LiveTypeOK
<1>1. SessionInv => LiveTypeOK
  BY DEF SessionInv
<1> QED
  BY <1>1, LiveInvariance, PTL

\* A marker in a session is on record, wherever a preparation was cut off.
THEOREM EveryMarkerAccounted == Spec => []MarkersAccounted
<1>1. SessionInv => MarkersAccounted
  BY DEF SessionInv
<1> QED
  BY <1>1, LiveInvariance, PTL

\* No crash leaves rules that the next preparation would refuse.
THEOREM EveryRuleRecognised == Spec => []RulesRecognised
<1>1. SessionInv => RulesRecognised
  <2> SUFFICES ASSUME SessionInv, NEW r \in Runtimes, record[r].session \in Sessions \ foreign
               PROVE  Recognised(record[r], native[record[r].session].rules)
    BY DEF RulesRecognised
  <2>1. RulesExpectedBy(r)
    BY DEF SessionInv, RulesExpected
  <2> QED
    BY <2>1 DEF RulesExpectedBy, Recognised, Known, Expected
<1> QED
  BY <1>1, LiveInvariance, PTL

\* A turn runs under rules derived from the ones the session came with.
THEOREM EveryPromptRestricted == Spec => []PromptsRestricted
<1>1. SessionInv => PromptsRestricted
  <2> DEFINE s(w) == worker[w].session
  <2> SUFFICES ASSUME SessionInv, NEW w \in Workers, worker[w].pc = "prompt", s(w) \notin foreign
               PROVE  /\ native[s(w)].markers \subseteq stray
                      /\ \E agent \in AgentRules :
                           native[s(w)].rules = Baseline \o RestrictivePermissions(agent, adopted[s(w)])
    BY DEF PromptsRestricted
  <2>1. PICK rt \in Runtimes :
          /\ rt = worker[w].runtime /\ s(w) \in Sessions
          /\ \A r \in Runtimes \ {rt} : record[r].session # s(w)
    BY Holder DEF SessionInv, Prepared
  <2>2. /\ worker[w].rec = record[rt] /\ worker[w].rec.session = s(w)
        /\ worker[w].rec.marker = NoMarker
        /\ Installed(worker[w].rec.managed, worker[w].rec.original)
    BY <2>1 DEF SessionInv, InStep, InStepAt, Prepared
  <2>3. native[s(w)].rules = worker[w].rec.managed
    BY <2>1 DEF SessionInv, RulesSeen, RulesSeenBy
  <2>4. adopted[s(w)] = worker[w].rec.original
    BY <2>1, <2>2 DEF SessionInv, OriginalsKept
  <2>5. native[s(w)].markers \subseteq stray
    <3> SUFFICES ASSUME NEW m \in native[s(w)].markers, m \notin stray
                 PROVE  FALSE
      OBVIOUS
    <3>1. PICK r \in Runtimes : record[r].session = s(w) /\ record[r].marker = m
      BY <2>1 DEF SessionInv, MarkersAccounted
    <3>2. m = 0
      BY <2>1, <2>2, <3>1
    <3>3. m \in Marker
      BY <2>1 DEF SessionInv, LiveTypeOK, Native
    <3> QED
      BY <3>2, <3>3, BoundsAreNumbers DEF Marker
  <2> QED
    BY <2>2, <2>3, <2>4, <2>5 DEF Installed
<1> QED
  BY <1>1, LiveInvariance, PTL

=============================================================================
