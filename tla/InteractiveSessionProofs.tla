---------------------- MODULE InteractiveSessionProofs ----------------------
(***************************************************************************)
(* Proofs about InteractiveSession for any number of runs of the command,  *)
(* deliveries, takeovers and failures, and for any intervals that keep the *)
(* order the constants of the code have.                                   *)
(***************************************************************************)
EXTENDS InteractiveSession, TLAPS

----------------------------------------------------------------------------
(* The inductive invariant *)

Unregistered == {"IDLE", "TAKEOVER", "ASKED", "READ", "REGISTER", "DONE", "DEAD"}
Open == {"SERVE", "STOP"}
Typed == Open \cup {"UNLINK", "CLOSE", "LEAVE"}

\* A command is run once, its ticker starts when it begins to beat, and it takes
\* over another one if any.
WrappersBegin ==
  \A w \in Wrappers :
    /\ w \in scenario.runs => wrapper[w].pc = "IDLE"
    /\ wrapper[w].pc \in {"IDLE"} \cup Starting => wrapper[w].timer = 0 /\ ~wrapper[w].lost
    /\ wrapper[w].pc \in {"TAKEOVER", "ASKED"} =>
         wrapper[w].target \in Takeovers /\ wrapper[w].target[1] = w

\* Who has come past the registration knows a runtime, and runtimes are not unmade.
RuntimeKnown == \A w \in Wrappers : wrapper[w].pc \notin Unregistered => runtime.status # "ABSENT"

\* A record that shows a session was last shown by its own ticker.
OwnBeatShown ==
  \A w \in Wrappers :
    Beating(w) /\ runtime.status = "ONLINE" /\ runtime.endpoint = w => age >= wrapper[w].timer

\* One handler writes in a terminal.
OneWrites ==
  \A n \in Notices :
    /\ call[n].handler = "NONE" <=> call[n].via = None
    /\ call[n].client = "OK" => call[n].handler = "NONE"
    /\ n \in scenario.asked => call[n].client = "NEW" /\ call[n].handler = "NONE"
    /\ call[n].handler \in {"IDLE", "ECHO"} => pty[call[n].via].writer = n
    /\ call[n].handler = "ECHO" =>
         /\ wrapper[call[n].via].pc \in Typed
         /\ wrapper[call[n].via].pc \in Open => n \in pty[call[n].via].line

\* A notice whose text may yet be submitted with another one's was not delivered.
Undelivered(m) == m \notin scenario.asked /\ call[m].client # "OK" /\ call[m].handler \in {"NONE", "REFUSED"}

LinesWritten ==
  \A w \in Wrappers : \A m \in pty[w].line :
    Undelivered(m) \/ (call[m].handler = "ECHO" /\ call[m].via = w)

SentWhole ==
  \A n \in Notices : call[n].handler = "DONE" \/ call[n].client = "OK" =>
    /\ n \in call[n].sent
    /\ \A m \in call[n].sent \ {n} : Undelivered(m)

SessionInv ==
  /\ TypeOK
  /\ WrappersBegin
  /\ RuntimeKnown
  /\ OwnBeatShown
  /\ OneWrites
  /\ LinesWritten
  /\ SentWhole

----------------------------------------------------------------------------
(* Initial states *)

WrapperRecord ==
  [pc : Steps, saw : Record, target : Takeovers \cup {None},
   open : BOOLEAN, lost : BOOLEAN, timer : 0 .. Period]

Terminal ==
  [line : SUBSET Notices, screen : SUBSET Notices, busy : BOOLEAN, writer : Notices \cup {None}]

Delivery ==
  [client : {"NEW", "WAITING", "OK", "FAILED"}, via : Wrappers \cup {None}, sent : SUBSET Notices,
   handler : {"NONE", "ACCEPTED", "IDLE", "ECHO", "DONE", "REFUSED"}]

LEMMA Numbers ==
  /\ MinInterval \in Nat /\ Period \in Nat /\ OfflineAfter \in Nat
  /\ MinInterval < Period /\ Period < OfflineAfter
  /\ 0 \in 0 .. OfflineAfter /\ 0 \in 0 .. Period
  BY HeartbeatsAreTimed

LEMMA Names == Offline \in Record /\ None \notin Wrappers /\ Stale \notin Wrappers /\ None \notin Notices
  BY NamesDiffer DEF Offline, Record, Statuses

LEMMA Nothing ==
  /\ NoWrapper \in WrapperRecord /\ NoTerminal \in Terminal /\ NoCall \in Delivery
  /\ \A s \in Steps : /\ [NoWrapper EXCEPT !.pc = s] \in WrapperRecord
                      /\ [NoWrapper EXCEPT !.pc = s].pc = s
                      /\ [NoWrapper EXCEPT !.pc = s].timer = 0
                      /\ ~[NoWrapper EXCEPT !.pc = s].lost
  /\ \A a \in {"OK", "FAILED", "WAITING"} : [NoCall EXCEPT !.client = a] \in Delivery
  BY Numbers, Names
  DEF NoWrapper, NoTerminal, NoCall, WrapperRecord, Terminal, Delivery, Steps

LEMMA Types ==
  ASSUME TypeOK
  PROVE  /\ runtime \in Record /\ age \in 0 .. OfflineAfter
         /\ wrapper \in [Wrappers -> WrapperRecord]
         /\ pty \in [Wrappers -> Terminal] /\ call \in [Notices -> Delivery]
  BY DEF TypeOK, WrapperRecord, Terminal, Delivery

LEMMA InitHolds ==
  ASSUME Init
  PROVE  SessionInv
<1> USE DEF Init
<1>1. TypeOK
  <2>1. runtime \in Record
    BY NamesDiffer DEF Record, Statuses, Offline
  <2>2. scenario \in [runs : SUBSET Wrappers, asked : SUBSET Notices, faults : Nat]
    BY ScenariosAreRecords
  <2>3. wrapper \in [Wrappers -> WrapperRecord] /\ pty \in [Wrappers -> Terminal]
        /\ call \in [Notices -> Delivery]
    BY Nothing
  <2>4. age \in 0 .. OfflineAfter /\ path \in Wrappers \cup {Stale, None}
        /\ child \in [Wrappers -> {"NONE", "RUNNING", "GONE"}]
    BY Numbers
  <2> QED
    BY <2>1, <2>2, <2>3, <2>4 DEF TypeOK, WrapperRecord, Terminal, Delivery
<1>2. WrappersBegin /\ RuntimeKnown /\ OwnBeatShown
  BY DEF WrappersBegin, RuntimeKnown, OwnBeatShown, NoWrapper, Starting, Unregistered, Beating, Serving
<1>3. OneWrites
  <2>1. \A n \in Notices : call[n] = NoCall
    OBVIOUS
  <2> QED
    BY <2>1 DEF OneWrites, NoCall
<1>4. LinesWritten /\ SentWhole
  BY DEF LinesWritten, SentWhole, NoTerminal, NoCall
<1> QED
  BY <1>1, <1>2, <1>3, <1>4 DEF SessionInv

----------------------------------------------------------------------------
(* Wrappers on their way *)

\* Only wrapper w goes on, to a step s.
Walks(w, s) ==
  /\ wrapper' \in [Wrappers -> WrapperRecord]
  /\ \A v \in Wrappers \ {w} : wrapper'[v] = wrapper[v]
  /\ wrapper'[w].pc = s
  /\ wrapper'[w].lost = wrapper[w].lost /\ wrapper'[w].timer = wrapper[w].timer

LEMMA GotoWalks ==
  ASSUME TypeOK, NEW w \in Wrappers, NEW s \in Steps, Goto(w, s)
  PROVE  Walks(w, s) /\ wrapper'[w].target = wrapper[w].target
<1> DEFINE next == [wrapper[w] EXCEPT !.pc = s]
<1>1. wrapper[w] \in WrapperRecord /\ wrapper \in [Wrappers -> WrapperRecord]
  BY Types
<1>2. /\ next \in WrapperRecord /\ next.pc = s /\ next.lost = wrapper[w].lost
      /\ next.timer = wrapper[w].timer /\ next.target = wrapper[w].target
  BY <1>1 DEF WrapperRecord
<1>3. wrapper' = [wrapper EXCEPT ![w] = next]
  BY DEF Goto
<1> HIDE DEF next
<1> QED
  BY <1>1, <1>2, <1>3 DEF Walks

LEMMA ProceedWalks ==
  ASSUME TypeOK, NEW w \in Wrappers, NEW s \in Steps, Proceed(w, s)
  PROVE  Walks(w, s)
<1> DEFINE next == [wrapper[w] EXCEPT !.pc = s, !.saw = Offline]
<1>1. wrapper[w] \in WrapperRecord /\ wrapper \in [Wrappers -> WrapperRecord]
  BY Types
<1>2. /\ next \in WrapperRecord /\ next.pc = s /\ next.lost = wrapper[w].lost
      /\ next.timer = wrapper[w].timer
  BY <1>1, Names DEF WrapperRecord
<1>3. wrapper' = [wrapper EXCEPT ![w] = next]
  BY DEF Proceed
<1> HIDE DEF next
<1> QED
  BY <1>1, <1>2, <1>3 DEF Walks

\* Deliveries do not notice where a wrapper goes unless its terminal is opened or closed.
LEMMA CallsStay ==
  ASSUME SessionInv, UNCHANGED <<pty, call>>, scenario'.asked = scenario.asked,
         \A v \in Wrappers : wrapper[v].pc \in Typed =>
            wrapper'[v].pc \in Typed /\ (wrapper'[v].pc \in Open => wrapper[v].pc \in Open)
  PROVE  OneWrites' /\ LinesWritten' /\ SentWhole'
<1>1. \A n \in Notices : call[n].via \in Wrappers \cup {None}
  BY Types DEF SessionInv, Delivery
<1>2. OneWrites'
  <2>1. \A n \in Notices : call[n].handler = "ECHO" => call[n].via \in Wrappers
    BY <1>1 DEF SessionInv, OneWrites
  <2> QED
    BY <2>1 DEF SessionInv, OneWrites
<1>3. \A m \in Notices : Undelivered(m) => Undelivered(m)'
  BY DEF Undelivered
<1>4. \A w \in Wrappers : pty[w].line \subseteq Notices
  BY Types DEF SessionInv, Terminal
<1>5. \A n \in Notices : call[n].sent \subseteq Notices
  BY Types DEF SessionInv, Delivery
<1>6. LinesWritten' /\ SentWhole'
  BY <1>3, <1>4, <1>5 DEF SessionInv, LinesWritten, SentWhole
<1> QED
  BY <1>2, <1>6

\* A wrapper goes on to a step that asks for no more of the record than it knows.
LEMMA WalkKeeps ==
  ASSUME SessionInv, NEW w \in Wrappers, NEW s \in Steps, Walks(w, s),
         UNCHANGED <<runtime, age, pty, call>>,
         path' \in Wrappers \cup {Stale, None}, child' \in [Wrappers -> {"NONE", "RUNNING", "GONE"}],
         scenario' \in [runs : SUBSET Wrappers, asked : SUBSET Notices, faults : Nat],
         scenario'.asked = scenario.asked, scenario'.runs \subseteq scenario.runs \ {w},
         s \in {"IDLE"} \cup Starting => wrapper[w].pc \in {"IDLE"} \cup Starting,
         s \in {"TAKEOVER", "ASKED"} => wrapper'[w].target \in Takeovers /\ wrapper'[w].target[1] = w,
         s \notin Unregistered => runtime.status # "ABSENT",
         s \in Serving => wrapper[w].pc \in Serving,
         wrapper[w].pc \in Typed => s \in Typed /\ (s \in Open => wrapper[w].pc \in Open)
  PROVE  SessionInv'
<1>1. TypeOK'
  BY DEF SessionInv, TypeOK, Walks, WrapperRecord
<1>2. WrappersBegin'
  BY DEF SessionInv, WrappersBegin, Walks
<1>3. RuntimeKnown'
  BY DEF SessionInv, RuntimeKnown, Walks
<1>4. OwnBeatShown'
  BY DEF SessionInv, OwnBeatShown, Walks, Beating
<1>5. OneWrites' /\ LinesWritten' /\ SentWhole'
  <2>1. \A v \in Wrappers : wrapper[v].pc \in Typed =>
            wrapper'[v].pc \in Typed /\ (wrapper'[v].pc \in Open => wrapper[v].pc \in Open)
    BY DEF Walks
  <2> QED
    BY <2>1, CallsStay
<1> QED
  BY <1>1, <1>2, <1>3, <1>4, <1>5 DEF SessionInv

LEMMA Begun ==
  ASSUME SessionInv, NEW w \in Wrappers, wrapper[w].pc # "IDLE"
  PROVE  scenario.runs = scenario.runs \ {w}
  BY DEF SessionInv, WrappersBegin

\* What a failure takes from the scenario, or nothing.
LEMMA ScenarioStays ==
  ASSUME SessionInv, Fault \/ UNCHANGED scenario
  PROVE  /\ scenario' \in [runs : SUBSET Wrappers, asked : SUBSET Notices, faults : Nat]
         /\ scenario'.asked = scenario.asked /\ scenario'.runs = scenario.runs
<1> DEFINE next == [scenario EXCEPT !.faults = scenario.faults - 1]
<1>1. scenario \in [runs : SUBSET Wrappers, asked : SUBSET Notices, faults : Nat]
  BY DEF SessionInv, TypeOK
<1>2. CASE UNCHANGED scenario
  BY <1>1, <1>2
<1>3. CASE Fault
  <2>1. scenario.faults > 0 /\ scenario' = next
    BY <1>3 DEF Fault
  <2>2. scenario.faults - 1 \in Nat
    BY <1>1, <2>1
  <2>3. /\ next \in [runs : SUBSET Wrappers, asked : SUBSET Notices, faults : Nat]
        /\ next.asked = scenario.asked /\ next.runs = scenario.runs
    BY <1>1, <2>2
  <2> QED
    BY <2>1, <2>3
<1> QED
  BY <1>2, <1>3

LEMMA RunKeeps ==
  ASSUME SessionInv, NEW w \in Wrappers, Run(w)
  PROVE  SessionInv'
<1> DEFINE next == [scenario EXCEPT !.runs = scenario.runs \ {w}]
<1>1. PICK target \in {t \in Takeovers : t[1] = w} \cup {None} :
        wrapper' = [wrapper EXCEPT ![w].target = target,
                                   ![w].pc = IF target = None THEN "READ" ELSE "TAKEOVER"]
  BY DEF Run
<1>2. /\ w \in scenario.runs /\ scenario' = next
      /\ UNCHANGED <<runtime, age, path, child, pty, call>>
  BY DEF Run
<1>3. wrapper[w].pc = "IDLE"
  BY <1>2 DEF SessionInv, WrappersBegin
<1> DEFINE s == IF target = None THEN "READ" ELSE "TAKEOVER"
           record == [wrapper[w] EXCEPT !.target = target, !.pc = s]
<1>4. wrapper[w] \in WrapperRecord /\ wrapper \in [Wrappers -> WrapperRecord]
  BY Types DEF SessionInv
<1>5. s \in Steps /\ s \in {"READ", "TAKEOVER"} /\ (s = "TAKEOVER" => target # None)
  BY DEF Steps, Starting
<1> HIDE DEF s
<1>6. /\ record \in WrapperRecord /\ record.pc = s /\ record.lost = wrapper[w].lost
      /\ record.timer = wrapper[w].timer /\ record.target = target
  BY <1>4, <1>5 DEF WrapperRecord
<1>7. wrapper' = [wrapper EXCEPT ![w] = record]
  BY <1>1 DEF s
<1> HIDE DEF record
<1>8. Walks(w, s) /\ wrapper'[w].target = target
  BY <1>4, <1>6, <1>7 DEF Walks
<1>9. s = "TAKEOVER" => target \in Takeovers /\ target[1] = w
  BY <1>1, <1>5
<1>10. scenario \in [runs : SUBSET Wrappers, asked : SUBSET Notices, faults : Nat]
  BY DEF SessionInv, TypeOK
<1>11. /\ next \in [runs : SUBSET Wrappers, asked : SUBSET Notices, faults : Nat]
       /\ next.asked = scenario.asked /\ next.runs = scenario.runs \ {w}
  BY <1>10
<1> HIDE DEF next
<1>12. path' \in Wrappers \cup {Stale, None} /\ child' \in [Wrappers -> {"NONE", "RUNNING", "GONE"}]
  BY <1>2 DEF SessionInv, TypeOK
<1> QED
  BY <1>2, <1>3, <1>5, <1>8, <1>9, <1>11, <1>12, WalkKeeps DEF Starting, Serving, Unregistered, Typed, Open

LEMMA ReadKeeps ==
  ASSUME SessionInv, NEW w \in Wrappers, Read(w)
  PROVE  SessionInv'
<1> DEFINE saw == IF Snapshot.status = "ONLINE" THEN Snapshot ELSE Offline
           s == CASE Snapshot.status = "ABSENT" -> "REGISTER"
                  [] Snapshot.status \in {"DRAINING", "REVOKED"} -> "DONE"
                  [] OTHER -> "PROBE"
           record == [wrapper[w] EXCEPT !.target = None, !.saw = saw, !.pc = s]
<1>1. /\ wrapper[w].pc = "READ" /\ wrapper' = [wrapper EXCEPT ![w] = record]
      /\ UNCHANGED <<runtime, age, path, child, pty, call, scenario>>
  BY DEF Read
<1>2. wrapper[w] \in WrapperRecord /\ wrapper \in [Wrappers -> WrapperRecord] /\ runtime \in Record
  BY Types DEF SessionInv
<1>3. Snapshot \in Record /\ (Snapshot.status = "ABSENT" <=> runtime.status = "ABSENT")
  BY <1>2, Names DEF Snapshot, Offline
<1>4. /\ saw \in Record /\ s \in {"REGISTER", "DONE", "PROBE"} /\ s \in Steps
      /\ s = "PROBE" => runtime.status # "ABSENT"
  BY <1>3, Names DEF Steps, Starting, Ended
<1> HIDE DEF saw, s
<1>5. /\ record \in WrapperRecord /\ record.pc = s /\ record.lost = wrapper[w].lost
      /\ record.timer = wrapper[w].timer
  BY <1>2, <1>4 DEF WrapperRecord
<1> HIDE DEF record
<1>6. Walks(w, s)
  BY <1>1, <1>2, <1>5 DEF Walks
<1>7. /\ path' \in Wrappers \cup {Stale, None} /\ child' \in [Wrappers -> {"NONE", "RUNNING", "GONE"}]
      /\ scenario' \in [runs : SUBSET Wrappers, asked : SUBSET Notices, faults : Nat]
  BY <1>1 DEF SessionInv, TypeOK
<1> QED
  BY <1>1, <1>4, <1>6, <1>7, Begun, WalkKeeps DEF Starting, Serving, Unregistered, Typed, Open

\* A wrapper that is past its registration, or gives up, and nothing but its place,
\* the socket file, its provider and the failures left changes.
LEMMA StepKeeps ==
  ASSUME SessionInv, NEW w \in Wrappers, NEW s \in Steps, Walks(w, s),
         Fault \/ UNCHANGED scenario, UNCHANGED <<runtime, age, pty, call>>,
         path' \in {path, None, w},
         child' \in {child, [child EXCEPT ![w] = "RUNNING"]},
         \/ s = "DONE" /\ wrapper[w].pc \in Starting
         \/ s \in {"CLEAR", "BEAT"} /\ wrapper[w].pc = "PROBE"
         \/ s \in {"REMOVE", "BIND", "LEAVE"} /\ wrapper[w].pc = "LISTEN"
         \/ s = "BIND" /\ wrapper[w].pc = "REMOVE"
         \/ s \in {"SPAWN", "LEAVE"} /\ wrapper[w].pc = "BIND"
         \/ s \in {"SERVE", "UNLINK"} /\ wrapper[w].pc = "SPAWN"
         \/ s = "STOP" /\ wrapper[w].pc = "SERVE"
         \/ s = "CLOSE" /\ wrapper[w].pc = "UNLINK"
         \/ s = "LEAVE" /\ wrapper[w].pc = "CLOSE"
  PROVE  SessionInv'
<1>1. /\ path' \in Wrappers \cup {Stale, None}
      /\ child' \in [Wrappers -> {"NONE", "RUNNING", "GONE"}]
  BY DEF SessionInv, TypeOK
<1>2. wrapper[w].pc # "IDLE"
  BY DEF Starting
<1>3. /\ s \in {"IDLE"} \cup Starting => wrapper[w].pc \in {"IDLE"} \cup Starting
      /\ s \notin {"TAKEOVER", "ASKED"}
      /\ s \in Serving => wrapper[w].pc \in Serving
      /\ wrapper[w].pc \in Typed => s \in Typed /\ (s \in Open => wrapper[w].pc \in Open)
      /\ s \notin Unregistered => wrapper[w].pc \notin Unregistered
  BY DEF Starting, Serving, Unregistered, Typed, Open
<1>4. s \notin Unregistered => runtime.status # "ABSENT"
  BY <1>3 DEF SessionInv, RuntimeKnown
<1>5. /\ scenario' \in [runs : SUBSET Wrappers, asked : SUBSET Notices, faults : Nat]
      /\ scenario'.asked = scenario.asked /\ scenario'.runs \subseteq scenario.runs \ {w}
  BY <1>2, Begun, ScenarioStays
<1> QED
  BY <1>1, <1>3, <1>4, <1>5, WalkKeeps

LEMMA AllSteps ==
  {"DONE", "CLEAR", "BEAT", "REMOVE", "BIND", "LEAVE", "SPAWN", "SERVE", "UNLINK", "STOP", "CLOSE",
   "LISTEN", "ASKED", "READ"} \subseteq Steps
  BY DEF Steps, Starting, Serving, Ended

LEMMA ProbeKeeps ==
  ASSUME SessionInv, NEW w \in Wrappers, Probe(w)
  PROVE  SessionInv'
<1>1. wrapper[w].pc = "PROBE" /\ UNCHANGED <<runtime, age, path, child, pty, call, scenario>>
  BY DEF Probe
<1>2. Proceed(w, "DONE") \/ Goto(w, "CLEAR") \/ Proceed(w, "BEAT")
  BY DEF Probe
<1>3. Walks(w, "DONE") \/ Walks(w, "CLEAR") \/ Walks(w, "BEAT")
  BY <1>2, AllSteps, GotoWalks, ProceedWalks DEF SessionInv
<1> QED
  BY <1>1, <1>3, AllSteps, StepKeeps DEF Starting

LEMMA ListenKeeps ==
  ASSUME SessionInv, NEW w \in Wrappers, Listen(w)
  PROVE  SessionInv'
<1>1. /\ wrapper[w].pc = "LISTEN" /\ (Fault \/ UNCHANGED scenario)
      /\ UNCHANGED <<runtime, age, path, child, pty, call>>
  BY DEF Listen
<1>2. Goto(w, "BIND") \/ Goto(w, "LEAVE") \/ Goto(w, "REMOVE")
  BY DEF Listen
<1>3. Walks(w, "BIND") \/ Walks(w, "LEAVE") \/ Walks(w, "REMOVE")
  BY <1>2, AllSteps, GotoWalks DEF SessionInv
<1> QED
  BY <1>1, <1>3, AllSteps, StepKeeps

LEMMA RemoveKeeps ==
  ASSUME SessionInv, NEW w \in Wrappers, Remove(w) \/ Unlink(w)
  PROVE  SessionInv'
<1>1. /\ \/ wrapper[w].pc = "REMOVE" /\ Goto(w, "BIND")
         \/ wrapper[w].pc = "UNLINK" /\ Goto(w, "CLOSE")
      /\ path' = None
      /\ UNCHANGED <<runtime, age, child, pty, call, scenario>>
  BY DEF Remove, Unlink
<1>2. \/ wrapper[w].pc = "REMOVE" /\ Walks(w, "BIND")
      \/ wrapper[w].pc = "UNLINK" /\ Walks(w, "CLOSE")
  BY <1>1, AllSteps, GotoWalks DEF SessionInv
<1> QED
  BY <1>1, <1>2, AllSteps, StepKeeps

LEMMA BindKeeps ==
  ASSUME SessionInv, NEW w \in Wrappers, Bind(w) \/ Close(w)
  PROVE  SessionInv'
<1>1. UNCHANGED <<runtime, age, child, pty, call, scenario>> /\ path' \in {path, None, w}
  BY DEF Bind, Close
<1>2. \/ wrapper[w].pc = "BIND" /\ Goto(w, "LEAVE")
      \/ wrapper[w].pc = "BIND" /\ wrapper' = [wrapper EXCEPT ![w].pc = "SPAWN", ![w].open = TRUE]
      \/ wrapper[w].pc = "CLOSE" /\ wrapper' = [wrapper EXCEPT ![w].pc = "LEAVE", ![w].open = FALSE]
  BY DEF Bind, Close
<1>3. ASSUME NEW s \in Steps, NEW o \in BOOLEAN, wrapper' = [wrapper EXCEPT ![w].pc = s, ![w].open = o]
      PROVE  Walks(w, s)
  <2> DEFINE next == [wrapper[w] EXCEPT !.pc = s, !.open = o]
  <2>1. wrapper[w] \in WrapperRecord /\ wrapper \in [Wrappers -> WrapperRecord]
    BY Types DEF SessionInv
  <2>2. /\ next \in WrapperRecord /\ next.pc = s /\ next.lost = wrapper[w].lost
        /\ next.timer = wrapper[w].timer
    BY <2>1 DEF WrapperRecord
  <2>3. wrapper' = [wrapper EXCEPT ![w] = next]
    BY <1>3
  <2> HIDE DEF next
  <2> QED
    BY <2>1, <2>2, <2>3 DEF Walks
<1>4. \/ wrapper[w].pc = "BIND" /\ Walks(w, "LEAVE")
      \/ wrapper[w].pc = "BIND" /\ Walks(w, "SPAWN")
      \/ wrapper[w].pc = "CLOSE" /\ Walks(w, "LEAVE")
  BY <1>2, <1>3, AllSteps, GotoWalks DEF SessionInv
<1> QED
  BY <1>1, <1>4, AllSteps, StepKeeps

LEMMA SpawnKeeps ==
  ASSUME SessionInv, NEW w \in Wrappers, Spawn(w)
  PROVE  SessionInv'
<1>1. /\ wrapper[w].pc = "SPAWN" /\ (Fault \/ UNCHANGED scenario)
      /\ child' \in {child, [child EXCEPT ![w] = "RUNNING"]}
      /\ UNCHANGED <<runtime, age, path, pty, call>>
  BY DEF Spawn
<1>2. Goto(w, "SERVE") \/ Goto(w, "UNLINK")
  BY DEF Spawn
<1>3. Walks(w, "SERVE") \/ Walks(w, "UNLINK")
  BY <1>2, AllSteps, GotoWalks DEF SessionInv
<1> QED
  BY <1>1, <1>3, AllSteps, StepKeeps

\* The record is taken down, or shows the wrapper that goes on: the others' tickers
\* are not the ones it was last shown by.
LEMMA ShowKeeps ==
  ASSUME SessionInv, NEW w \in Wrappers, NEW s \in Steps, Walks(w, s),
         UNCHANGED <<path, child, pty, call, scenario>>,
         \/ TakeDown /\ s = "BEAT" /\ wrapper[w].pc \in {"REGISTER", "CLEAR"}
         \/ Show(w) /\ s = "LISTEN" /\ wrapper[w].pc = "BEAT"
  PROVE  SessionInv'
<1>1. runtime' \in Record /\ runtime'.status \in {"OFFLINE", "ONLINE"} /\ age' = 0
  BY Names DEF TakeDown, Show, Offline, Record, Statuses
<1>2. \/ runtime'.status = "OFFLINE"
      \/ runtime'.status = "ONLINE" /\ runtime'.endpoint = w
  BY DEF TakeDown, Show, Offline
<1>3. wrapper[w].pc \in Starting /\ wrapper[w].pc \notin {"IDLE", "TAKEOVER", "ASKED"}
  BY DEF Starting
<1>4. TypeOK'
  BY <1>1, Numbers DEF SessionInv, TypeOK, Walks, WrapperRecord
<1>5. WrappersBegin'
  BY <1>3 DEF SessionInv, WrappersBegin, Walks
<1>6. RuntimeKnown'
  BY <1>1 DEF RuntimeKnown
<1>7. OwnBeatShown'
  <2>1. wrapper'[w].timer = 0
    BY <1>3 DEF SessionInv, WrappersBegin, Walks
  <2> QED
    BY <1>1, <1>2, <2>1 DEF OwnBeatShown
<1>8. OneWrites' /\ LinesWritten' /\ SentWhole'
  <2>1. \A v \in Wrappers : wrapper[v].pc \in Typed =>
            wrapper'[v].pc \in Typed /\ (wrapper'[v].pc \in Open => wrapper[v].pc \in Open)
    BY DEF Walks, Typed, Open
  <2> QED
    BY <2>1, CallsStay
<1> QED
  BY <1>4, <1>5, <1>6, <1>7, <1>8 DEF SessionInv

LEMMA RegisterKeeps ==
  ASSUME SessionInv, NEW w \in Wrappers, Register(w) \/ Clear(w)
  PROVE  SessionInv'
<1>1. UNCHANGED <<path, child, pty, call, scenario>> /\ wrapper[w].pc \in {"REGISTER", "CLEAR"}
  BY DEF Register, Clear
<1>2. \/ TakeDown /\ Proceed(w, "BEAT")
      \/ Proceed(w, "DONE") /\ UNCHANGED <<runtime, age>>
  BY DEF Register, Clear
<1>3. CASE TakeDown /\ Proceed(w, "BEAT")
  BY <1>1, <1>3, AllSteps, ProceedWalks, ShowKeeps DEF SessionInv
<1>4. CASE Proceed(w, "DONE") /\ UNCHANGED <<runtime, age>>
  <2>1. Walks(w, "DONE") /\ "DONE" \in Steps
    BY <1>4, AllSteps, ProceedWalks DEF SessionInv
  <2> QED
    BY <1>1, <1>4, <2>1, StepKeeps DEF Starting
<1> QED
  BY <1>2, <1>3, <1>4

LEMMA BeatKeeps ==
  ASSUME SessionInv, NEW w \in Wrappers, Beat(w)
  PROVE  SessionInv'
<1>1. UNCHANGED <<path, child, pty, call, scenario>> /\ wrapper[w].pc = "BEAT"
  BY DEF Beat
<1>2. \/ Show(w) /\ Goto(w, "LISTEN")
      \/ Goto(w, "DONE") /\ UNCHANGED <<runtime, age>>
  BY DEF Beat
<1>3. CASE Show(w) /\ Goto(w, "LISTEN")
  BY <1>1, <1>3, AllSteps, GotoWalks, ShowKeeps DEF SessionInv
<1>4. CASE Goto(w, "DONE") /\ UNCHANGED <<runtime, age>>
  <2>1. Walks(w, "DONE") /\ "DONE" \in Steps
    BY <1>4, AllSteps, GotoWalks DEF SessionInv
  <2> QED
    BY <1>1, <1>4, <2>1, StepKeeps DEF Starting
<1> QED
  BY <1>2, <1>3, <1>4

\* A provider's end is noticed: the line is gone with the terminal.
LEMMA StopKeeps ==
  ASSUME SessionInv, NEW w \in Wrappers, Stop(w)
  PROVE  SessionInv'
<1>1. UNCHANGED <<runtime, age, path, child, call, scenario>>
  BY DEF Stop
<1>2. CASE wrapper[w].pc = "SERVE" /\ Goto(w, "STOP") /\ UNCHANGED pty
  <2>1. Walks(w, "STOP") /\ "STOP" \in Steps
    BY <1>2, AllSteps, GotoWalks DEF SessionInv
  <2> QED
    BY <1>1, <1>2, <2>1, StepKeeps
<1>3. CASE /\ wrapper[w].pc \in {"SERVE", "STOP"} /\ Goto(w, "UNLINK")
           /\ pty' = [pty EXCEPT ![w] = [NoTerminal EXCEPT !.writer = pty[w].writer]]
  <2>1. Walks(w, "UNLINK")
    BY <1>3, AllSteps, GotoWalks DEF SessionInv
  <2> DEFINE closed == [NoTerminal EXCEPT !.writer = pty[w].writer]
  <2>2. pty \in [Wrappers -> Terminal] /\ pty[w] \in Terminal
    BY Types DEF SessionInv
  <2>3. closed \in Terminal /\ closed.writer = pty[w].writer /\ closed.line = {}
    BY <2>2 DEF NoTerminal, Terminal
  <2>4. pty' = [pty EXCEPT ![w] = closed]
    BY <1>3
  <2> HIDE DEF closed
  <2>5. /\ pty' \in [Wrappers -> Terminal]
        /\ \A v \in Wrappers : pty'[v].writer = pty[v].writer
        /\ \A v \in Wrappers : v # w => pty'[v] = pty[v]
        /\ pty'[w].line = {}
    BY <2>2, <2>3, <2>4
  <2>6. wrapper[w].pc \in Serving /\ wrapper[w].pc \notin Unregistered
    BY <1>3 DEF Serving, Unregistered
  <2>7. TypeOK'
    BY <1>1, <2>1, <2>5 DEF SessionInv, TypeOK, Walks, WrapperRecord, Terminal
  <2>8. WrappersBegin' /\ RuntimeKnown' /\ OwnBeatShown'
    <3>1. WrappersBegin'
      BY <1>1, <1>3, <2>1 DEF SessionInv, WrappersBegin, Walks, Starting
    <3>2. RuntimeKnown'
      BY <1>1, <2>1, <2>6 DEF SessionInv, RuntimeKnown, Walks
    <3>3. OwnBeatShown'
      BY <1>1, <2>1, <2>6 DEF SessionInv, OwnBeatShown, Walks, Beating
    <3> QED
      BY <3>1, <3>2, <3>3
  <2>9. OneWrites'
    <3>1. \A n \in Notices : call[n].handler \in {"IDLE", "ECHO"} => call[n].via \in Wrappers
      BY Types DEF SessionInv, OneWrites, Delivery
    <3>2. \A v \in Wrappers : wrapper[v].pc \in Typed => wrapper'[v].pc \in Typed
      BY <2>1 DEF Walks, Typed
    <3>3. \A v \in Wrappers : wrapper'[v].pc \in Open => v # w /\ wrapper[v].pc \in Open
      BY <2>1 DEF Walks, Open
    <3> QED
      BY <1>1, <2>5, <3>1, <3>2, <3>3 DEF SessionInv, OneWrites
  <2>10. LinesWritten'
    BY <1>1, <2>5 DEF SessionInv, LinesWritten, Undelivered
  <2>11. SentWhole'
    BY <1>1 DEF SessionInv, SentWhole, Undelivered
  <2> QED
    BY <2>7, <2>8, <2>9, <2>10, <2>11 DEF SessionInv
<1> QED
  BY <1>2, <1>3 DEF Stop

----------------------------------------------------------------------------
(* Wrappers that end, by themselves or not *)

\* A wrapper u stays where it is, ends, is told to stop, or goes on taking over.
GoesOn(u) ==
  \/ wrapper'[u].pc \in Ended /\ wrapper[u].pc # "IDLE"
  \/ /\ wrapper'[u].lost = wrapper[u].lost /\ wrapper'[u].timer = wrapper[u].timer
     /\ wrapper'[u].target = wrapper[u].target
     /\ \/ wrapper'[u].pc = wrapper[u].pc
        \/ wrapper[u].pc = "SERVE" /\ wrapper'[u].pc = "STOP"
        \/ wrapper[u].pc \in {"TAKEOVER", "ASKED"} /\ wrapper'[u].pc \in {"ASKED", "READ"}

LEMMA GoingOnKeeps ==
  ASSUME SessionInv, \A u \in Wrappers : GoesOn(u),
         wrapper' \in [Wrappers -> WrapperRecord],
         pty' \in [Wrappers -> Terminal], call' \in [Notices -> Delivery],
         child' \in [Wrappers -> {"NONE", "RUNNING", "GONE"}],
         TakeDown \/ UNCHANGED <<runtime, age>>, UNCHANGED path,
         Fault \/ UNCHANGED scenario,
         OneWrites', LinesWritten', SentWhole'
  PROVE  SessionInv'
<1>1. runtime' \in Record /\ age' \in 0 .. OfflineAfter
  BY Numbers, Names DEF SessionInv, TypeOK, TakeDown
<1>2. /\ scenario' \in [runs : SUBSET Wrappers, asked : SUBSET Notices, faults : Nat]
      /\ scenario'.runs = scenario.runs
  BY ScenarioStays
<1>3. TypeOK'
  BY <1>1, <1>2 DEF SessionInv, TypeOK, WrapperRecord, Terminal, Delivery
<1>4. WrappersBegin'
  BY <1>2 DEF SessionInv, WrappersBegin, GoesOn, Starting, Ended
<1>5. RuntimeKnown'
  <2>1. TakeDown => runtime'.status # "ABSENT"
    BY DEF TakeDown, Offline
  <2>2. \A u \in Wrappers : wrapper'[u].pc \notin Unregistered => wrapper[u].pc \notin Unregistered
    BY DEF GoesOn, Unregistered, Ended
  <2> QED
    BY <2>1, <2>2 DEF SessionInv, RuntimeKnown
<1>6. OwnBeatShown'
  <2>1. TakeDown => runtime'.status # "ONLINE"
    BY DEF TakeDown, Offline
  <2>2. \A u \in Wrappers : Beating(u)' => Beating(u) /\ wrapper'[u].timer = wrapper[u].timer
    BY DEF GoesOn, Beating, Serving, Ended
  <2> QED
    BY <2>1, <2>2 DEF SessionInv, OwnBeatShown
<1> QED
  BY <1>3, <1>4, <1>5, <1>6 DEF SessionInv

\* Terminals stay open or closed as they are.
LEMMA GoingOnCalls ==
  ASSUME SessionInv, \A u \in Wrappers : GoesOn(u) /\ wrapper'[u].pc \notin Ended,
         UNCHANGED <<pty, call>>, scenario'.asked = scenario.asked
  PROVE  OneWrites' /\ LinesWritten' /\ SentWhole'
<1>1. \A v \in Wrappers : wrapper[v].pc \in Typed =>
        wrapper'[v].pc \in Typed /\ (wrapper'[v].pc \in Open => wrapper[v].pc \in Open)
  BY DEF GoesOn, Typed, Open
<1> QED
  BY <1>1, CallsStay

\* What was under way in a process is over with it.
LEMMA VanishedCalls ==
  ASSUME SessionInv, NEW v \in Wrappers, Vanished(v), scenario'.asked = scenario.asked,
         \A u \in Wrappers \ {v} : wrapper[u].pc \in Typed =>
            wrapper'[u].pc \in Typed /\ (wrapper'[u].pc \in Open => wrapper[u].pc \in Open)
  PROVE  /\ pty' \in [Wrappers -> Terminal] /\ call' \in [Notices -> Delivery]
         /\ OneWrites' /\ LinesWritten' /\ SentWhole'
<1> DEFINE failed == [NoCall EXCEPT !.client = "FAILED"]
<1>1. /\ pty \in [Wrappers -> Terminal] /\ call \in [Notices -> Delivery]
      /\ pty' = [pty EXCEPT ![v] = NoTerminal]
      /\ call' = [n \in Notices |-> IF call[n].via # v THEN call[n] ELSE failed]
  BY Types DEF SessionInv, Vanished
<1>2. /\ failed \in Delivery /\ failed.handler = "NONE" /\ failed.via = None /\ failed.client = "FAILED"
      /\ NoTerminal \in Terminal /\ NoTerminal.line = {}
  BY Nothing DEF NoCall, NoTerminal
<1> HIDE DEF failed
<1>3. pty' \in [Wrappers -> Terminal] /\ call' \in [Notices -> Delivery]
  BY <1>1, <1>2
<1>4. /\ \A u \in Wrappers \ {v} : pty'[u] = pty[u]
      /\ pty'[v].line = {}
      /\ \A n \in Notices : call[n].via # v => call'[n] = call[n]
      /\ \A n \in Notices : call[n].via = v => call'[n] = failed
  BY <1>1, <1>2
<1>5. \A n \in Notices : n \in scenario.asked => call[n].via # v
  BY Names DEF SessionInv, OneWrites
<1>6. \A n \in Notices : call[n].via \in Wrappers \cup {None}
  BY <1>1 DEF Delivery
<1>7. OneWrites'
  <2> SUFFICES ASSUME NEW n \in Notices
               PROVE  /\ call'[n].handler = "NONE" <=> call'[n].via = None
                      /\ call'[n].client = "OK" => call'[n].handler = "NONE"
                      /\ n \in scenario'.asked => call'[n].client = "NEW" /\ call'[n].handler = "NONE"
                      /\ call'[n].handler \in {"IDLE", "ECHO"} => pty'[call'[n].via].writer = n
                      /\ call'[n].handler = "ECHO" =>
                           /\ wrapper'[call'[n].via].pc \in Typed
                           /\ wrapper'[call'[n].via].pc \in Open => n \in pty'[call'[n].via].line
    BY DEF OneWrites
  <2>1. CASE call[n].via = v
    BY <1>2, <1>4, <1>5, <2>1
  <2>2. CASE call[n].via # v
    BY <1>4, <1>6, <2>2 DEF SessionInv, OneWrites
  <2> QED
    BY <2>1, <2>2
<1>8. \A m \in Notices : Undelivered(m) => Undelivered(m)'
  BY <1>2, <1>4 DEF Undelivered
<1>9. \A u \in Wrappers : pty[u].line \subseteq Notices
  BY <1>1 DEF Terminal
<1>10. \A n \in Notices : call[n].sent \subseteq Notices
  BY <1>1 DEF Delivery
<1>11. LinesWritten'
  BY <1>4, <1>8, <1>9 DEF SessionInv, LinesWritten
<1>12. SentWhole'
  BY <1>2, <1>4, <1>8, <1>10 DEF SessionInv, SentWhole
<1> QED
  BY <1>3, <1>7, <1>11, <1>12

\* A wrapper whose process is over, wherever the others are.
LEMMA EndKeeps ==
  ASSUME SessionInv, NEW v \in Wrappers, Vanished(v),
         \A u \in Wrappers : GoesOn(u) /\ (u # v => wrapper'[u].pc = wrapper[u].pc \/ wrapper[u].pc \notin Typed),
         wrapper' \in [Wrappers -> WrapperRecord],
         TakeDown \/ UNCHANGED <<runtime, age>>, UNCHANGED <<path, child>>,
         Fault \/ UNCHANGED scenario
  PROVE  SessionInv'
<1>1. scenario'.asked = scenario.asked
  BY ScenarioStays
<1>2. child' \in [Wrappers -> {"NONE", "RUNNING", "GONE"}]
  BY DEF SessionInv, TypeOK
<1> QED
  BY <1>1, <1>2, VanishedCalls, GoingOnKeeps

LEMMA LeaveKeeps ==
  ASSUME SessionInv, NEW w \in Wrappers, Leave(w)
  PROVE  SessionInv'
<1> DEFINE done == [NoWrapper EXCEPT !.pc = "DONE"]
<1>1. /\ wrapper[w].pc = "LEAVE" /\ wrapper' = [wrapper EXCEPT ![w] = done] /\ Vanished(w)
      /\ UNCHANGED <<path, child, scenario>>
      /\ TakeDown \/ UNCHANGED <<runtime, age>>
  BY DEF Leave
<1>2. done \in WrapperRecord /\ done.pc = "DONE" /\ wrapper \in [Wrappers -> WrapperRecord]
  BY Nothing, AllSteps, Types DEF SessionInv
<1> HIDE DEF done
<1>3. /\ wrapper' \in [Wrappers -> WrapperRecord] /\ wrapper'[w].pc = "DONE"
      /\ \A u \in Wrappers \ {w} : wrapper'[u] = wrapper[u]
  BY <1>1, <1>2
<1>4. \A u \in Wrappers : GoesOn(u)
  BY <1>1, <1>3 DEF GoesOn, Ended
<1> QED
  BY <1>1, <1>3, <1>4, EndKeeps

LEMMA Killing ==
  ASSUME SessionInv, NEW v \in Wrappers
  PROVE  /\ Killed(v) \in [Wrappers -> WrapperRecord] /\ Killed(v)[v].pc = "DEAD"
         /\ \A u \in Wrappers \ {v} : Killed(v)[u] = wrapper[u]
<1> DEFINE dead == [NoWrapper EXCEPT !.pc = "DEAD"]
<1>1. dead \in WrapperRecord /\ dead.pc = "DEAD" /\ wrapper \in [Wrappers -> WrapperRecord]
  BY Nothing, Types DEF SessionInv, Steps, Ended
<1>2. Killed(v) = [wrapper EXCEPT ![v] = dead]
  BY DEF Killed
<1> HIDE DEF dead
<1> QED
  BY <1>1, <1>2

LEMMA KillKeeps ==
  ASSUME SessionInv, NEW w \in Wrappers, Kill(w)
  PROVE  SessionInv'
<1>1. /\ wrapper[w].pc # "IDLE" /\ wrapper' = Killed(w) /\ Vanished(w) /\ Fault
      /\ UNCHANGED <<runtime, age, path, child>>
  BY DEF Kill
<1>2. /\ wrapper' \in [Wrappers -> WrapperRecord] /\ wrapper'[w].pc = "DEAD"
      /\ \A u \in Wrappers \ {w} : wrapper'[u] = wrapper[u]
  BY <1>1, Killing
<1>3. \A u \in Wrappers : GoesOn(u)
  BY <1>1, <1>2 DEF GoesOn, Ended
<1> QED
  BY <1>1, <1>2, <1>3, EndKeeps

\* The wrapper that takes over goes on beside what it does to the other one.
LEMMA TakesOver ==
  ASSUME SessionInv, NEW w \in Wrappers, NEW s \in {"ASKED", "READ"},
         NEW others \in [Wrappers -> WrapperRecord], others[w] = wrapper[w],
         wrapper' = [others EXCEPT ![w].pc = s]
  PROVE  /\ wrapper' \in [Wrappers -> WrapperRecord] /\ wrapper'[w].pc = s
         /\ wrapper'[w].lost = wrapper[w].lost /\ wrapper'[w].timer = wrapper[w].timer
         /\ wrapper'[w].target = wrapper[w].target
         /\ \A u \in Wrappers \ {w} : wrapper'[u] = others[u]
<1> DEFINE next == [wrapper[w] EXCEPT !.pc = s]
<1>1. wrapper[w] \in WrapperRecord /\ s \in Steps
  BY AllSteps, Types DEF SessionInv
<1>2. /\ next \in WrapperRecord /\ next.pc = s /\ next.lost = wrapper[w].lost
      /\ next.timer = wrapper[w].timer /\ next.target = wrapper[w].target
  BY <1>1 DEF WrapperRecord
<1>3. wrapper' = [others EXCEPT ![w] = next]
  OBVIOUS
<1> HIDE DEF next
<1> QED
  BY <1>2, <1>3

LEMMA TargetsAreOthers ==
  ASSUME SessionInv, NEW w \in Wrappers, wrapper[w].pc \in {"TAKEOVER", "ASKED"}
  PROVE  wrapper[w].target[3] \in Wrappers \ {w}
<1>1. wrapper[w].target \in Takeovers /\ wrapper[w].target[1] = w
  BY DEF SessionInv, WrappersBegin
<1> QED
  BY <1>1, TakeoversAreOfOthers

\* Another wrapper goes on by itself, and no delivery is touched.
LEMMA TakingKeeps ==
  ASSUME SessionInv, NEW w \in Wrappers, NEW s \in {"ASKED", "READ"}, Walks(w, s),
         wrapper[w].pc \in {"TAKEOVER", "ASKED"}, wrapper'[w].target = wrapper[w].target,
         UNCHANGED <<runtime, age, path, pty, call, scenario>>,
         child' \in [Wrappers -> {"NONE", "RUNNING", "GONE"}]
  PROVE  SessionInv'
<1>1. \A u \in Wrappers : GoesOn(u)
  BY DEF GoesOn, Walks
<1>2. OneWrites' /\ LinesWritten' /\ SentWhole'
  <2>1. \A v \in Wrappers : wrapper[v].pc \in Typed =>
            wrapper'[v].pc \in Typed /\ (wrapper'[v].pc \in Open => wrapper[v].pc \in Open)
    BY DEF Walks, Typed, Open
  <2> QED
    BY <2>1, CallsStay
<1>3. pty' \in [Wrappers -> Terminal] /\ call' \in [Notices -> Delivery]
  BY Types DEF SessionInv
<1> QED
  BY <1>1, <1>2, <1>3, GoingOnKeeps DEF Walks

\* A wrapper is killed for the one that takes over.
LEMMA KilledForKeeps ==
  ASSUME SessionInv, NEW w \in Wrappers, NEW s \in {"ASKED", "READ"}, NEW v \in Wrappers \ {w},
         wrapper[w].pc \in {"TAKEOVER", "ASKED"}, wrapper[v].pc # "IDLE",
         wrapper' = [Killed(v) EXCEPT ![w].pc = s], Vanished(v),
         UNCHANGED <<runtime, age, path, child, scenario>>
  PROVE  SessionInv'
<1> DEFINE others == Killed(v)
<1>1. /\ others \in [Wrappers -> WrapperRecord] /\ others[v].pc = "DEAD"
      /\ \A u \in Wrappers \ {v} : others[u] = wrapper[u]
  BY Killing
<1>2. wrapper' = [others EXCEPT ![w].pc = s]
  OBVIOUS
<1> HIDE DEF others
<1>3. /\ wrapper' \in [Wrappers -> WrapperRecord] /\ wrapper'[w].pc = s
      /\ wrapper'[w].lost = wrapper[w].lost /\ wrapper'[w].timer = wrapper[w].timer
      /\ wrapper'[w].target = wrapper[w].target
      /\ \A u \in Wrappers \ {w} : wrapper'[u] = others[u]
  BY <1>1, <1>2, TakesOver
<1>4. \A u \in Wrappers : GoesOn(u)
  <2>1. GoesOn(w)
    BY <1>3 DEF GoesOn
  <2>2. GoesOn(v)
    BY <1>1, <1>3 DEF GoesOn, Ended
  <2>3. \A u \in Wrappers \ {w, v} : GoesOn(u)
    BY <1>1, <1>3 DEF GoesOn
  <2> QED
    BY <2>1, <2>2, <2>3
<1>5. \A u \in Wrappers : u # v => wrapper'[u].pc = wrapper[u].pc \/ wrapper[u].pc \notin Typed
  BY <1>1, <1>3 DEF Typed, Open
<1> QED
  BY <1>3, <1>4, <1>5, EndKeeps

LEMMA AskToEndKeeps ==
  ASSUME SessionInv, NEW w \in Wrappers, AskToEnd(w)
  PROVE  SessionInv'
<1> DEFINE target == wrapper[w].target
           v == target[3]
<1>1. wrapper[w].pc = "TAKEOVER" /\ UNCHANGED <<runtime, age, path, child, scenario>>
  BY DEF AskToEnd
<1>2. child \in [Wrappers -> {"NONE", "RUNNING", "GONE"}] /\ wrapper \in [Wrappers -> WrapperRecord]
  BY Types DEF SessionInv, TypeOK
<1>3. v \in Wrappers \ {w} /\ target \in Takeovers /\ target[2] \in {"WRAPPER", "PROVIDER"}
  BY <1>1, TargetsAreOthers, TakeoversAreOfOthers DEF SessionInv, WrappersBegin
<1>4. CASE Gone(target) \/ target[2] = "PROVIDER"
  <2>1. Goto(w, "ASKED") /\ UNCHANGED <<call, pty>>
    BY <1>4 DEF AskToEnd
  <2>2. Walks(w, "ASKED") /\ wrapper'[w].target = wrapper[w].target
    BY <2>1, AllSteps, GotoWalks DEF SessionInv
  <2> QED
    BY <1>1, <1>2, <2>1, <2>2, TakingKeeps
<1>5. CASE ~(Gone(target) \/ target[2] = "PROVIDER")
  <2>1. /\ wrapper' = [Terminated(v) EXCEPT ![w].pc = "ASKED"]
        /\ IF Terminated(v)[v].pc = "DEAD" THEN Vanished(v) ELSE UNCHANGED <<call, pty>>
    BY <1>5 DEF AskToEnd
  <2>2. wrapper[v].pc \notin {"IDLE"} \cup Ended
    BY <1>3, <1>5 DEF Gone
  <2> HIDE DEF v, target
  <2>3. CASE wrapper[v].pc = "SERVE"
    <3> DEFINE told == [wrapper[v] EXCEPT !.pc = "STOP"]
               others == Terminated(v)
    <3>1. /\ told \in WrapperRecord /\ told.pc = "STOP" /\ told.lost = wrapper[v].lost
          /\ told.timer = wrapper[v].timer /\ told.target = wrapper[v].target
      BY <1>2, <1>3, AllSteps DEF WrapperRecord
    <3>2. others = [wrapper EXCEPT ![v] = told]
      BY <2>3 DEF Terminated
    <3> HIDE DEF told
    <3>3. /\ others \in [Wrappers -> WrapperRecord] /\ others[v] = told
          /\ \A u \in Wrappers \ {v} : others[u] = wrapper[u]
      BY <1>2, <1>3, <3>1, <3>2
    <3>4. wrapper' = [others EXCEPT ![w].pc = "ASKED"] /\ UNCHANGED <<call, pty>>
      BY <2>1, <3>1, <3>3
    <3> HIDE DEF others
    <3>5. /\ wrapper' \in [Wrappers -> WrapperRecord] /\ wrapper'[w].pc = "ASKED"
          /\ wrapper'[w].lost = wrapper[w].lost /\ wrapper'[w].timer = wrapper[w].timer
          /\ wrapper'[w].target = wrapper[w].target
          /\ \A u \in Wrappers \ {w} : wrapper'[u] = others[u]
      BY <1>1, <1>3, <3>3, <3>4, TakesOver
    <3>6. \A u \in Wrappers : GoesOn(u) /\ (wrapper[u].pc \in Typed =>
              wrapper'[u].pc \in Typed /\ (wrapper'[u].pc \in Open => wrapper[u].pc \in Open))
      <4>1. CASE wrapper'[v] = told
        <5>1. GoesOn(w) /\ wrapper[w].pc \notin Typed
          BY <1>1, <3>5 DEF GoesOn, Typed, Open
        <5>2. GoesOn(v) /\ wrapper'[v].pc \in Typed /\ wrapper[v].pc \in Open
          BY <2>3, <3>1, <4>1 DEF GoesOn, Typed, Open
        <5>3. \A u \in Wrappers \ {w, v} : wrapper'[u] = wrapper[u] /\ GoesOn(u)
          BY <3>3, <3>5 DEF GoesOn
        <5> QED
          BY <5>1, <5>2, <5>3
      <4> QED
        BY <1>3, <3>3, <3>5, <4>1
    <3>7. OneWrites' /\ LinesWritten' /\ SentWhole'
      BY <1>1, <3>4, <3>6, CallsStay
    <3>8. pty' \in [Wrappers -> Terminal] /\ call' \in [Notices -> Delivery]
      BY <3>4, Types DEF SessionInv
    <3> QED
      BY <1>1, <1>2, <3>5, <3>6, <3>7, <3>8, GoingOnKeeps
  <2>4. CASE wrapper[v].pc = "STOP"
    <3>1. Terminated(v) = wrapper
      BY <2>4 DEF Terminated
    <3>2. Goto(w, "ASKED") /\ UNCHANGED <<call, pty>>
      BY <2>1, <2>4, <3>1 DEF Goto
    <3>3. Walks(w, "ASKED") /\ wrapper'[w].target = wrapper[w].target
      BY <3>2, AllSteps, GotoWalks DEF SessionInv
    <3> QED
      BY <1>1, <1>2, <3>2, <3>3, TakingKeeps
  <2>5. CASE wrapper[v].pc \notin {"SERVE", "STOP"}
    <3>1. Terminated(v) = Killed(v)
      BY <2>5 DEF Terminated
    <3>2. Vanished(v) /\ wrapper' = [Killed(v) EXCEPT ![w].pc = "ASKED"]
      BY <1>3, <2>1, <3>1, Killing
    <3> QED
      BY <1>1, <1>3, <2>2, <3>2, KilledForKeeps
  <2> QED
    BY <2>3, <2>4, <2>5
<1> QED
  BY <1>4, <1>5

LEMMA TakenOverKeeps ==
  ASSUME SessionInv, NEW w \in Wrappers, TakenOver(w)
  PROVE  SessionInv'
<1> DEFINE target == wrapper[w].target
           v == target[3]
<1>1. wrapper[w].pc = "ASKED" /\ UNCHANGED <<runtime, age, path, scenario>>
  BY DEF TakenOver
<1>2. child \in [Wrappers -> {"NONE", "RUNNING", "GONE"}]
  BY DEF SessionInv, TypeOK
<1>3. v \in Wrappers \ {w} /\ target[2] \in {"WRAPPER", "PROVIDER"}
  BY <1>1, TargetsAreOthers, TakeoversAreOfOthers DEF SessionInv, WrappersBegin
<1>4. CASE target[2] = "PROVIDER" \/ Gone(target)
  <2>1. Goto(w, "READ") /\ UNCHANGED <<call, pty>>
    BY <1>4 DEF TakenOver
  <2>2. child' = child \/ child' = [child EXCEPT ![v] = IF @ = "RUNNING" THEN "GONE" ELSE @]
    BY <1>4 DEF TakenOver
  <2>3. child' \in [Wrappers -> {"NONE", "RUNNING", "GONE"}]
    BY <1>2, <1>3, <2>2
  <2>4. Walks(w, "READ") /\ wrapper'[w].target = wrapper[w].target
    BY <2>1, AllSteps, GotoWalks DEF SessionInv
  <2> QED
    BY <1>1, <2>1, <2>3, <2>4, TakingKeeps
<1>5. CASE ~(target[2] = "PROVIDER" \/ Gone(target))
  <2>1. wrapper' = [Killed(v) EXCEPT ![w].pc = "READ"] /\ Vanished(v) /\ UNCHANGED child
    BY <1>5 DEF TakenOver
  <2>2. wrapper[v].pc # "IDLE"
    BY <1>3, <1>5 DEF Gone
  <2> QED
    BY <1>1, <1>3, <2>1, <2>2, KilledForKeeps
<1> QED
  BY <1>4, <1>5

----------------------------------------------------------------------------
(* Time, the operator and the provider *)

LEMMA OneUnitMore ==
  ASSUME NEW t \in 0 .. Period, NEW a \in 0 .. OfflineAfter
  PROVE  /\ t < Period => t + 1 \in 0 .. Period
         /\ a < OfflineAfter => a + 1 \in 0 .. OfflineAfter
         /\ t < Period /\ a >= t => a + 1 >= t + 1
         /\ t < Period /\ ~(a < OfflineAfter) => a >= t + 1
         /\ a >= 0
  BY Numbers

LEMMA TickKeeps ==
  ASSUME SessionInv, Tick
  PROVE  SessionInv'
<1> DEFINE later(w) == [wrapper[w] EXCEPT !.timer = wrapper[w].timer + 1]
<1>1. /\ \A w \in Wrappers : Beating(w) => wrapper[w].timer < Period
      /\ age' = IF runtime.status = "ONLINE" /\ age < OfflineAfter THEN age + 1 ELSE age
      /\ wrapper' = [w \in Wrappers |-> IF Beating(w) THEN later(w) ELSE wrapper[w]]
      /\ UNCHANGED <<runtime, path, child, pty, call, scenario>>
  BY DEF Tick
<1>2. wrapper \in [Wrappers -> WrapperRecord] /\ age \in 0 .. OfflineAfter
  BY Types DEF SessionInv
<1>3. \A w \in Wrappers : wrapper[w] \in WrapperRecord /\ wrapper[w].timer \in 0 .. Period
  BY <1>2 DEF WrapperRecord
<1>4. \A w \in Wrappers : Beating(w) =>
        /\ later(w) \in WrapperRecord /\ later(w).timer = wrapper[w].timer + 1
        /\ later(w).pc = wrapper[w].pc /\ later(w).lost = wrapper[w].lost
        /\ later(w).target = wrapper[w].target
  <2> SUFFICES ASSUME NEW w \in Wrappers, Beating(w)
               PROVE  /\ later(w) \in WrapperRecord /\ later(w).timer = wrapper[w].timer + 1
                      /\ later(w).pc = wrapper[w].pc /\ later(w).lost = wrapper[w].lost
                      /\ later(w).target = wrapper[w].target
    OBVIOUS
  <2>1. wrapper[w].timer + 1 \in 0 .. Period
    BY <1>1, <1>2, <1>3, OneUnitMore
  <2> QED
    BY <1>3, <2>1 DEF WrapperRecord
<1> HIDE DEF later
<1>5. /\ wrapper' \in [Wrappers -> WrapperRecord]
      /\ \A w \in Wrappers : ~Beating(w) => wrapper'[w] = wrapper[w]
      /\ \A w \in Wrappers : Beating(w) => wrapper'[w].timer = wrapper[w].timer + 1
      /\ \A w \in Wrappers : /\ wrapper'[w].pc = wrapper[w].pc /\ wrapper'[w].lost = wrapper[w].lost
                             /\ wrapper'[w].target = wrapper[w].target
  BY <1>1, <1>2, <1>4
<1>6. age' \in 0 .. OfflineAfter
  BY <1>1, <1>2, Numbers, OneUnitMore
<1>7. TypeOK'
  BY <1>1, <1>5, <1>6 DEF SessionInv, TypeOK, WrapperRecord
<1>8. WrappersBegin'
  <2>1. \A w \in Wrappers : wrapper[w].pc \in {"IDLE"} \cup Starting => ~Beating(w)
    BY DEF Beating, Serving, Starting
  <2> QED
    BY <1>1, <1>5, <2>1 DEF SessionInv, WrappersBegin
<1>9. RuntimeKnown'
  BY <1>1, <1>5 DEF SessionInv, RuntimeKnown
<1>10. OwnBeatShown'
  <2> SUFFICES ASSUME NEW w \in Wrappers, Beating(w)', runtime.status = "ONLINE", runtime.endpoint = w
               PROVE  age' >= wrapper'[w].timer
    BY <1>1 DEF OwnBeatShown
  <2>1. Beating(w) /\ wrapper'[w].timer = wrapper[w].timer + 1 /\ wrapper[w].timer < Period
    BY <1>1, <1>5 DEF Beating
  <2>2. age >= wrapper[w].timer
    BY <2>1 DEF SessionInv, OwnBeatShown
  <2> QED
    BY <1>1, <1>2, <1>3, <2>1, <2>2, OneUnitMore
<1>11. OneWrites' /\ LinesWritten' /\ SentWhole'
  BY <1>1, <1>5, CallsStay
<1> QED
  BY <1>7, <1>8, <1>9, <1>10, <1>11 DEF SessionInv

\* A heartbeat is shown, or ends the session.
LEMMA HeartbeatKeeps ==
  ASSUME SessionInv, NEW w \in Wrappers, Heartbeat(w)
  PROVE  SessionInv'
<1>1. /\ Beating(w) /\ wrapper[w].timer = Period /\ UNCHANGED <<path, child, pty, call>>
      /\ Fault \/ UNCHANGED scenario
  BY DEF Heartbeat
<1>2. wrapper \in [Wrappers -> WrapperRecord] /\ wrapper[w] \in WrapperRecord
  BY Types DEF SessionInv
<1>3. PICK l \in {wrapper[w].lost, TRUE} :
        /\ wrapper' = [wrapper EXCEPT ![w].timer = 0, ![w].lost = l]
        /\ \/ Show(w) /\ l = wrapper[w].lost
           \/ UNCHANGED <<runtime, age>> /\ l = TRUE
  <2>1. CASE Show(w) /\ wrapper' = [wrapper EXCEPT ![w].timer = 0]
    <3> DEFINE next == [wrapper[w] EXCEPT !.timer = 0]
               same == [wrapper[w] EXCEPT !.timer = 0, !.lost = wrapper[w].lost]
    <3>1. next = same
      BY <1>2 DEF WrapperRecord
    <3>2. wrapper' = [wrapper EXCEPT ![w] = same]
      BY <2>1, <3>1
    <3> QED
      BY <2>1, <3>2
  <2>2. CASE UNCHANGED <<runtime, age>> /\ wrapper' = [wrapper EXCEPT ![w].timer = 0, ![w].lost = TRUE]
    BY <2>2
  <2> QED
    BY <2>1, <2>2 DEF Heartbeat
<1> DEFINE next == [wrapper[w] EXCEPT !.timer = 0, !.lost = l]
<1>4. l \in BOOLEAN
  BY <1>2 DEF WrapperRecord
<1>5. /\ next \in WrapperRecord /\ next.pc = wrapper[w].pc /\ next.lost = l /\ next.timer = 0
      /\ next.target = wrapper[w].target
  BY <1>2, <1>4, Numbers DEF WrapperRecord
<1>6. wrapper' = [wrapper EXCEPT ![w] = next]
  BY <1>3
<1> HIDE DEF next
<1>7. /\ wrapper' \in [Wrappers -> WrapperRecord]
      /\ \A u \in Wrappers \ {w} : wrapper'[u] = wrapper[u]
      /\ wrapper'[w].pc = wrapper[w].pc /\ wrapper'[w].timer = 0 /\ wrapper'[w].lost = l
      /\ wrapper'[w].target = wrapper[w].target
  BY <1>2, <1>5, <1>6
<1>8. wrapper[w].pc \in Serving /\ wrapper[w].pc \notin {"IDLE"} \cup Starting
  BY <1>1 DEF Beating, Serving, Starting
<1>9. /\ scenario' \in [runs : SUBSET Wrappers, asked : SUBSET Notices, faults : Nat]
      /\ scenario'.runs = scenario.runs /\ scenario'.asked = scenario.asked
  BY <1>1, ScenarioStays
<1>10. Show(w) => /\ runtime' \in Record /\ runtime'.status = "ONLINE" /\ runtime'.endpoint = w
                  /\ age' = 0
  BY DEF Show, Record, Statuses
<1>11. TypeOK'
  <2>1. runtime' \in Record /\ age' \in 0 .. OfflineAfter
    BY <1>3, <1>10, Numbers DEF SessionInv, TypeOK
  <2> QED
    BY <1>1, <1>7, <1>9, <2>1 DEF SessionInv, TypeOK, WrapperRecord
<1>12. WrappersBegin'
  BY <1>7, <1>8, <1>9 DEF SessionInv, WrappersBegin
<1>13. RuntimeKnown'
  BY <1>3, <1>7, <1>10 DEF SessionInv, RuntimeKnown
<1>14. OwnBeatShown'
  <2> SUFFICES ASSUME NEW u \in Wrappers, Beating(u)', runtime'.status = "ONLINE", runtime'.endpoint = u
               PROVE  age' >= wrapper'[u].timer
    BY DEF OwnBeatShown
  <2>1. CASE u = w
    <3>1. Show(w)
      BY <1>3, <1>7, <2>1 DEF Beating
    <3> QED
      BY <1>7, <1>10, <2>1, <3>1
  <2>2. CASE u # w
    <3>1. UNCHANGED <<runtime, age>>
      BY <1>3, <1>10, <2>2
    <3> QED
      BY <1>7, <2>2, <3>1 DEF SessionInv, OwnBeatShown, Beating
  <2> QED
    BY <2>1, <2>2
<1>15. OneWrites' /\ LinesWritten' /\ SentWhole'
  <2>1. \A v \in Wrappers : wrapper'[v].pc = wrapper[v].pc
    BY <1>7
  <2> QED
    BY <1>1, <1>9, <2>1, CallsStay
<1> QED
  BY <1>11, <1>12, <1>13, <1>14, <1>15 DEF SessionInv

LEMMA OperateKeeps ==
  ASSUME SessionInv, Operate
  PROVE  SessionInv'
<1>1. Fault /\ age' = 0 /\ UNCHANGED <<path, wrapper, child, pty, call>>
  BY DEF Operate, sessions
<1>2. PICK s \in {"DRAINING", "OFFLINE", "REVOKED"} : runtime' = [runtime EXCEPT !.status = s]
  BY DEF Operate
<1>3. runtime' \in Record /\ runtime'.status = s
  BY <1>2, Types DEF SessionInv, Record, Statuses
<1>4. /\ scenario' \in [runs : SUBSET Wrappers, asked : SUBSET Notices, faults : Nat]
      /\ scenario'.runs = scenario.runs /\ scenario'.asked = scenario.asked
  BY <1>1, ScenarioStays
<1>5. TypeOK'
  BY <1>1, <1>3, <1>4, Numbers DEF SessionInv, TypeOK
<1>6. WrappersBegin'
  BY <1>1, <1>4 DEF SessionInv, WrappersBegin
<1>7. RuntimeKnown' /\ OwnBeatShown'
  BY <1>2, <1>3 DEF RuntimeKnown, OwnBeatShown
<1>8. OneWrites' /\ LinesWritten' /\ SentWhole'
  BY <1>1, <1>4, CallsStay
<1> QED
  BY <1>5, <1>6, <1>7, <1>8 DEF SessionInv

LEMMA ProviderEndsKeeps ==
  ASSUME SessionInv, NEW w \in Wrappers, ProviderEnds(w)
  PROVE  SessionInv'
<1>1. UNCHANGED <<runtime, age, path, wrapper, pty, call, scenario>> /\ child' = [child EXCEPT ![w] = "GONE"]
  BY DEF ProviderEnds
<1>2. TypeOK'
  BY <1>1 DEF SessionInv, TypeOK
<1>3. WrappersBegin' /\ RuntimeKnown' /\ OwnBeatShown'
  BY <1>1 DEF SessionInv, WrappersBegin, RuntimeKnown, OwnBeatShown, Beating
<1>4. OneWrites' /\ LinesWritten' /\ SentWhole'
  BY <1>1, CallsStay
<1> QED
  BY <1>2, <1>3, <1>4 DEF SessionInv

\* Nothing but terminals and deliveries changes.
LEMMA TerminalsKeep ==
  ASSUME SessionInv, UNCHANGED <<runtime, age, path, wrapper, child>>,
         pty' \in [Wrappers -> Terminal], call' \in [Notices -> Delivery],
         scenario' \in [runs : SUBSET Wrappers, asked : SUBSET Notices, faults : Nat],
         scenario'.runs = scenario.runs,
         OneWrites', LinesWritten', SentWhole'
  PROVE  SessionInv'
<1>1. TypeOK'
  BY DEF SessionInv, TypeOK, Terminal, Delivery
<1>2. WrappersBegin' /\ RuntimeKnown' /\ OwnBeatShown'
  BY DEF SessionInv, WrappersBegin, RuntimeKnown, OwnBeatShown, Beating
<1> QED
  BY <1>1, <1>2 DEF SessionInv

LEMMA DrawKeeps ==
  ASSUME SessionInv, NEW w \in Wrappers, Draw(w)
  PROVE  SessionInv'
<1>1. /\ UNCHANGED <<runtime, age, path, wrapper, child, call, scenario>>
      /\ \/ pty' = [pty EXCEPT ![w].screen = @ \cup pty[w].line]
         \/ pty' = [pty EXCEPT ![w].screen = {}]
         \/ pty' = [pty EXCEPT ![w].busy = ~@]
  BY DEF Draw
<1>2. pty \in [Wrappers -> Terminal] /\ pty[w] \in Terminal /\ call \in [Notices -> Delivery]
  BY Types DEF SessionInv
<1>3. PICK next \in Terminal : /\ next.line = pty[w].line /\ next.writer = pty[w].writer
                               /\ pty' = [pty EXCEPT ![w] = next]
  <2>1. CASE pty' = [pty EXCEPT ![w].screen = @ \cup pty[w].line]
    <3> DEFINE next == [pty[w] EXCEPT !.screen = @ \cup pty[w].line]
    <3>1. next \in Terminal /\ next.line = pty[w].line /\ next.writer = pty[w].writer
      BY <1>2 DEF Terminal
    <3>2. pty' = [pty EXCEPT ![w] = next]
      BY <2>1
    <3> HIDE DEF next
    <3> QED
      BY <3>1, <3>2
  <2>2. CASE pty' = [pty EXCEPT ![w].screen = {}]
    <3> DEFINE next == [pty[w] EXCEPT !.screen = {}]
    <3>1. next \in Terminal /\ next.line = pty[w].line /\ next.writer = pty[w].writer
      BY <1>2 DEF Terminal
    <3>2. pty' = [pty EXCEPT ![w] = next]
      BY <2>2
    <3> HIDE DEF next
    <3> QED
      BY <3>1, <3>2
  <2>3. CASE pty' = [pty EXCEPT ![w].busy = ~@]
    <3> DEFINE next == [pty[w] EXCEPT !.busy = ~@]
    <3>1. next \in Terminal /\ next.line = pty[w].line /\ next.writer = pty[w].writer
      BY <1>2 DEF Terminal
    <3>2. pty' = [pty EXCEPT ![w] = next]
      BY <2>3
    <3> HIDE DEF next
    <3> QED
      BY <3>1, <3>2
  <2> QED
    BY <1>1, <2>1, <2>2, <2>3
<1>4. /\ pty' \in [Wrappers -> Terminal]
      /\ \A u \in Wrappers : pty'[u].line = pty[u].line /\ pty'[u].writer = pty[u].writer
  BY <1>2, <1>3
<1>5. \A n \in Notices : call[n].handler \in {"IDLE", "ECHO"} => call[n].via \in Wrappers
  BY Types DEF SessionInv, OneWrites, Delivery
<1>6. OneWrites'
  BY <1>1, <1>4, <1>5 DEF SessionInv, OneWrites
<1>7. LinesWritten' /\ SentWhole'
  BY <1>1, <1>4 DEF SessionInv, LinesWritten, SentWhole, Undelivered
<1>8. scenario' \in [runs : SUBSET Wrappers, asked : SUBSET Notices, faults : Nat]
  BY <1>1 DEF SessionInv, TypeOK
<1> QED
  BY <1>1, <1>2, <1>4, <1>6, <1>7, <1>8, TerminalsKeep

----------------------------------------------------------------------------
(* Deliveries *)

\* What is known of a delivery and of the terminal it goes to.
LEMMA DeliveryKnown ==
  ASSUME SessionInv, NEW n \in Notices
  PROVE  /\ call \in [Notices -> Delivery] /\ call[n] \in Delivery
         /\ pty \in [Wrappers -> Terminal]
         /\ call[n].handler # "NONE" => /\ call[n].via \in Wrappers
                                        /\ pty[call[n].via] \in Terminal
                                        /\ n \notin scenario.asked
                                        /\ call[n].client # "OK"
<1>1. call \in [Notices -> Delivery] /\ call[n] \in Delivery /\ pty \in [Wrappers -> Terminal]
  BY Types DEF SessionInv
<1>2. call[n].via \in Wrappers \cup {None}
  BY <1>1 DEF Delivery
<1> QED
  BY <1>1, <1>2 DEF SessionInv, OneWrites

\* A delivery that is under way, and not refused, is in no line but the one it was
\* just written to, and no other submission has taken it along.
LEMMA UnderWay ==
  ASSUME SessionInv, NEW n \in Notices, ~Undelivered(n)
  PROVE  /\ \A w \in Wrappers : n \in pty[w].line => call[n].handler = "ECHO" /\ call[n].via = w
         /\ \A k \in Notices \ {n} :
              call[k].handler = "DONE" \/ call[k].client = "OK" => n \notin call[k].sent
  BY DEF SessionInv, LinesWritten, SentWhole

LEMMA LinesHoldNotices ==
  ASSUME SessionInv
  PROVE  /\ \A w \in Wrappers : pty[w].line \subseteq Notices
         /\ \A n \in Notices : call[n].sent \subseteq Notices
  BY Types DEF SessionInv, Terminal, Delivery

LEMMA DialKeeps ==
  ASSUME SessionInv, NEW n \in Notices, Dial(n)
  PROVE  SessionInv'
<1> DEFINE next == IF Dialable THEN [NoCall EXCEPT !.client = "WAITING", !.via = path, !.handler = "ACCEPTED"]
                               ELSE [NoCall EXCEPT !.client = "FAILED"]
           later == [scenario EXCEPT !.asked = scenario.asked \ {n}]
<1>1. /\ n \in scenario.asked /\ scenario' = later /\ call' = [call EXCEPT ![n] = next]
      /\ UNCHANGED <<runtime, age, path, wrapper, child, pty>>
  BY DEF Dial, sessions
<1>2. scenario \in [runs : SUBSET Wrappers, asked : SUBSET Notices, faults : Nat]
  BY DEF SessionInv, TypeOK
<1>3. /\ later \in [runs : SUBSET Wrappers, asked : SUBSET Notices, faults : Nat]
      /\ later.runs = scenario.runs /\ later.asked = scenario.asked \ {n}
  BY <1>2
<1>4. /\ next \in Delivery /\ next.client \in {"WAITING", "FAILED"}
      /\ next.handler = "NONE" <=> next.via = None
      /\ next.handler \in {"NONE", "ACCEPTED"}
  BY Names DEF Dialable, NoCall, Delivery
<1> HIDE DEF next, later
<1>5. call \in [Notices -> Delivery] /\ pty \in [Wrappers -> Terminal]
  BY DeliveryKnown
<1>6. /\ call' \in [Notices -> Delivery] /\ call'[n] = next
      /\ \A m \in Notices \ {n} : call'[m] = call[m]
  BY <1>1, <1>4, <1>5
<1>7. ~Undelivered(n) /\ call[n].handler = "NONE"
  BY <1>1 DEF SessionInv, OneWrites, Undelivered
<1>8. \A m \in Notices \ {n} : Undelivered(m) => Undelivered(m)'
  BY <1>1, <1>3, <1>6 DEF Undelivered
<1>9. OneWrites'
  <2>1. \A m \in Notices \ {n} : call[m].handler \in {"IDLE", "ECHO"} => call[m].via \in Wrappers
    BY DeliveryKnown
  <2> QED
    BY <1>1, <1>3, <1>4, <1>6, <2>1 DEF SessionInv, OneWrites
<1>10. LinesWritten'
  BY <1>1, <1>6, <1>7, <1>8, UnderWay, LinesHoldNotices DEF SessionInv, LinesWritten
<1>11. SentWhole'
  BY <1>4, <1>6, <1>7, <1>8, UnderWay, LinesHoldNotices DEF SessionInv, SentWhole
<1> QED
  BY <1>1, <1>3, <1>5, <1>6, <1>9, <1>10, <1>11, TerminalsKeep

\* One handler goes on, in the terminal of its wrapper.
HandlerSteps(n, next, terminal) ==
  /\ call' = [call EXCEPT ![n] = next]
  /\ pty' = [pty EXCEPT ![call[n].via] = terminal]
  /\ UNCHANGED <<runtime, age, path, wrapper, child, scenario>>

LEMMA HandlerStepsOn ==
  ASSUME SessionInv, NEW n \in Notices, NEW next \in Delivery, NEW terminal \in Terminal,
         call[n].handler # "NONE", HandlerSteps(n, next, terminal)
  PROVE  /\ call' \in [Notices -> Delivery] /\ call'[n] = next
         /\ \A m \in Notices \ {n} : call'[m] = call[m]
         /\ pty' \in [Wrappers -> Terminal] /\ pty'[call[n].via] = terminal
         /\ \A u \in Wrappers \ {call[n].via} : pty'[u] = pty[u]
         /\ \A m \in Notices \ {n} : Undelivered(m) => Undelivered(m)'
         /\ scenario' \in [runs : SUBSET Wrappers, asked : SUBSET Notices, faults : Nat]
<1>1. call[n].via \in Wrappers /\ call \in [Notices -> Delivery] /\ pty \in [Wrappers -> Terminal]
  BY DeliveryKnown
<1>2. /\ call' \in [Notices -> Delivery] /\ call'[n] = next
      /\ \A m \in Notices \ {n} : call'[m] = call[m]
      /\ pty' \in [Wrappers -> Terminal] /\ pty'[call[n].via] = terminal
      /\ \A u \in Wrappers \ {call[n].via} : pty'[u] = pty[u]
  BY <1>1 DEF HandlerSteps
<1>3. scenario' = scenario
  BY DEF HandlerSteps
<1>4. \A m \in Notices \ {n} : Undelivered(m) => Undelivered(m)'
  BY <1>2, <1>3 DEF Undelivered
<1> QED
  BY <1>2, <1>3, <1>4 DEF SessionInv, TypeOK

\* A handler that takes or leaves the terminal, or submits its line, disturbs no
\* other: it was the only one to write there, or none was.
LEMMA HandlerKeeps ==
  ASSUME SessionInv, NEW n \in Notices, NEW next \in Delivery, NEW terminal \in Terminal,
         HandlerSteps(n, next, terminal), call[n].handler \in {"ACCEPTED", "IDLE", "ECHO"},
         next.via = call[n].via, next.client = call[n].client, next.handler # "NONE",
         next.handler \in {"IDLE", "ECHO"} => terminal.writer = n,
         next.handler = "ECHO" => wrapper[call[n].via].pc \in Open /\ n \in terminal.line,
         terminal.writer = pty[call[n].via].writer \/ pty[call[n].via].writer \in {n, None},
         \/ terminal.line = pty[call[n].via].line
         \/ next.handler = "ECHO" /\ terminal.line = pty[call[n].via].line \cup {n}
         \/ terminal.line = {} /\ pty[call[n].via].writer = n,
         n \in terminal.line => next.handler \in {"ECHO", "REFUSED"},
         next.handler = "DONE" =>
           n \in next.sent /\ \A m \in next.sent \ {n} : Undelivered(m)
  PROVE  SessionInv'
<1> DEFINE w == call[n].via
<1>1. w \in Wrappers /\ n \notin scenario.asked /\ call[n].client # "OK"
  BY DeliveryKnown
<1>2. /\ call' \in [Notices -> Delivery] /\ call'[n] = next
      /\ \A m \in Notices \ {n} : call'[m] = call[m]
      /\ pty' \in [Wrappers -> Terminal] /\ pty'[w] = terminal
      /\ \A u \in Wrappers \ {w} : pty'[u] = pty[u]
      /\ \A m \in Notices \ {n} : Undelivered(m) => Undelivered(m)'
      /\ scenario' \in [runs : SUBSET Wrappers, asked : SUBSET Notices, faults : Nat]
  BY HandlerStepsOn
<1>3. UNCHANGED <<runtime, age, path, wrapper, child, scenario>>
  BY DEF HandlerSteps
<1> HIDE DEF w
<1>4. ASSUME NEW m \in Notices \ {n}, call[m].handler \in {"IDLE", "ECHO"}
      PROVE  /\ call[m].via \in Wrappers
             /\ pty'[call[m].via].writer = m
             /\ call[m].handler = "ECHO" /\ wrapper[call[m].via].pc \in Open =>
                  m \in pty'[call[m].via].line
  <2>1. call[m].via \in Wrappers /\ pty[call[m].via].writer = m
    BY <1>4, DeliveryKnown DEF SessionInv, OneWrites
  <2>2. call[m].handler = "ECHO" /\ wrapper[call[m].via].pc \in Open => m \in pty[call[m].via].line
    BY DEF SessionInv, OneWrites
  <2>3. CASE call[m].via = w
    <3>1. pty[w].writer = m /\ m # None
      BY <2>1, <2>3, Names
    <3>2. terminal.writer = m /\ pty[w].line \subseteq terminal.line
      BY <1>4, <3>1 DEF w
    <3> QED
      BY <1>2, <2>1, <2>2, <2>3, <3>2
  <2>4. CASE call[m].via # w
    BY <1>2, <2>1, <2>2, <2>4
  <2> QED
    BY <2>3, <2>4
<1>5. OneWrites'
  <2>1. ASSUME NEW m \in Notices \ {n}
        PROVE  /\ call'[m].handler = "NONE" <=> call'[m].via = None
               /\ call'[m].client = "OK" => call'[m].handler = "NONE"
               /\ m \in scenario'.asked => call'[m].client = "NEW" /\ call'[m].handler = "NONE"
               /\ call'[m].handler \in {"IDLE", "ECHO"} => pty'[call'[m].via].writer = m
               /\ call'[m].handler = "ECHO" =>
                    /\ wrapper'[call'[m].via].pc \in Typed
                    /\ wrapper'[call'[m].via].pc \in Open => m \in pty'[call'[m].via].line
    BY <1>2, <1>3, <1>4 DEF SessionInv, OneWrites
  <2>2. /\ call'[n].handler = "NONE" <=> call'[n].via = None
        /\ call'[n].client = "OK" => call'[n].handler = "NONE"
        /\ n \in scenario'.asked => call'[n].client = "NEW" /\ call'[n].handler = "NONE"
        /\ call'[n].handler \in {"IDLE", "ECHO"} => pty'[call'[n].via].writer = n
        /\ call'[n].handler = "ECHO" =>
             /\ wrapper'[call'[n].via].pc \in Typed
             /\ wrapper'[call'[n].via].pc \in Open => n \in pty'[call'[n].via].line
    BY <1>1, <1>2, <1>3, Names DEF w, Typed
  <2> QED
    BY <2>1, <2>2 DEF OneWrites
<1>6. next.handler = "REFUSED" => Undelivered(n)'
  BY <1>1, <1>2, <1>3 DEF Undelivered
<1>7. \A u \in Wrappers : pty[u].line \subseteq Notices
  BY LinesHoldNotices
<1>8. /\ \A v \in Wrappers : n \in pty[v].line => v = call[n].via
      /\ \A k \in Notices \ {n} :
           call[k].handler = "DONE" \/ call[k].client = "OK" => n \notin call[k].sent
  <2>1. ~Undelivered(n)
    BY DEF Undelivered
  <2> QED
    BY <2>1, UnderWay
<1>9. LinesWritten'
  <2> SUFFICES ASSUME NEW u \in Wrappers, NEW m \in pty'[u].line
               PROVE  Undelivered(m)' \/ (call'[m].handler = "ECHO" /\ call'[m].via = u)
    BY DEF LinesWritten
  <2>1. m \in Notices /\ (m # n => m \in pty[u].line)
    BY <1>1, <1>2, <1>7 DEF w
  <2>2. CASE m # n
    BY <1>2, <2>1, <2>2 DEF SessionInv, LinesWritten
  <2>3. CASE m = n /\ u = w
    <3>1. n \in terminal.line
      BY <1>2, <2>3
    <3> QED
      BY <1>2, <1>6, <2>3, <3>1 DEF w
  <2>4. CASE m = n /\ u # w
    <3>1. n \in pty[u].line
      BY <1>2, <2>4
    <3> QED
      BY <1>8, <2>4, <3>1 DEF w
  <2> QED
    BY <2>2, <2>3, <2>4
<1>10. SentWhole'
  <2> SUFFICES ASSUME NEW k \in Notices, call'[k].handler = "DONE" \/ call'[k].client = "OK"
               PROVE  k \in call'[k].sent /\ \A m \in call'[k].sent \ {k} : Undelivered(m)'
    BY DEF SentWhole
  <2>1. CASE k = n
    <3>1. next.sent \subseteq Notices
      BY DEF Delivery
    <3> QED
      BY <1>1, <1>2, <2>1, <3>1
  <2>2. CASE k # n
    <3>1. call'[k] = call[k] /\ (call[k].handler = "DONE" \/ call[k].client = "OK")
      BY <1>2, <2>2
    <3>2. call[k].sent \subseteq Notices
      BY LinesHoldNotices
    <3>3. k \in call[k].sent /\ \A m \in call[k].sent \ {k} : Undelivered(m)
      BY <3>1 DEF SessionInv, SentWhole
    <3>4. n \notin call[k].sent
      BY <1>8, <2>2, <3>1
    <3> QED
      BY <1>2, <3>1, <3>2, <3>3, <3>4
  <2> QED
    BY <2>1, <2>2
<1> QED
  BY <1>2, <1>3, <1>5, <1>9, <1>10, TerminalsKeep

LEMMA AcceptKeeps ==
  ASSUME SessionInv, NEW n \in Notices, Accept(n)
  PROVE  SessionInv'
<1> DEFINE w == call[n].via
           at(step) == [call[n] EXCEPT !.handler = step]
           taken == [pty[w] EXCEPT !.writer = n]
<1>1. call[n].handler = "ACCEPTED" /\ UNCHANGED <<runtime, age, path, wrapper, child, scenario>>
  BY DEF Accept
<1>2. /\ call[n] \in Delivery /\ w \in Wrappers /\ pty[w] \in Terminal
      /\ pty \in [Wrappers -> Terminal]
  BY <1>1, DeliveryKnown
<1>3. n \notin pty[w].line
  <2>1. ~Undelivered(n)
    BY <1>1 DEF Undelivered
  <2> QED
    BY <1>1, <1>2, <2>1, UnderWay
<1>4. \A step \in {"IDLE", "REFUSED"} :
        /\ at(step) \in Delivery /\ at(step).handler = step
        /\ at(step).via = w /\ at(step).client = call[n].client
  BY <1>2 DEF Delivery
<1>5. taken \in Terminal /\ taken.writer = n /\ taken.line = pty[w].line
  BY <1>2 DEF Terminal
<1>6. CASE /\ pty[w].writer = None
           /\ call' = [call EXCEPT ![n].handler = "IDLE"] /\ pty' = [pty EXCEPT ![w].writer = n]
  <2>1. HandlerSteps(n, at("IDLE"), taken)
    BY <1>1, <1>6 DEF HandlerSteps
  <2> HIDE DEF taken, at
  <2> QED
    BY <1>1, <1>3, <1>4, <1>5, <1>6, <2>1, HandlerKeeps
<1>7. CASE call' = [call EXCEPT ![n].handler = "REFUSED"] /\ UNCHANGED pty
  <2>1. pty = [pty EXCEPT ![w] = pty[w]]
    BY <1>2
  <2>2. HandlerSteps(n, at("REFUSED"), pty[w])
    BY <1>1, <1>7, <2>1 DEF HandlerSteps
  <2> HIDE DEF at
  <2> QED
    BY <1>1, <1>2, <1>3, <1>4, <2>2, HandlerKeeps
<1> QED
  BY <1>6, <1>7 DEF Accept

LEMMA TypeKeeps ==
  ASSUME SessionInv, NEW n \in Notices, Type(n)
  PROVE  SessionInv'
<1> DEFINE w == call[n].via
           next == [call[n] EXCEPT !.handler = "ECHO"]
           typed == [pty[w] EXCEPT !.line = pty[w].line \cup {n}]
<1>1. /\ call[n].handler = "IDLE" /\ wrapper[w].pc \in Open
      /\ call' = [call EXCEPT ![n] = next] /\ pty' = [pty EXCEPT ![w] = typed]
      /\ UNCHANGED <<runtime, age, path, wrapper, child, scenario>>
  BY DEF Type, Writable, Open
<1>2. call[n] \in Delivery /\ pty[w] \in Terminal
  BY <1>1, DeliveryKnown
<1>3. pty[w].writer = n
  BY <1>1 DEF SessionInv, OneWrites
<1>4. /\ next \in Delivery /\ next.handler = "ECHO" /\ next.via = w /\ next.client = call[n].client
  BY <1>2 DEF Delivery
<1>5. typed \in Terminal /\ typed.writer = n /\ typed.line = pty[w].line \cup {n}
  BY <1>2, <1>3 DEF Terminal
<1>6. HandlerSteps(n, next, typed)
  BY <1>1 DEF HandlerSteps
<1> HIDE DEF next, typed
<1> QED
  BY <1>1, <1>3, <1>4, <1>5, <1>6, HandlerKeeps

LEMMA RefuseKeeps ==
  ASSUME SessionInv, NEW n \in Notices, Refuse(n)
  PROVE  SessionInv'
<1> DEFINE w == call[n].via
           next == [call[n] EXCEPT !.handler = "REFUSED"]
           left == [pty[w] EXCEPT !.writer = None]
<1>1. /\ call[n].handler \in {"IDLE", "ECHO"}
      /\ call' = [call EXCEPT ![n] = next] /\ pty' = [pty EXCEPT ![w] = left]
      /\ UNCHANGED <<runtime, age, path, wrapper, child, scenario>>
  BY DEF Refuse, Conclude
<1>2. call[n] \in Delivery /\ pty[w] \in Terminal
  BY <1>1, DeliveryKnown
<1>3. pty[w].writer = n
  BY <1>1 DEF SessionInv, OneWrites
<1>4. /\ next \in Delivery /\ next.handler = "REFUSED" /\ next.via = w /\ next.client = call[n].client
  BY <1>2 DEF Delivery
<1>5. left \in Terminal /\ left.line = pty[w].line
  BY <1>2 DEF Terminal
<1>6. HandlerSteps(n, next, left)
  BY <1>1 DEF HandlerSteps
<1> HIDE DEF next, left
<1> QED
  BY <1>1, <1>3, <1>4, <1>5, <1>6, HandlerKeeps

\* Everything in the line but the notice itself is of handlers that gave up.
LEMMA EnterKeeps ==
  ASSUME SessionInv, NEW n \in Notices, Enter(n)
  PROVE  SessionInv'
<1> DEFINE w == call[n].via
           next == [call[n] EXCEPT !.handler = "DONE", !.sent = pty[w].line]
           empty == [pty[w] EXCEPT !.line = {}, !.busy = TRUE, !.writer = None]
<1>1. /\ call[n].handler = "ECHO" /\ wrapper[w].pc \in Open
      /\ call' = [call EXCEPT ![n] = next] /\ pty' = [pty EXCEPT ![w] = empty]
      /\ UNCHANGED <<runtime, age, path, wrapper, child, scenario>>
  BY DEF Enter, Writable, Open
<1>2. call[n] \in Delivery /\ w \in Wrappers /\ pty[w] \in Terminal /\ pty[w].line \subseteq Notices
  BY <1>1, DeliveryKnown, LinesHoldNotices
<1>3. pty[w].writer = n /\ n \in pty[w].line
  BY <1>1 DEF SessionInv, OneWrites
<1>4. ASSUME NEW m \in pty[w].line \ {n}
      PROVE  Undelivered(m)
  <2>1. m \in Notices /\ (Undelivered(m) \/ (call[m].handler = "ECHO" /\ call[m].via = w))
    BY <1>2 DEF SessionInv, LinesWritten
  <2>2. call[m].handler = "ECHO" /\ call[m].via = w => pty[w].writer = m
    BY <2>1 DEF SessionInv, OneWrites
  <2> QED
    BY <1>3, <2>1, <2>2
<1>5. /\ next \in Delivery /\ next.handler = "DONE" /\ next.via = w /\ next.client = call[n].client
      /\ next.sent = pty[w].line
  BY <1>2 DEF Delivery
<1>6. empty \in Terminal /\ empty.line = {}
  BY <1>2 DEF Terminal
<1>7. HandlerSteps(n, next, empty)
  BY <1>1 DEF HandlerSteps
<1> HIDE DEF next, empty
<1> QED
  BY <1>1, <1>3, <1>4, <1>5, <1>6, <1>7, HandlerKeeps

\* One delivery is settled on the daemon's side, and no terminal is touched.
LEMMA SettledKeeps ==
  ASSUME SessionInv, NEW n \in Notices, NEW next \in Delivery,
         call' = [call EXCEPT ![n] = next], UNCHANGED <<runtime, age, sessions, scenario>>,
         n \notin scenario.asked,
         \/ next.client = "FAILED" /\ next.handler = call[n].handler /\ next.via = call[n].via
              /\ next.sent = call[n].sent
         \/ next.client = "FAILED" /\ next.handler = "NONE" /\ next.via = None
              /\ call[n].handler \in {"DONE", "REFUSED"}
         \/ next.client = "OK" /\ next.handler = "NONE" /\ next.via = None
              /\ next.sent = call[n].sent /\ call[n].handler = "DONE"
  PROVE  SessionInv'
<1>1. call \in [Notices -> Delivery] /\ pty \in [Wrappers -> Terminal]
  BY DeliveryKnown
<1>2. /\ call' \in [Notices -> Delivery] /\ call'[n] = next
      /\ \A m \in Notices \ {n} : call'[m] = call[m]
      /\ UNCHANGED <<runtime, age, path, wrapper, child, pty, scenario>>
  BY <1>1 DEF sessions
<1>3. OneWrites'
  <2>1. \A m \in Notices \ {n} : call[m].handler \in {"IDLE", "ECHO"} => call[m].via \in Wrappers
    BY DeliveryKnown
  <2>2. call[n].handler \in {"IDLE", "ECHO"} => call[n].via \in Wrappers
    BY DeliveryKnown
  <2> QED
    BY <1>2, <2>1, <2>2 DEF SessionInv, OneWrites
<1>4. \A m \in Notices : Undelivered(m) => Undelivered(m)'
  BY <1>2 DEF Undelivered
<1>5. LinesWritten'
  <2> SUFFICES ASSUME NEW u \in Wrappers, NEW m \in pty[u].line
               PROVE  Undelivered(m)' \/ (call'[m].handler = "ECHO" /\ call'[m].via = u)
    BY <1>2 DEF LinesWritten
  <2>1. m \in Notices /\ (Undelivered(m) \/ (call[m].handler = "ECHO" /\ call[m].via = u))
    BY LinesHoldNotices DEF SessionInv, LinesWritten
  <2> QED
    BY <1>2, <1>4, <2>1
<1>6. SentWhole'
  <2> SUFFICES ASSUME NEW k \in Notices, call'[k].handler = "DONE" \/ call'[k].client = "OK"
               PROVE  k \in call'[k].sent /\ \A m \in call'[k].sent \ {k} : Undelivered(m)'
    BY DEF SentWhole
  <2>1. call'[k].sent = call[k].sent /\ (call[k].handler = "DONE" \/ call[k].client = "OK")
    BY <1>2
  <2>2. call[k].sent \subseteq Notices /\ k \in call[k].sent /\ \A m \in call[k].sent \ {k} : Undelivered(m)
    BY <2>1, LinesHoldNotices DEF SessionInv, SentWhole
  <2> QED
    BY <1>4, <2>1, <2>2
<1>7. scenario' \in [runs : SUBSET Wrappers, asked : SUBSET Notices, faults : Nat]
  BY <1>2 DEF SessionInv, TypeOK
<1> QED
  BY <1>1, <1>2, <1>3, <1>5, <1>6, <1>7, TerminalsKeep

LEMMA AnswerKeeps ==
  ASSUME SessionInv, NEW n \in Notices, Answer(n)
  PROVE  SessionInv'
<1> DEFINE ok == [NoCall EXCEPT !.client = "OK", !.sent = call[n].sent]
           failed == [NoCall EXCEPT !.client = "FAILED"]
<1>1. /\ call[n].handler \in {"DONE", "REFUSED"} /\ UNCHANGED <<runtime, age, sessions, scenario>>
      /\ \/ call[n].handler = "DONE" /\ call' = [call EXCEPT ![n] = ok]
         \/ call' = [call EXCEPT ![n] = failed]
  BY DEF Answer
<1>2. call[n] \in Delivery /\ n \notin scenario.asked
  BY <1>1, DeliveryKnown
<1>3. /\ ok \in Delivery /\ ok.client = "OK" /\ ok.handler = "NONE" /\ ok.via = None /\ ok.sent = call[n].sent
      /\ failed \in Delivery /\ failed.client = "FAILED" /\ failed.handler = "NONE" /\ failed.via = None
  BY <1>2 DEF NoCall, Delivery
<1> HIDE DEF ok, failed
<1> QED
  BY <1>1, <1>2, <1>3, SettledKeeps

LEMMA TimeOutKeeps ==
  ASSUME SessionInv, NEW n \in Notices, TimeOut(n)
  PROVE  SessionInv'
<1> DEFINE next == [call[n] EXCEPT !.client = "FAILED"]
<1>1. /\ call[n].client = "WAITING" /\ call' = [call EXCEPT ![n] = next]
      /\ UNCHANGED <<runtime, age, sessions, scenario>>
  BY DEF TimeOut
<1>2. call[n] \in Delivery /\ n \notin scenario.asked
  BY <1>1, DeliveryKnown DEF SessionInv, OneWrites
<1>3. /\ next \in Delivery /\ next.client = "FAILED" /\ next.handler = call[n].handler
      /\ next.via = call[n].via /\ next.sent = call[n].sent
  BY <1>2 DEF Delivery
<1> HIDE DEF next
<1> QED
  BY <1>1, <1>2, <1>3, SettledKeeps

----------------------------------------------------------------------------
(* Theorems *)

LEMMA NextKeeps ==
  ASSUME SessionInv, [Next]_vars
  PROVE  SessionInv'
<1>1. CASE UNCHANGED vars
  <2>1. UNCHANGED <<runtime, age, path, wrapper, child, pty, call, scenario>>
    BY <1>1 DEF vars, sessions
  <2>2. OneWrites' /\ LinesWritten' /\ SentWhole'
    BY <2>1, CallsStay
  <2>3. pty' \in [Wrappers -> Terminal] /\ call' \in [Notices -> Delivery]
    BY <2>1, Types DEF SessionInv
  <2>4. scenario' \in [runs : SUBSET Wrappers, asked : SUBSET Notices, faults : Nat]
    BY <2>1 DEF SessionInv, TypeOK
  <2> QED
    BY <2>1, <2>2, <2>3, <2>4, TerminalsKeep
<1>2. CASE Tick \/ Operate
  BY <1>2, TickKeeps, OperateKeeps
<1>3. ASSUME NEW w \in Wrappers,
             \/ Run(w) \/ AskToEnd(w) \/ TakenOver(w) \/ Read(w) \/ Register(w) \/ Probe(w)
             \/ Clear(w) \/ Beat(w) \/ Listen(w) \/ Remove(w) \/ Bind(w) \/ Spawn(w) \/ Stop(w)
             \/ Unlink(w) \/ Close(w) \/ Leave(w)
             \/ Heartbeat(w) \/ ProviderEnds(w) \/ Kill(w) \/ Draw(w)
      PROVE  SessionInv'
  <2>1. CASE Run(w) \/ AskToEnd(w) \/ TakenOver(w) \/ Read(w)
    BY <2>1, RunKeeps, AskToEndKeeps, TakenOverKeeps, ReadKeeps
  <2>2. CASE Register(w) \/ Probe(w) \/ Clear(w) \/ Beat(w)
    BY <2>2, RegisterKeeps, ProbeKeeps, BeatKeeps
  <2>3. CASE Listen(w) \/ Remove(w) \/ Bind(w) \/ Spawn(w) \/ Stop(w)
    BY <2>3, ListenKeeps, RemoveKeeps, BindKeeps, SpawnKeeps, StopKeeps
  <2>4. CASE Unlink(w) \/ Close(w) \/ Leave(w) \/ Kill(w)
    BY <2>4, RemoveKeeps, BindKeeps, LeaveKeeps, KillKeeps
  <2>5. CASE Heartbeat(w) \/ ProviderEnds(w) \/ Draw(w)
    BY <2>5, HeartbeatKeeps, ProviderEndsKeeps, DrawKeeps
  <2> QED
    BY <1>3, <2>1, <2>2, <2>3, <2>4, <2>5
<1>4. ASSUME NEW n \in Notices,
             Dial(n) \/ Accept(n) \/ Type(n) \/ Refuse(n) \/ Enter(n) \/ Answer(n) \/ TimeOut(n)
      PROVE  SessionInv'
  BY <1>4, DialKeeps, AcceptKeeps, TypeKeeps, RefuseKeeps, EnterKeeps, AnswerKeeps, TimeOutKeeps
<1> QED
  BY <1>1, <1>2, <1>3, <1>4 DEF Next

LEMMA SessionInvHolds == Spec => []SessionInv
<1>1. Init => SessionInv
  BY InitHolds
<1>2. SessionInv /\ [Next]_vars => SessionInv'
  BY NextKeeps
<1> QED
  BY <1>1, <1>2, PTL DEF Spec

\* Every variable keeps its type: the record, the ages and timers within their
\* intervals, every wrapper, terminal and delivery (cmd_runtime.go, protocol_unix.go).
THEOREM SessionTypesHold == Spec => []TypeOK
<1>1. SessionInv => TypeOK
  BY DEF SessionInv
<1> QED
  BY <1>1, SessionInvHolds, PTL

\* A delivery that the daemon counts as made was submitted whole by its own Enter
\* and shared the line with none that counts as made too, however many runs,
\* takeovers, kills and lost answers there are: one handler writes at a time, and
\* what a handler that gave up has left in the line stays refused.
THEOREM DeliveriesAreWhole == Spec => []DeliveredWhole
<1>1. SessionInv => DeliveredWhole
  BY LinesHoldNotices DEF SessionInv, SentWhole, DeliveredWhole, Undelivered
<1> QED
  BY <1>1, SessionInvHolds, PTL

LEMMA LostStays ==
  ASSUME SessionInv, NEW u \in Wrappers, NEW next \in WrapperRecord,
         next.lost => wrapper[u].lost, wrapper' = [wrapper EXCEPT ![u] = next]
  PROVE  \A w \in Wrappers : wrapper'[w].lost => wrapper[w].lost
<1>1. wrapper \in [Wrappers -> WrapperRecord]
  BY Types DEF SessionInv
<1> QED
  BY <1>1

\* No step of a command but its heartbeat withdraws its session.
LEMMA OnlyHeartbeatsLose ==
  ASSUME SessionInv, NEW u \in Wrappers,
         \/ Run(u) \/ AskToEnd(u) \/ TakenOver(u) \/ Read(u) \/ Register(u) \/ Probe(u)
         \/ Clear(u) \/ Beat(u) \/ Listen(u) \/ Remove(u) \/ Bind(u) \/ Spawn(u) \/ Stop(u)
         \/ Unlink(u) \/ Close(u) \/ Leave(u) \/ ProviderEnds(u) \/ Kill(u) \/ Draw(u)
  PROVE  \A w \in Wrappers : wrapper'[w].lost => wrapper[w].lost
<1>1. wrapper \in [Wrappers -> WrapperRecord] /\ wrapper[u] \in WrapperRecord
  BY Types DEF SessionInv
<1>2. ASSUME NEW s \in Steps, Walks(u, s)
      PROVE  \A w \in Wrappers : wrapper'[w].lost => wrapper[w].lost
  BY <1>2 DEF Walks
<1>3. ASSUME NEW s \in Steps, Goto(u, s) \/ Proceed(u, s)
      PROVE  \A w \in Wrappers : wrapper'[w].lost => wrapper[w].lost
  BY <1>2, <1>3, GotoWalks, ProceedWalks DEF SessionInv
<1>4. ASSUME NEW v \in Wrappers
      PROVE  \A w \in Wrappers : Killed(v)[w].lost => wrapper[w].lost
  <2>1. Killed(v) = [wrapper EXCEPT ![v] = [NoWrapper EXCEPT !.pc = "DEAD"]]
    BY DEF Killed
  <2>2. ~[NoWrapper EXCEPT !.pc = "DEAD"].lost
    BY DEF NoWrapper
  <2> QED
    BY <1>1, <2>1, <2>2
<1>5. CASE Register(u) \/ Probe(u) \/ Clear(u) \/ Beat(u) \/ Listen(u) \/ Remove(u) \/ Spawn(u) \/ Stop(u) \/ Unlink(u)
  <2>1. \E s \in Steps : Goto(u, s) \/ Proceed(u, s)
    <3>1. CASE Register(u) \/ Probe(u) \/ Clear(u) \/ Beat(u)
      BY <3>1, AllSteps DEF Register, Probe, Clear, Beat
    <3>2. CASE Listen(u) \/ Remove(u) \/ Spawn(u) \/ Stop(u) \/ Unlink(u)
      BY <3>2, AllSteps DEF Listen, Remove, Spawn, Stop, Unlink
    <3> QED
      BY <1>5, <3>1, <3>2
  <2> QED
    BY <1>3, <2>1
<1>6. CASE Run(u)
  <2>1. PICK t \in Takeovers \cup {None} :
          wrapper' = [wrapper EXCEPT ![u].target = t, ![u].pc = IF t = None THEN "READ" ELSE "TAKEOVER"]
    BY <1>6 DEF Run
  <2> QED
    BY <1>1, <2>1 DEF WrapperRecord
<1>7. CASE Read(u)
  <2>1. PICK saw, s : wrapper' = [wrapper EXCEPT ![u].target = None, ![u].saw = saw, ![u].pc = s]
    BY <1>7 DEF Read
  <2> QED
    BY <1>1, <2>1 DEF WrapperRecord
<1>8. CASE Bind(u) \/ Close(u)
  <2>1. \/ Goto(u, "LEAVE")
        \/ wrapper' = [wrapper EXCEPT ![u].pc = "SPAWN", ![u].open = TRUE]
        \/ wrapper' = [wrapper EXCEPT ![u].pc = "LEAVE", ![u].open = FALSE]
    BY <1>8 DEF Bind, Close
  <2>2. CASE Goto(u, "LEAVE")
    BY <1>3, <2>2, AllSteps
  <2>3. CASE \/ wrapper' = [wrapper EXCEPT ![u].pc = "SPAWN", ![u].open = TRUE]
             \/ wrapper' = [wrapper EXCEPT ![u].pc = "LEAVE", ![u].open = FALSE]
    BY <1>1, <2>3 DEF WrapperRecord
  <2> QED
    BY <2>1, <2>2, <2>3
<1>9. CASE Leave(u) \/ Kill(u)
  <2>1. \/ wrapper' = [wrapper EXCEPT ![u] = [NoWrapper EXCEPT !.pc = "DONE"]]
        \/ wrapper' = Killed(u)
    BY <1>9 DEF Leave, Kill
  <2>2. ~[NoWrapper EXCEPT !.pc = "DONE"].lost
    BY DEF NoWrapper
  <2> QED
    BY <1>1, <1>4, <2>1, <2>2
<1>10. CASE ProviderEnds(u) \/ Draw(u)
  BY <1>10 DEF ProviderEnds, Draw
<1>11. CASE AskToEnd(u) \/ TakenOver(u)
  <2> DEFINE v == wrapper[u].target[3]
  <2>1. v \in Wrappers \ {u}
    BY <1>11, TargetsAreOthers DEF AskToEnd, TakenOver
  <2>2. \/ \E s \in {"ASKED", "READ"} : Goto(u, s)
        \/ \E s \in {"ASKED", "READ"} : wrapper' = [Killed(v) EXCEPT ![u].pc = s]
        \/ wrapper' = [Terminated(v) EXCEPT ![u].pc = "ASKED"]
    BY <1>11 DEF AskToEnd, TakenOver
  <2> HIDE DEF v
  <2>3. ASSUME NEW s, wrapper' = [Killed(v) EXCEPT ![u].pc = s]
        PROVE  \A w \in Wrappers : wrapper'[w].lost => wrapper[w].lost
    <3> DEFINE others == Killed(v)
    <3>1. /\ others \in [Wrappers -> WrapperRecord]
          /\ \A w \in Wrappers : others[w].lost => wrapper[w].lost
      BY <1>4, <2>1, Killing
    <3>2. wrapper' = [others EXCEPT ![u].pc = s]
      BY <2>3
    <3> HIDE DEF others
    <3> QED
      BY <3>1, <3>2 DEF WrapperRecord
  <2>4. CASE wrapper' = [Terminated(v) EXCEPT ![u].pc = "ASKED"]
    <3>1. CASE wrapper[v].pc = "SERVE"
      <4> DEFINE others == [wrapper EXCEPT ![v].pc = "STOP"]
      <4>1. wrapper' = [others EXCEPT ![u].pc = "ASKED"]
        BY <2>4, <3>1 DEF Terminated
      <4>2. /\ others \in [Wrappers -> WrapperRecord]
            /\ \A w \in Wrappers : others[w].lost = wrapper[w].lost
        BY <1>1, AllSteps DEF WrapperRecord
      <4> HIDE DEF others
      <4> QED
        BY <4>1, <4>2 DEF WrapperRecord
    <3>2. CASE wrapper[v].pc = "STOP"
      BY <1>1, <2>4, <3>2 DEF Terminated, WrapperRecord
    <3>3. CASE wrapper[v].pc \notin {"SERVE", "STOP"}
      BY <2>3, <2>4, <3>3 DEF Terminated
    <3> QED
      BY <3>1, <3>2, <3>3
  <2>5. {"ASKED", "READ"} \subseteq Steps
    BY AllSteps
  <2> QED
    BY <1>3, <2>2, <2>3, <2>4, <2>5
<1> QED
  BY <1>5, <1>6, <1>7, <1>8, <1>9, <1>10, <1>11

\* A heartbeat that comes in time after the session's own is not refused.
LEMMA OwnBeatIsNotRefused ==
  ASSUME SessionInv, NEW w \in Wrappers, Beating(w), wrapper[w].timer = Period, ~HeartbeatAllowed
  PROVE  \/ runtime.status \in {"DRAINING", "REVOKED"}
         \/ runtime.status = "ONLINE" /\ runtime.endpoint # w
<1>1. runtime.status # "ABSENT" /\ runtime.status \in Statuses
  <2>1. wrapper[w].pc \notin Unregistered
    BY DEF Beating, Serving, Unregistered
  <2> QED
    BY <2>1, Types DEF SessionInv, RuntimeKnown, Record
<1>2. ASSUME runtime.status = "ONLINE", runtime.endpoint = w
      PROVE  FALSE
  <2>1. age >= Period /\ age \in 0 .. OfflineAfter
    BY <1>2, Types DEF SessionInv, OwnBeatShown
  <2>2. age >= MinInterval
    BY <2>1, Numbers
  <2> QED
    BY <1>2, <2>2 DEF HeartbeatAllowed
<1>3. runtime.status # "OFFLINE"
  BY DEF HeartbeatAllowed
<1> QED
  BY <1>1, <1>2, <1>3 DEF Statuses

LEMMA LostForRival ==
  ASSUME SessionInv, [Next]_vars, NEW w \in Wrappers,
         ~wrapper[w].lost, wrapper'[w].lost, scenario' = scenario
  PROVE  \/ runtime.status \in {"DRAINING", "REVOKED"}
         \/ runtime.status = "ONLINE" /\ runtime.endpoint # w
<1>1. wrapper \in [Wrappers -> WrapperRecord] /\ scenario.faults \in Nat
  BY Types DEF SessionInv, TypeOK
<1>2. ~Fault
  BY <1>1 DEF Fault, SessionInv, TypeOK
<1>3. \E u \in Wrappers : Heartbeat(u)
  <2>1. CASE UNCHANGED vars
    BY <2>1 DEF vars, sessions
  <2>2. CASE Tick
    BY <1>1, <2>2 DEF Tick, WrapperRecord
  <2>3. CASE Operate
    BY <2>3 DEF Operate, sessions
  <2>4. CASE \E u \in Wrappers :
               \/ Run(u) \/ AskToEnd(u) \/ TakenOver(u) \/ Read(u) \/ Register(u) \/ Probe(u)
               \/ Clear(u) \/ Beat(u) \/ Listen(u) \/ Remove(u) \/ Bind(u) \/ Spawn(u) \/ Stop(u)
               \/ Unlink(u) \/ Close(u) \/ Leave(u) \/ ProviderEnds(u) \/ Kill(u) \/ Draw(u)
    BY <2>4, OnlyHeartbeatsLose
  <2>5. CASE \E n \in Notices :
               Dial(n) \/ Accept(n) \/ Type(n) \/ Refuse(n) \/ Enter(n) \/ Answer(n) \/ TimeOut(n)
    BY <2>5 DEF Dial, Accept, Type, Refuse, Enter, Answer, TimeOut, sessions
  <2> QED
    BY <2>1, <2>2, <2>3, <2>4, <2>5 DEF Next
<1>4. PICK u \in Wrappers : Heartbeat(u)
  BY <1>3
<1>5. /\ Beating(u) /\ wrapper[u].timer = Period
      /\ \/ wrapper' = [wrapper EXCEPT ![u].timer = 0]
         \/ ~HeartbeatAllowed /\ wrapper' = [wrapper EXCEPT ![u].timer = 0, ![u].lost = TRUE]
  BY <1>2, <1>4 DEF Heartbeat
<1>6. u = w /\ ~HeartbeatAllowed
  BY <1>1, <1>5 DEF WrapperRecord
<1> QED
  BY <1>5, <1>6, OwnBeatIsNotRefused

\* A session that is withdrawn without a failure is withdrawn because the runtime
\* was drained or revoked, or because another session is shown: its own heartbeats
\* are never so close that one of them is refused (transitions.go, the rate limit).
THEOREM SessionsYieldToRivals == Spec => StopsOnlyForRival
<1>1. SessionInv /\ [Next]_vars
        => [\A w \in Wrappers :
              /\ ~wrapper[w].lost /\ wrapper'[w].lost /\ scenario' = scenario
              => \/ runtime.status \in {"DRAINING", "REVOKED"}
                 \/ runtime.status = "ONLINE" /\ runtime.endpoint # w]_vars
  BY LostForRival
<1> QED
  BY <1>1, SessionInvHolds, PTL DEF Spec, StopsOnlyForRival

=============================================================================
