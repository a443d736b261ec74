-------------------------- MODULE LiveBrokerProofs --------------------------
(***************************************************************************)
(* Proofs about LiveBroker for any number of calls, runtimes, brokers,     *)
(* processes and faults.  BrokerInv says who holds a broker's mutex and    *)
(* turnMu, which process an object has, what is known of its end, and what *)
(* is in the pipes between turns; it is inductive.                         *)
(***************************************************************************)
EXTENDS LiveBroker, SequenceTheorems, TLAPS

----------------------------------------------------------------------------
(* The inductive invariant *)

Present == {"UP", "STOPPING", "CLOSED"}
TurnStates == {"SEND", "READ", "RESTART", "RESUME"}
CallsOf(r) == {c \in Calls : RuntimeOf[c] = r}
LinesOf(r) == [of : CallsOf(r), ok : BOOLEAN]

\* A handler is in a broker that is there, and in one place.
HandlersPlaced ==
  /\ \A c \in Calls :
       /\ handler[c] = "NONE" <=> via[c] = 0
       /\ handler[c] # "NONE" => broker[via[c]] \in Present
       /\ client[c] \in {"NEW", "PROMPT"} => handler[c] = "NONE"
       /\ client[c] = "REGISTER" => handler[c] \in {"NONE", "HANDSHAKE"}
  /\ \A s \in Slots : broker[s[1]] \in {"NONE", "GONE"} => slot[s] = NoProcess

\* The broker's mutex is held by the handshake under way.
HandshakesLock ==
  /\ \A c \in Calls : handler[c] = "HANDSHAKE" =>
       /\ lock[via[c]] = c
       /\ broker[via[c]] # "CLOSED"
       /\ Object(c).current # 0
       /\ Object(c).config = setup[c]
       /\ ~Object(c).registered
  /\ \A b \in Brokers : lock[b] # None => handler[lock[b]] = "HANDSHAKE" /\ via[lock[b]] = b

\* turnMu is held by the handler whose turn it is.
TurnsHeld ==
  /\ \A c \in Calls :
       /\ handler[c] \in TurnStates => Object(c).turn = c
       /\ handler[c] = "RESTART" => Object(c).dead
       /\ handler[c] \in {"QUEUED"} \cup TurnStates =>
            Object(c).current # 0 /\ (Object(c).registered \/ broker[via[c]] = "CLOSED")
  /\ \A s \in Slots :
       /\ slot[s].turn # None => handler[slot[s].turn] \in TurnStates /\ Slot(slot[s].turn) = s
       /\ slot[s].registered => slot[s].current # 0

\* An object has the last process that was started for it.
ProcessesNumbered ==
  /\ \A s \in Slots : slot[s].current # 0 =>
       /\ slot[s].current \in 1 .. made
       /\ process[slot[s].current].slot = s
       /\ process[slot[s].current].config = slot[s].config
  /\ \A g \in Processes : IF g > made THEN process[g] = NotStarted ELSE process[g].slot \in Slots

\* No other process of an object's is alive, and none of one that was given up.
LastIsAlive ==
  /\ \A g \in Processes : process[g].alive /\ broker[process[g].slot[1]] # "GONE" =>
       slot[process[g].slot].current = g
  /\ \A s \in Slots :
       /\ slot[s].dead => slot[s].current # 0 /\ ~process[slot[s].current].alive
       /\ /\ broker[s[1]] \in {"UP", "STOPPING"}
          /\ ~slot[s].registered /\ slot[s].current # 0 /\ process[slot[s].current].alive
          => lock[s[1]] # None /\ RuntimeOf[lock[s[1]]] = s[2]

EndsKnown ==
  /\ \A g \in Processes :
       /\ ~process[g].alive => process[g].inbox = <<>>
       /\ process[g].ended /\ process[g].alive => broker[process[g].slot[1]] = "GONE"
  /\ \A s \in Slots : slot[s].current # 0 /\ process[slot[s].current].ended => slot[s].dead

\* claudeserve: what is in the pipes of a process belongs to the turn that reads it.
PipesClean ==
  protocol = "STREAM" =>
    /\ \A s \in Slots :
         /\ slot[s].events = <<>> /\ ~slot[s].cut
         /\ slot[s].current # 0 /\ ~slot[s].dead /\ ~Subscribed(s) =>
              process[slot[s].current].inbox = <<>> /\ process[slot[s].current].out = <<>>
    /\ \A c \in Calls : handler[c] = "READ" =>
         \/ Current(c).inbox = <<>> /\ Current(c).out = <<>>
         \/ Current(c).inbox = <<c>> /\ Current(c).out = <<>>
         \/ Current(c).inbox = <<>> /\ \E ok \in BOOLEAN : Current(c).out = <<[of |-> c, ok |-> ok]>>

RuntimesApart ==
  /\ \A g \in Processes : process[g].slot # None =>
       /\ process[g].inbox \in Seq(CallsOf(process[g].slot[2]))
       /\ process[g].out \in Seq(LinesOf(process[g].slot[2]))
  /\ \A s \in Slots : slot[s].events \in Seq(LinesOf(s[2]))

\* What a broker accepted stays as it is for as long as the broker lives.
AcceptedStays ==
  \A c \in Calls : seen[c] # 0 /\ broker[seen[c]] # "GONE" =>
    /\ slot[<<seen[c], RuntimeOf[c]>>].config = setup[c]
    /\ slot[<<seen[c], RuntimeOf[c]>>].registered \/ broker[seen[c]] # "UP"

BrokerInv ==
  /\ BrokerTypeOK
  /\ HandlersPlaced
  /\ HandshakesLock
  /\ TurnsHeld
  /\ ProcessesNumbered
  /\ LastIsAlive
  /\ EndsKnown
  /\ PipesClean
  /\ RuntimesApart
  /\ AcceptedStays

----------------------------------------------------------------------------
(* Queues *)

LEMMA QueueFacts ==
  ASSUME NEW S, NEW q \in Seq(S)
  PROVE  /\ <<>> \in Seq(S)
         /\ \A x \in S : Append(q, x) \in Seq(S)
         /\ q # <<>> => Head(q) \in S /\ Tail(q) \in Seq(S)
  BY EmptySeq, AppendProperties, HeadTailProperties

LEMMA QueueOfOne ==
  ASSUME NEW x
  PROVE  <<x>> # <<>> /\ Head(<<x>>) = x /\ Tail(<<x>>) = <<>> /\ Append(<<>>, x) = <<x>>
  OBVIOUS

\* A prompt is written when its queue grows by it, and never otherwise.
LEMMA AppendGrows ==
  ASSUME NEW S, NEW q \in Seq(S), NEW x \in S
  PROVE  /\ Append(q, x) # q /\ Append(q, x) # <<>>
         /\ q # <<>> => Append(q, x) # Tail(q)
         /\ \A y \in S : Append(q, x) = Append(q, y) => x = y
<1>1. Len(Append(q, x)) = Len(q) + 1 /\ Len(q) \in Nat
  BY AppendProperties, LenProperties
<1>2. q # <<>> => Len(Tail(q)) = Len(q) - 1
  BY HeadTailProperties
<1>3. Append(q, x)[Len(q) + 1] = x /\ \A y \in S : Append(q, y)[Len(q) + 1] = y
  BY AppendProperties
<1> QED
  BY <1>1, <1>2, <1>3

LEMMA MembersOfLines ==
  ASSUME NEW r
  PROVE  CallsOf(r) \subseteq Calls /\ Seq(CallsOf(r)) \subseteq Seq(Calls) /\ Seq(LinesOf(r)) \subseteq Seq(Line)
<1>1. CallsOf(r) \subseteq Calls /\ LinesOf(r) \subseteq Line
  BY DEF CallsOf, LinesOf, Line
<1> QED
  BY <1>1, SeqDef

----------------------------------------------------------------------------
(* Initial states *)

LEMMA InitHolds ==
  ASSUME Init
  PROVE  BrokerInv
<1> USE DEF Init, NoProcess, NotStarted
<1>1. BrokerTypeOK
  BY BoundsAreNumbers, EmptySeq DEF BrokerTypeOK, Brokers, Processes, Slots, ObjectRecord, ProcessRecord
<1>2. HandlersPlaced /\ HandshakesLock /\ TurnsHeld
  BY DEF HandlersPlaced, HandshakesLock, TurnsHeld, TurnStates, Slots
<1>3. ProcessesNumbered /\ LastIsAlive /\ EndsKnown
  BY DEF ProcessesNumbered, LastIsAlive, EndsKnown, Processes
<1>4. PipesClean /\ AcceptedStays
  BY DEF PipesClean, AcceptedStays
<1>5. RuntimesApart
  BY EmptySeq DEF RuntimesApart
<1> QED
  BY <1>1, <1>2, <1>3, <1>4, <1>5 DEF BrokerInv

----------------------------------------------------------------------------
(* Where a handler, its object and its process are *)

LEMMA Places ==
  ASSUME BrokerInv, NEW c \in Calls, handler[c] # "NONE"
  PROVE  /\ via[c] \in Brokers /\ broker[via[c]] \in Present
         /\ Slot(c) \in Slots /\ Slot(c)[1] = via[c] /\ Slot(c)[2] = RuntimeOf[c]
         /\ Object(c) = slot[Slot(c)] /\ Object(c) \in ObjectRecord
         /\ Object(c).current \in Processes /\ Object(c).current \in 1 .. made
         /\ Current(c) = process[Object(c).current] /\ Current(c) \in ProcessRecord
         /\ Current(c).slot = Slot(c) /\ Current(c).config = Object(c).config
<1>1. via[c] \in Brokers /\ broker[via[c]] \in Present
  BY DEF BrokerInv, HandlersPlaced, BrokerTypeOK, Brokers
<1>2. Slot(c) \in Slots /\ Slot(c)[1] = via[c] /\ Slot(c)[2] = RuntimeOf[c]
  BY <1>1, CallsHaveRuntimes DEF Slot, Slots
<1>3. Object(c) = slot[Slot(c)] /\ Object(c) \in ObjectRecord
  BY <1>2 DEF Object, Slot, BrokerInv, BrokerTypeOK
<1>4. Object(c).current # 0
  BY DEF BrokerInv, HandshakesLock, TurnsHeld, BrokerTypeOK, TurnStates
<1>5. /\ Object(c).current \in 1 .. made /\ process[Object(c).current].slot = Slot(c)
      /\ process[Object(c).current].config = Object(c).config
  BY <1>2, <1>3, <1>4 DEF BrokerInv, ProcessesNumbered
<1>6. Object(c).current \in Processes
  BY <1>5, BoundsAreNumbers DEF BrokerInv, BrokerTypeOK, Processes
<1> QED
  BY <1>1, <1>2, <1>3, <1>5, <1>6 DEF Current, BrokerInv, BrokerTypeOK

LEMMA AliveIsStarted ==
  ASSUME BrokerInv, NEW g \in Processes, process[g].slot # None \/ process[g].alive
  PROVE  g \in 1 .. made /\ process[g].slot \in Slots /\ process[g].slot # None
<1>1. None \notin Slots
  BY NoneIsNoValue
<1>2. g \in Nat /\ made \in Nat /\ g >= 1
  BY BoundsAreNumbers DEF Processes, BrokerInv, BrokerTypeOK
<1>3. ~(g > made)
  BY DEF BrokerInv, ProcessesNumbered, NotStarted
<1> QED
  BY <1>1, <1>2, <1>3 DEF BrokerInv, ProcessesNumbered

LEMMA ObjectFields ==
  ASSUME BrokerInv, NEW s \in Slots
  PROVE  /\ slot[s] \in ObjectRecord /\ slot[s].turn \in Calls \cup {None}
         /\ slot[s].registered \in BOOLEAN /\ slot[s].dead \in BOOLEAN /\ slot[s].cut \in BOOLEAN
         /\ slot[s].config \in Configs \cup {None} /\ slot[s].events \in Seq(Line)
         /\ slot[s].current \in 0 .. MaxProcesses
         /\ slot[s].current # 0 => slot[s].current \in Processes /\ slot[s].current \in 1 .. made
         /\ s = <<s[1], s[2]>> /\ s[1] \in Brokers /\ s[2] \in Runtimes
<1>1. slot[s] \in ObjectRecord
  BY DEF BrokerInv, BrokerTypeOK
<1>2. slot[s].current \in 0 .. MaxProcesses
  BY <1>1 DEF ObjectRecord
<1>3. slot[s].current # 0 => slot[s].current \in 1 .. made
  BY DEF BrokerInv, ProcessesNumbered
<1>4. slot[s].current # 0 => slot[s].current \in Processes
  BY <1>2, BoundsAreNumbers DEF Processes
<1>5. s = <<s[1], s[2]>> /\ s[1] \in Brokers /\ s[2] \in Runtimes
  BY DEF Slots
<1> QED
  BY <1>1, <1>2, <1>3, <1>4, <1>5 DEF ObjectRecord

LEMMA TurnHolder ==
  ASSUME BrokerInv, NEW s \in Slots, slot[s].turn # None
  PROVE  slot[s].turn \in Calls /\ handler[slot[s].turn] \in TurnStates /\ Slot(slot[s].turn) = s
  BY ObjectFields DEF BrokerInv, TurnsHeld

----------------------------------------------------------------------------
(* Callers *)

\* Whatever leaves objects, processes and those who read alone leaves the pipes alone.
LEMMA PipesStay ==
  ASSUME PipesClean, UNCHANGED <<protocol, slot, process>>,
         \A c \in Calls : /\ handler'[c] = "READ" <=> handler[c] = "READ"
                          /\ handler[c] = "READ" => via'[c] = via[c]
  PROVE  PipesClean'
<1>1. \A c \in Calls : handler[c] = "READ" => Current(c)' = Current(c)
  BY DEF Current, Object
<1>2. \A s : Subscribed(s)' <=> Subscribed(s)
  BY DEF Subscribed
<1> QED
  BY <1>1, <1>2 DEF PipesClean

LEMMA EnsureServerKeeps ==
  ASSUME BrokerInv, NEW c \in Calls, EnsureServer(c)
  PROVE  BrokerInv'
<1>1. \A b \in Brokers : broker'[b] = broker[b] \/ (broker[b] = "NONE" /\ broker'[b] = "UP")
  BY DEF EnsureServer, BrokerInv, BrokerTypeOK
<1>2. BrokerTypeOK'
  BY DEF EnsureServer, BrokerInv, BrokerTypeOK, owned
<1>3. UNCHANGED <<protocol, setup, lock, slot, process, made, handler, via, seen, answer>>
  BY DEF EnsureServer, owned
<1>4. \A s \in Slots : s[1] \in Brokers /\ (broker[s[1]] = "NONE" => slot[s] = NoProcess)
  BY DEF BrokerInv, HandlersPlaced, Slots
<1>5. HandlersPlaced' /\ HandshakesLock' /\ TurnsHeld'
  <2>1. client' = [client EXCEPT ![c] = "REGISTER"] /\ client[c] = "NEW"
    BY DEF EnsureServer
  <2>2. \A a \in Calls : via[a] # 0 => via[a] \in Brokers
    BY DEF BrokerInv, BrokerTypeOK, Brokers
  <2>3. HandlersPlaced'
    BY <1>1, <1>3, <1>4, <2>1, <2>2 DEF BrokerInv, BrokerTypeOK, HandlersPlaced, Present
  <2>4. HandshakesLock'
    BY <1>1, <1>3, <1>4, <2>2 DEF BrokerInv, HandshakesLock, HandlersPlaced, Object
  <2>5. TurnsHeld'
    BY <1>1, <1>3, <1>4, <2>2 DEF BrokerInv, TurnsHeld, TurnStates, HandlersPlaced, Object, Slot, Present
  <2> QED
    BY <2>3, <2>4, <2>5
<1>6. ProcessesNumbered' /\ RuntimesApart' /\ PipesClean'
  BY <1>3, PipesStay DEF BrokerInv, ProcessesNumbered, RuntimesApart
<1>7. LastIsAlive' /\ EndsKnown'
  <2>1. \A g \in Processes : process[g].alive => process[g].slot \in Slots
    BY AliveIsStarted
  <2> QED
    BY <1>1, <1>3, <1>4, <2>1 DEF BrokerInv, LastIsAlive, EndsKnown, NoProcess
<1>8. AcceptedStays'
  <2> SUFFICES ASSUME NEW a \in Calls, seen[a] # 0, broker'[seen[a]] # "GONE"
               PROVE  /\ slot[<<seen[a], RuntimeOf[a]>>].config = setup[a]
                      /\ slot[<<seen[a], RuntimeOf[a]>>].registered \/ broker'[seen[a]] # "UP"
    BY <1>3 DEF AcceptedStays
  <2>0. seen[a] \in Brokers
    BY BoundsAreNumbers DEF BrokerInv, BrokerTypeOK, Brokers
  <2>1. <<seen[a], RuntimeOf[a]>> \in Slots /\ <<seen[a], RuntimeOf[a]>>[1] = seen[a]
    BY <2>0, CallsHaveRuntimes DEF Slots
  <2>2. setup[a] # None
    BY CallsHaveRuntimes, NoneIsNoValue DEF BrokerInv, BrokerTypeOK
  <2> QED
    BY <1>1, <1>4, <2>0, <2>1, <2>2 DEF BrokerInv, AcceptedStays, NoProcess
<1> QED
  BY <1>2, <1>5, <1>6, <1>7, <1>8 DEF BrokerInv

LEMMA GiveUpKeeps ==
  ASSUME BrokerInv, NEW c \in Calls, GiveUp(c)
  PROVE  BrokerInv'
<1>1. client' = [client EXCEPT ![c] = "FAILED"] /\ UNCHANGED <<service, owned, handler, via, seen, answer, faults>>
  BY DEF GiveUp
<1>2. BrokerTypeOK' /\ HandlersPlaced'
  BY <1>1 DEF BrokerInv, BrokerTypeOK, HandlersPlaced, service, owned
<1>3. HandshakesLock' /\ TurnsHeld'
  BY <1>1 DEF BrokerInv, HandshakesLock, TurnsHeld, Object, Slot, service, owned
<1>4. ProcessesNumbered' /\ LastIsAlive' /\ EndsKnown'
  BY <1>1 DEF BrokerInv, ProcessesNumbered, LastIsAlive, EndsKnown, service, owned
<1>5. PipesClean' /\ RuntimesApart' /\ AcceptedStays'
  BY <1>1, PipesStay DEF BrokerInv, RuntimesApart, AcceptedStays, service, owned
<1> QED
  BY <1>2, <1>3, <1>4, <1>5 DEF BrokerInv

LEMMA ReuseKeeps ==
  ASSUME BrokerInv, NEW c \in Calls, NEW b \in Brokers, Reuse(c, b)
  PROVE  BrokerInv'
<1>1. /\ client' \in {[client EXCEPT ![c] = "PROMPT"], [client EXCEPT ![c] = "FAILED"]}
      /\ handler[c] = "NONE" /\ slot[<<b, RuntimeOf[c]>>].registered
      /\ \/ seen' = seen
         \/ seen' = [seen EXCEPT ![c] = b] /\ slot[<<b, RuntimeOf[c]>>].config = setup[c]
      /\ UNCHANGED <<service, owned, handler, via, answer, faults>>
  BY DEF Reuse
<1>2. BrokerTypeOK' /\ HandlersPlaced'
  <2>1. b \in 0 .. MaxBrokers
    BY BoundsAreNumbers DEF Brokers
  <2> QED
    BY <1>1, <2>1 DEF BrokerInv, BrokerTypeOK, HandlersPlaced, service, owned
<1>3. HandshakesLock' /\ TurnsHeld'
  BY <1>1 DEF BrokerInv, HandshakesLock, TurnsHeld, Object, Slot, service, owned
<1>4. ProcessesNumbered' /\ LastIsAlive' /\ EndsKnown'
  BY <1>1 DEF BrokerInv, ProcessesNumbered, LastIsAlive, EndsKnown, service, owned
<1>5. PipesClean' /\ RuntimesApart'
  BY <1>1, PipesStay DEF BrokerInv, RuntimesApart, service, owned
<1>6. AcceptedStays'
  BY <1>1 DEF BrokerInv, BrokerTypeOK, AcceptedStays, service, owned
<1> QED
  BY <1>2, <1>3, <1>4, <1>5, <1>6 DEF BrokerInv

LEMMA PromptKeeps ==
  ASSUME BrokerInv, NEW c \in Calls, NEW b \in Brokers, Prompt(c, b)
  PROVE  BrokerInv'
<1> DEFINE s == <<b, RuntimeOf[c]>>
<1>0. handler[c] = "NONE"
  BY DEF Prompt, BrokerInv, HandlersPlaced
<1>1. /\ broker[b] = "UP"
      /\ UNCHANGED <<service, owned, seen, answer, faults>>
      /\ \/ /\ slot[s].registered
            /\ client' = [client EXCEPT ![c] = "WAITING"]
            /\ handler' = [handler EXCEPT ![c] = "QUEUED"]
            /\ via' = [via EXCEPT ![c] = b]
         \/ client' = [client EXCEPT ![c] = "FAILED"] /\ UNCHANGED <<handler, via>>
  BY DEF Prompt, Listening
<1>2. BrokerTypeOK'
  <2>1. b \in 0 .. MaxBrokers
    BY BoundsAreNumbers DEF Brokers
  <2> QED
    BY <1>1, <2>1 DEF BrokerInv, BrokerTypeOK, service, owned
<1>3. HandlersPlaced'
  <2>1. b # 0
    BY DEF Brokers
  <2> QED
    BY <1>0, <1>1, <2>1 DEF BrokerInv, BrokerTypeOK, HandlersPlaced, Present, service, owned
<1>4. \A a \in Calls \ {c} : handler'[a] = handler[a] /\ via'[a] = via[a]
  BY <1>1 DEF BrokerInv, BrokerTypeOK
<1>5. handler'[c] = "NONE" \/ (handler'[c] = "QUEUED" /\ via'[c] = b /\ slot[s].registered)
  <2> HIDE DEF s
  <2> QED
  BY <1>0, <1>1 DEF BrokerInv, BrokerTypeOK
<1>6. HandshakesLock'
  <2>1. UNCHANGED <<lock, slot, broker, setup>>
    BY <1>1 DEF service, owned
  <2>2. \A a \in Brokers : lock[a] # None => lock[a] \in Calls \ {c}
    BY <1>0 DEF BrokerInv, BrokerTypeOK, HandshakesLock
  <2> QED
    BY <1>4, <1>5, <2>1, <2>2 DEF BrokerInv, HandshakesLock, Object
<1>7. TurnsHeld'
  <2>0. s \in Slots
    BY CallsHaveRuntimes DEF Slots
  <2>1. UNCHANGED <<slot, broker>>
    BY <1>1 DEF service, owned
  <2>2. \A t \in Slots : slot[t].turn # None => slot[t].turn \in Calls \ {c}
    BY <1>0, TurnHolder DEF TurnStates
  <2>3. \A t \in Slots : slot[t].registered => slot[t].current # 0
    BY DEF BrokerInv, TurnsHeld
  <2> QED
    BY <1>4, <1>5, <2>0, <2>1, <2>2, <2>3 DEF BrokerInv, TurnsHeld, TurnStates, Object, Slot
<1>8. ProcessesNumbered' /\ LastIsAlive' /\ EndsKnown'
  BY <1>1 DEF BrokerInv, ProcessesNumbered, LastIsAlive, EndsKnown, service, owned
<1>10. RuntimesApart' /\ AcceptedStays'
  BY <1>1 DEF BrokerInv, RuntimesApart, AcceptedStays, service, owned
<1>9. PipesClean'
  BY <1>0, <1>1, <1>4, <1>5, PipesStay DEF BrokerInv, service, owned
<1> QED
  BY <1>2, <1>3, <1>6, <1>7, <1>8, <1>9, <1>10 DEF BrokerInv

----------------------------------------------------------------------------
(* Registrations *)

\* An object that is not registered, while no registration is under way.
LEMMA IdleObject ==
  ASSUME BrokerInv, NEW b \in Brokers, NEW r \in Runtimes,
         broker[b] = "UP", lock[b] = None, ~slot[<<b, r>>].registered
  PROVE  /\ <<b, r>> \in Slots
         /\ \A a \in Calls : handler[a] # "NONE" => Slot(a) # <<b, r>>
         /\ slot[<<b, r>>].turn = None
         /\ \A g \in Processes : process[g].alive => process[g].slot # <<b, r>>
         /\ \A a \in Calls : seen[a] # 0 => <<seen[a], RuntimeOf[a]>> # <<b, r>>
<1> DEFINE s == <<b, r>>
<1>1. s \in Slots /\ s[1] = b
  BY DEF Slots
<1>2. ASSUME NEW a \in Calls, handler[a] # "NONE", Slot(a) = s
      PROVE  FALSE
  <2>1. via[a] = b /\ Object(a) = slot[s]
    BY <1>2, Places
  <2>2. handler[a] # "HANDSHAKE"
    BY <1>2, <2>1, NoneIsNoValue DEF BrokerInv, HandshakesLock
  <2>3. handler[a] \in {"QUEUED"} \cup TurnStates
    BY <1>2, <2>2 DEF BrokerInv, BrokerTypeOK, TurnStates
  <2> QED
    BY <2>1, <2>3 DEF BrokerInv, TurnsHeld
<1>3. slot[s].turn = None
  <2> SUFFICES ASSUME slot[s].turn # None PROVE FALSE
    OBVIOUS
  <2>1. slot[s].turn \in Calls /\ handler[slot[s].turn] \in TurnStates /\ Slot(slot[s].turn) = s
    BY <1>1, TurnHolder
  <2> QED
    BY <1>2, <2>1 DEF TurnStates
<1>4. ASSUME NEW g \in Processes, process[g].alive, process[g].slot = s
      PROVE  FALSE
  <2>1. slot[s].current = g
    BY <1>1, <1>4 DEF BrokerInv, LastIsAlive
  <2>2. g # 0
    BY DEF Processes
  <2> QED
    BY <1>1, <1>4, <2>1, <2>2 DEF BrokerInv, LastIsAlive
<1>5. ASSUME NEW a \in Calls, seen[a] # 0, <<seen[a], RuntimeOf[a]>> = s
      PROVE  FALSE
  <2>1. seen[a] = b
    BY <1>5
  <2> QED
    BY <1>5, <2>1 DEF BrokerInv, AcceptedStays
<1> QED
  BY <1>1, <1>2, <1>3, <1>4, <1>5

LEMMA SpawnedFields ==
  ASSUME NEW s \in Slots, NEW config \in Configs
  PROVE  /\ Spawned(s, config) \in ProcessRecord
         /\ Spawned(s, config).slot = s /\ Spawned(s, config).config = config
         /\ Spawned(s, config).alive /\ ~Spawned(s, config).ended
         /\ Spawned(s, config).inbox = <<>> /\ Spawned(s, config).out = <<>>
  BY EmptySeq DEF Spawned, NotStarted, ProcessRecord

\* What a registration that starts a process does to objects and processes.
LEMMA Registers ==
  ASSUME BrokerInv, NEW s \in Slots, NEW config \in Configs, NEW reg \in BOOLEAN,
         StartProcess(s, config),
         slot' = [slot EXCEPT ![s] = [NoProcess EXCEPT !.registered = reg, !.config = config,
                                                       !.current = made']]
  PROVE  /\ made' = made + 1 /\ made' \in Processes /\ made' \in 0 .. MaxProcesses
         /\ process[made'] = NotStarted
         /\ process' = [process EXCEPT ![made'] = Spawned(s, config)]
         /\ process' \in [Processes -> ProcessRecord] /\ slot' \in [Slots -> ObjectRecord]
         /\ slot'[s].registered = reg /\ slot'[s].config = config /\ slot'[s].current = made'
         /\ ~slot'[s].dead /\ slot'[s].turn = None /\ slot'[s].events = <<>> /\ ~slot'[s].cut
         /\ \A t \in Slots \ {s} : slot'[t] = slot[t]
         /\ process'[made'] = Spawned(s, config)
         /\ \A g \in Processes \ {made'} : process'[g] = process[g]
         /\ \A t \in Slots : slot[t].current # made'
<1> DEFINE o == [NoProcess EXCEPT !.registered = reg, !.config = config, !.current = made']
           p == Spawned(s, config)
<1>1. made \in Nat /\ made' = made + 1 /\ made < MaxProcesses
  BY BoundsAreNumbers DEF StartProcess, BrokerInv, BrokerTypeOK
<1>2. made' \in Processes /\ made' \in 0 .. MaxProcesses
  BY <1>1, BoundsAreNumbers DEF Processes
<1>3. process[made'] = NotStarted
  BY <1>1, <1>2 DEF BrokerInv, ProcessesNumbered
<1>4. /\ o.registered = reg /\ o.config = config /\ o.current = made'
      /\ ~o.dead /\ o.turn = None /\ o.events = <<>> /\ ~o.cut
  BY DEF NoProcess
<1>6. o \in ObjectRecord
  <2>1. NoProcess \in ObjectRecord
    BY BoundsAreNumbers, EmptySeq DEF NoProcess, ObjectRecord
  <2> QED
    BY <1>2, <2>1 DEF ObjectRecord
<1>7. p \in ProcessRecord
  BY SpawnedFields
<1>8. slot \in [Slots -> ObjectRecord] /\ process \in [Processes -> ProcessRecord]
  BY DEF BrokerInv, BrokerTypeOK
<1>9. process' = [process EXCEPT ![made'] = p] /\ slot' = [slot EXCEPT ![s] = o]
  BY DEF StartProcess
<1>10. \A t \in Slots : slot[t].current # made'
  <2> SUFFICES ASSUME NEW t \in Slots, slot[t].current = made' PROVE FALSE
    OBVIOUS
  <2>1. slot[t].current \in 1 .. made
    BY <1>1, ObjectFields
  <2> QED
    BY <1>1, <2>1
<1> HIDE DEF o, p
<1>11. /\ process' \in [Processes -> ProcessRecord] /\ process'[made'] = p
       /\ \A g \in Processes \ {made'} : process'[g] = process[g]
  BY <1>2, <1>7, <1>8, <1>9
<1>12. /\ slot' \in [Slots -> ObjectRecord] /\ slot'[s] = o
       /\ \A t \in Slots \ {s} : slot'[t] = slot[t]
  BY <1>6, <1>8, <1>9
<1> QED
  BY <1>1, <1>2, <1>3, <1>4, <1>9, <1>10, <1>11, <1>12 DEF p

\* What no registration changes, and what it starts.
LEMMA RegistersKeeps ==
  ASSUME BrokerInv, NEW s \in Slots, NEW config \in Configs, NEW reg \in BOOLEAN,
         StartProcess(s, config),
         slot' = [slot EXCEPT ![s] = [NoProcess EXCEPT !.registered = reg, !.config = config,
                                                       !.current = made']],
         UNCHANGED <<protocol, broker>>, broker[s[1]] # "GONE",
         \A g \in Processes : process[g].alive => process[g].slot # s,
         \A a \in Calls : handler[a] # "NONE" => Slot(a) # s,
         \A a \in Calls : /\ handler'[a] = "READ" <=> handler[a] = "READ"
                          /\ handler[a] = "READ" => via'[a] = via[a]
  PROVE  ProcessesNumbered' /\ EndsKnown' /\ RuntimesApart' /\ PipesClean'
<1>0. /\ made' = made + 1 /\ made' \in Processes
      /\ slot'[s].config = config /\ slot'[s].current = made'
      /\ ~slot'[s].dead /\ slot'[s].turn = None /\ slot'[s].events = <<>> /\ ~slot'[s].cut
      /\ \A t \in Slots \ {s} : slot'[t] = slot[t]
      /\ process'[made'] = Spawned(s, config)
      /\ \A g \in Processes \ {made'} : process'[g] = process[g]
      /\ \A t \in Slots : slot[t].current # made'
  BY Registers
<1>a. /\ Spawned(s, config).slot = s /\ Spawned(s, config).config = config
      /\ Spawned(s, config).alive /\ ~Spawned(s, config).ended
      /\ Spawned(s, config).inbox = <<>> /\ Spawned(s, config).out = <<>>
  BY SpawnedFields
<1>1. made \in Nat /\ made' \in Nat
  BY <1>0, BoundsAreNumbers DEF BrokerInv, BrokerTypeOK
<1>2. ProcessesNumbered'
  <2>1. \A t \in Slots : slot[t].current # 0 => slot[t].current \in Processes /\ slot[t].current \in 1 .. made
    BY ObjectFields
  <2>2. \A g \in Processes : g \in Nat
    BY DEF Processes
  <2>3. made' \in 1 .. made'
    BY <1>0, <1>1
  <2>4. ASSUME NEW t \in Slots, slot'[t].current # 0
        PROVE  /\ slot'[t].current \in 1 .. made'
               /\ process'[slot'[t].current].slot = t
               /\ process'[slot'[t].current].config = slot'[t].config
    <3>1. CASE t = s
      BY <1>0, <2>3, <3>1, <1>a
    <3>2. CASE t # s
      BY <1>0, <1>1, <2>1, <2>4, <3>2 DEF BrokerInv, ProcessesNumbered
    <3> QED
      BY <3>1, <3>2
  <2>5. ASSUME NEW g \in Processes
        PROVE  IF g > made' THEN process'[g] = NotStarted ELSE process'[g].slot \in Slots
    BY <1>0, <1>1, <2>2, <1>a DEF BrokerInv, ProcessesNumbered
  <2> QED
    BY <2>4, <2>5 DEF ProcessesNumbered
<1>3. EndsKnown'
  <2>1. \A t \in Slots : slot[t].current # 0 => slot[t].current \in Processes
    BY ObjectFields
  <2> QED
    BY <1>0, <2>1, <1>a DEF BrokerInv, EndsKnown
<1>4. RuntimesApart'
  <2>1. \A r : <<>> \in Seq(CallsOf(r)) /\ <<>> \in Seq(LinesOf(r))
    BY EmptySeq
  <2>2. ASSUME NEW t \in Slots PROVE slot'[t].events \in Seq(LinesOf(t[2]))
    <3>1. slot[t].events \in Seq(LinesOf(t[2]))
      BY DEF BrokerInv, RuntimesApart
    <3>2. slot'[t].events = <<>> \/ slot'[t] = slot[t]
      BY <1>0
    <3> QED
      BY <2>1, <3>1, <3>2
  <2>3. ASSUME NEW g \in Processes, process'[g].slot # None
        PROVE  /\ process'[g].inbox \in Seq(CallsOf(process'[g].slot[2]))
               /\ process'[g].out \in Seq(LinesOf(process'[g].slot[2]))
    <3>1. CASE g = made'
      <4>1. process'[g].inbox = <<>> /\ process'[g].out = <<>>
        BY <1>0, <1>a, <3>1
      <4> QED
        BY <2>1, <4>1
    <3>2. CASE g # made'
      BY <1>0, <2>3, <3>2 DEF BrokerInv, RuntimesApart
    <3> QED
      BY <3>1, <3>2
  <2> QED
    BY <2>2, <2>3 DEF RuntimesApart
<1>5. PipesClean'
  <2>1. \A t \in Slots : slot[t].current # 0 => slot[t].current \in Processes
    BY ObjectFields
  <2>2. \A t \in Slots \ {s} : Subscribed(t)' <=> Subscribed(t)
    BY DEF Subscribed
  <2>3. ASSUME NEW a \in Calls, handler[a] = "READ"
        PROVE  Current(a)' = Current(a)
    <3>1. Slot(a) \in Slots \ {s} /\ via'[a] = via[a] /\ slot[Slot(a)].current \in Processes \ {made'}
      BY <1>0, <2>1, <2>3, Places
    <3> QED
      BY <1>0, <3>1 DEF Current, Object, Slot
  <2> SUFFICES ASSUME protocol = "STREAM" PROVE PipesClean'
    BY DEF PipesClean
  <2>4. ASSUME NEW t \in Slots
        PROVE  /\ slot'[t].events = <<>> /\ ~slot'[t].cut
               /\ slot'[t].current # 0 /\ ~slot'[t].dead /\ ~Subscribed(t)' =>
                    process'[slot'[t].current].inbox = <<>> /\ process'[slot'[t].current].out = <<>>
    BY <1>0, <1>a, <2>1, <2>2 DEF BrokerInv, PipesClean
  <2>5. \A a \in Calls : handler'[a] = "READ" =>
         \/ Current(a)'.inbox = <<>> /\ Current(a)'.out = <<>>
         \/ Current(a)'.inbox = <<a>> /\ Current(a)'.out = <<>>
         \/ Current(a)'.inbox = <<>> /\ \E ok \in BOOLEAN : Current(a)'.out = <<[of |-> a, ok |-> ok]>>
    BY <2>3 DEF BrokerInv, PipesClean
  <2> QED
    BY <2>4, <2>5 DEF PipesClean
<1> QED
  BY <1>2, <1>3, <1>4, <1>5

LEMMA RegisterStreamKeeps ==
  ASSUME BrokerInv, NEW c \in Calls, NEW b \in Brokers, RegisterStream(c, b)
  PROVE  BrokerInv'
<1> DEFINE s == <<b, RuntimeOf[c]>>
<1>1. /\ broker[b] = "UP" /\ lock[b] = None /\ ~slot[s].registered
      /\ StartProcess(s, setup[c])
      /\ slot' = [slot EXCEPT ![s] = [NoProcess EXCEPT !.registered = TRUE, !.config = setup[c],
                                                       !.current = made']]
      /\ client' = [client EXCEPT ![c] = "PROMPT"] /\ handler[c] = "NONE"
      /\ seen' = [seen EXCEPT ![c] = b]
      /\ UNCHANGED <<protocol, setup, broker, lock, handler, via, answer, faults>>
  BY DEF RegisterStream, Listening, service
<1>2. RuntimeOf[c] \in Runtimes /\ setup[c] \in Configs
  BY CallsHaveRuntimes DEF BrokerInv, BrokerTypeOK
<1>3. /\ s \in Slots /\ s[1] = b
      /\ \A a \in Calls : handler[a] # "NONE" => Slot(a) # s
      /\ \A g \in Processes : process[g].alive => process[g].slot # s
      /\ \A a \in Calls : seen[a] # 0 => <<seen[a], RuntimeOf[a]>> # s
  BY <1>1, <1>2, IdleObject
<1> HIDE DEF s
<1>4. /\ made' \in Processes /\ made' \in 0 .. MaxProcesses
      /\ process' \in [Processes -> ProcessRecord] /\ slot' \in [Slots -> ObjectRecord]
      /\ slot'[s].registered /\ slot'[s].config = setup[c] /\ slot'[s].current = made'
      /\ ~slot'[s].dead /\ slot'[s].turn = None
      /\ \A t \in Slots \ {s} : slot'[t] = slot[t]
      /\ process'[made'] = Spawned(s, setup[c])
      /\ \A g \in Processes \ {made'} : process'[g] = process[g]
      /\ \A t \in Slots : slot[t].current # made'
  BY <1>1, <1>2, <1>3, Registers
<1>5. ProcessesNumbered' /\ EndsKnown' /\ RuntimesApart' /\ PipesClean'
  BY <1>1, <1>2, <1>3, RegistersKeeps
<1>6. b \in 0 .. MaxBrokers /\ b # 0 /\ made' # 0
  BY <1>4, BoundsAreNumbers DEF Brokers, Processes
<1>7. BrokerTypeOK'
  BY <1>1, <1>4, <1>6 DEF BrokerInv, BrokerTypeOK
<1>8. HandlersPlaced'
  BY <1>1, <1>3, <1>4 DEF BrokerInv, BrokerTypeOK, HandlersPlaced
<1>9. \A a \in Calls : handler[a] # "NONE" => Slot(a)' = Slot(a) /\ Object(a)' = Object(a)
  <2>1. \A a \in Calls : handler[a] # "NONE" => Slot(a) \in Slots
    BY Places
  <2> QED
    BY <1>1, <1>3, <1>4, <2>1 DEF Slot, Object
<1>10. HandshakesLock' /\ TurnsHeld'
  <2>1. HandshakesLock'
    BY <1>1, <1>9 DEF BrokerInv, HandshakesLock
  <2>2. ASSUME NEW a \in Calls
        PROVE  /\ handler'[a] \in TurnStates => Object(a)'.turn = a
               /\ handler'[a] = "RESTART" => Object(a)'.dead
               /\ handler'[a] \in {"QUEUED"} \cup TurnStates =>
                    Object(a)'.current # 0 /\ (Object(a)'.registered \/ broker'[via'[a]] = "CLOSED")
    BY <1>1, <1>9 DEF BrokerInv, TurnsHeld, TurnStates
  <2>3. ASSUME NEW t \in Slots
        PROVE  /\ slot'[t].turn # None =>
                    /\ handler'[slot'[t].turn] \in TurnStates
                    /\ <<via'[slot'[t].turn], RuntimeOf[slot'[t].turn]>> = t
               /\ slot'[t].registered => slot'[t].current # 0
    BY <1>1, <1>4, <1>6 DEF BrokerInv, TurnsHeld, Slot
  <2> QED
    BY <2>1, <2>2, <2>3 DEF TurnsHeld, Slot
<1>11. LastIsAlive'
  <2>1. \A t \in Slots : slot[t].current # 0 => slot[t].current \in Processes
    BY ObjectFields
  <2>2. /\ Spawned(s, setup[c]).slot = s /\ Spawned(s, setup[c]).alive
    BY <1>2, <1>3, SpawnedFields
  <2>3. \A g \in Processes : process[g].alive => process[g].slot \in Slots
    BY AliveIsStarted
  <2> QED
    BY <1>1, <1>3, <1>4, <2>1, <2>2, <2>3 DEF BrokerInv, LastIsAlive
<1>12. AcceptedStays'
  <2>1. \A a \in Calls : seen[a] # 0 => <<seen[a], RuntimeOf[a]>> \in Slots
    BY CallsHaveRuntimes, BoundsAreNumbers DEF BrokerInv, BrokerTypeOK, Slots, Brokers
  <2> QED
    BY <1>1, <1>3, <1>4, <2>1 DEF BrokerInv, BrokerTypeOK, AcceptedStays, s
<1> QED
  BY <1>5, <1>7, <1>8, <1>10, <1>11, <1>12 DEF BrokerInv

LEMMA RegisterRpcKeeps ==
  ASSUME BrokerInv, NEW c \in Calls, NEW b \in Brokers, RegisterRpc(c, b)
  PROVE  BrokerInv'
<1> DEFINE s == <<b, RuntimeOf[c]>>
<1>1. /\ broker[b] = "UP" /\ lock[b] = None /\ ~slot[s].registered
      /\ client[c] = "REGISTER"
      /\ StartProcess(s, setup[c])
      /\ slot' = [slot EXCEPT ![s] = [NoProcess EXCEPT !.registered = FALSE, !.config = setup[c],
                                                       !.current = made']]
      /\ lock' = [lock EXCEPT ![b] = c] /\ handler[c] = "NONE"
      /\ handler' = [handler EXCEPT ![c] = "HANDSHAKE"]
      /\ via' = [via EXCEPT ![c] = b]
      /\ UNCHANGED <<protocol, setup, broker, client, seen, answer, faults>>
  BY DEF RegisterRpc, Listening
<1>2. RuntimeOf[c] \in Runtimes /\ setup[c] \in Configs
  BY CallsHaveRuntimes DEF BrokerInv, BrokerTypeOK
<1>3. /\ s \in Slots /\ s[1] = b /\ s[2] = RuntimeOf[c]
      /\ \A a \in Calls : handler[a] # "NONE" => Slot(a) # s
      /\ \A g \in Processes : process[g].alive => process[g].slot # s
      /\ \A a \in Calls : seen[a] # 0 => <<seen[a], RuntimeOf[a]>> # s
  BY <1>1, <1>2, IdleObject
<1> HIDE DEF s
<1>4. /\ made' \in Processes /\ made' \in 0 .. MaxProcesses
      /\ process' \in [Processes -> ProcessRecord] /\ slot' \in [Slots -> ObjectRecord]
      /\ ~slot'[s].registered /\ slot'[s].config = setup[c] /\ slot'[s].current = made'
      /\ ~slot'[s].dead /\ slot'[s].turn = None
      /\ \A t \in Slots \ {s} : slot'[t] = slot[t]
      /\ process'[made'] = Spawned(s, setup[c])
      /\ \A g \in Processes \ {made'} : process'[g] = process[g]
      /\ \A t \in Slots : slot[t].current # made'
  BY <1>1, <1>2, <1>3, Registers
<1>b. /\ \A a \in Calls \ {c} : handler'[a] = handler[a] /\ via'[a] = via[a]
      /\ handler'[c] = "HANDSHAKE" /\ via'[c] = b
  BY <1>1 DEF BrokerInv, BrokerTypeOK
<1>5. ProcessesNumbered' /\ EndsKnown' /\ RuntimesApart' /\ PipesClean'
  BY <1>1, <1>b, <1>2, <1>3, RegistersKeeps
<1>6. b \in 0 .. MaxBrokers /\ b # 0 /\ made' # 0
  BY <1>4, BoundsAreNumbers DEF Brokers, Processes
<1>7. BrokerTypeOK'
  BY <1>1, <1>4, <1>6 DEF BrokerInv, BrokerTypeOK
<1>8. HandlersPlaced'
  BY <1>1, <1>3, <1>4, <1>6, <1>b DEF BrokerInv, HandlersPlaced, Present
<1>9. \A a \in Calls \ {c} : handler[a] # "NONE" => Slot(a)' = Slot(a) /\ Object(a)' = Object(a)
  <2>1. \A a \in Calls : handler[a] # "NONE" => Slot(a) \in Slots
    BY Places
  <2> QED
    BY <1>b, <1>3, <1>4, <2>1 DEF Slot, Object
<1>10. HandshakesLock' /\ TurnsHeld'
  <2>1. \A a \in Calls \ {c} : handler[a] = "HANDSHAKE" => via[a] # b
    BY <1>1, NoneIsNoValue DEF BrokerInv, HandshakesLock
  <2>2. Object(c)' = slot'[s]
    BY <1>b DEF Object, s
  <2>3. ASSUME NEW a \in Calls, handler'[a] = "HANDSHAKE"
        PROVE  /\ lock'[via'[a]] = a /\ broker'[via'[a]] # "CLOSED"
               /\ Object(a)'.current # 0 /\ Object(a)'.config = setup'[a] /\ ~Object(a)'.registered
    <3>1. CASE a = c
      BY <1>1, <1>4, <1>6, <1>b, <2>2, <3>1 DEF BrokerInv, BrokerTypeOK
    <3>2. CASE a # c
      BY <1>1, <1>9, <1>b, <2>1, <2>3, <3>2, Places DEF BrokerInv, BrokerTypeOK, HandshakesLock
    <3> QED
      BY <3>1, <3>2
  <2>4. ASSUME NEW a \in Brokers, lock'[a] # None
        PROVE  handler'[lock'[a]] = "HANDSHAKE" /\ via'[lock'[a]] = a
    <3>1. CASE a = b
      BY <1>1, <1>b, <3>1 DEF BrokerInv, BrokerTypeOK
    <3>2. CASE a # b
      <4>1. lock'[a] = lock[a] /\ lock[a] \in Calls
        BY <1>1, <2>4, <3>2 DEF BrokerInv, BrokerTypeOK
      <4> QED
        BY <1>1, <1>b, <2>4, <4>1 DEF BrokerInv, HandshakesLock
    <3> QED
      BY <3>1, <3>2
  <2>5. ASSUME NEW a \in Calls
        PROVE  /\ handler'[a] \in TurnStates => Object(a)'.turn = a
               /\ handler'[a] = "RESTART" => Object(a)'.dead
               /\ handler'[a] \in {"QUEUED"} \cup TurnStates =>
                    Object(a)'.current # 0 /\ (Object(a)'.registered \/ broker'[via'[a]] = "CLOSED")
    BY <1>1, <1>9, <1>b DEF BrokerInv, TurnsHeld, TurnStates
  <2>6. ASSUME NEW t \in Slots
        PROVE  /\ slot'[t].turn # None =>
                    /\ handler'[slot'[t].turn] \in TurnStates
                    /\ <<via'[slot'[t].turn], RuntimeOf[slot'[t].turn]>> = t
               /\ slot'[t].registered => slot'[t].current # 0
    <3>1. slot[t].turn # None => slot[t].turn \in Calls \ {c}
      BY <1>1, TurnHolder DEF TurnStates
    <3> QED
      BY <1>1, <1>4, <1>6, <1>b, <3>1 DEF BrokerInv, TurnsHeld, Slot
  <2> QED
    BY <2>3, <2>4, <2>5, <2>6 DEF HandshakesLock, TurnsHeld, Slot
<1>11. LastIsAlive'
  <2>1. \A t \in Slots : slot[t].current # 0 => slot[t].current \in Processes
    BY ObjectFields
  <2>2. /\ Spawned(s, setup[c]).slot = s /\ Spawned(s, setup[c]).alive
    BY <1>2, <1>3, SpawnedFields
  <2>3. \A g \in Processes : process[g].alive => process[g].slot \in Slots
    BY AliveIsStarted
  <2>4. \A a \in Brokers \ {b} : lock'[a] = lock[a]
    BY <1>1 DEF BrokerInv, BrokerTypeOK
  <2>5. lock'[b] = c /\ c # None
    BY <1>1, NoneIsNoValue DEF BrokerInv, BrokerTypeOK
  <2>6. \A t \in Slots : t[1] \in Brokers
    BY DEF Slots
  <2>7. ASSUME NEW t \in Slots, broker[t[1]] \in {"UP", "STOPPING"}, ~slot'[t].registered,
               slot'[t].current # 0, process'[slot'[t].current].alive
        PROVE  lock'[t[1]] # None /\ RuntimeOf[lock'[t[1]]] = t[2]
    <3>1. CASE t = s
      BY <1>3, <2>5, <3>1
    <3>2. CASE t # s
      <4>1. lock[t[1]] # None /\ RuntimeOf[lock[t[1]]] = t[2]
        <5>1. slot'[t] = slot[t] /\ slot[t].current \in Processes \ {made'}
          BY <1>4, <2>1, <2>7, <3>2
        <5>2. process[slot[t].current].alive
          BY <1>4, <2>7, <5>1
        <5> QED
          BY <2>7, <5>1, <5>2 DEF BrokerInv, LastIsAlive
      <4> QED
        BY <1>1, <2>4, <2>6, <4>1
    <3> QED
      BY <3>1, <3>2
  <2> QED
    BY <1>1, <1>3, <1>4, <2>1, <2>2, <2>3, <2>7 DEF BrokerInv, LastIsAlive
<1>12. AcceptedStays'
  <2>1. \A a \in Calls : seen[a] # 0 => <<seen[a], RuntimeOf[a]>> \in Slots
    BY CallsHaveRuntimes, BoundsAreNumbers DEF BrokerInv, BrokerTypeOK, Slots, Brokers
  <2> QED
    BY <1>1, <1>3, <1>4, <2>1 DEF BrokerInv, BrokerTypeOK, AcceptedStays
<1> QED
  BY <1>5, <1>7, <1>8, <1>10, <1>11, <1>12 DEF BrokerInv

----------------------------------------------------------------------------
(* Steps that leave every object its process *)

LEMMA NumberedStays ==
  ASSUME BrokerInv, UNCHANGED made,
         \A t \in Slots : slot'[t].current = slot[t].current /\ slot'[t].config = slot[t].config,
         \A g \in Processes : /\ process'[g].slot = process[g].slot /\ process'[g].config = process[g].config
                              /\ g > made => process'[g] = process[g]
  PROVE  ProcessesNumbered'
<1>1. \A t \in Slots : slot[t].current # 0 => slot[t].current \in Processes
  BY ObjectFields
<1> QED
  BY <1>1 DEF BrokerInv, ProcessesNumbered

LEMMA EndsStay ==
  ASSUME BrokerInv, UNCHANGED broker,
         \A t \in Slots : slot'[t].current = slot[t].current /\ (slot[t].dead => slot'[t].dead),
         \A g \in Processes : /\ process'[g].slot = process[g].slot /\ process'[g].ended = process[g].ended
                              /\ process'[g].alive => process[g].alive
                              /\ ~process'[g].alive => process'[g].inbox = <<>>
  PROVE  EndsKnown'
<1>1. \A t \in Slots : slot[t].current # 0 => slot[t].current \in Processes
  BY ObjectFields
<1> QED
  BY <1>1 DEF BrokerInv, EndsKnown

\* Processes may end, and objects learn of it; a registration lasts, or a handshake does.
LEMMA AliveStays ==
  ASSUME BrokerInv, UNCHANGED broker,
         \A t \in Slots : /\ slot'[t].current = slot[t].current
                          /\ slot'[t].dead => slot[t].dead \/ (slot[t].current # 0 /\ ~process'[slot[t].current].alive)
                          /\ slot[t].registered => slot'[t].registered,
         \A g \in Processes : /\ process'[g].slot = process[g].slot
                              /\ process'[g].alive => process[g].alive,
         \A t \in Slots : \/ lock'[t[1]] = lock[t[1]] \/ slot'[t].registered
                          \/ slot[t].current = 0
                          \/ slot[t].current # 0 /\ ~process'[slot[t].current].alive
                          \/ slot[t].current # 0 /\ lock[t[1]] # None /\ RuntimeOf[lock[t[1]]] # t[2]
  PROVE  LastIsAlive'
<1>1. \A t \in Slots : slot[t].current # 0 => slot[t].current \in Processes
  BY ObjectFields
<1>2. \A g \in Processes : process[g].alive => process[g].slot \in Slots
  BY AliveIsStarted
<1>3. \A g \in Processes : process'[g].alive /\ broker'[process'[g].slot[1]] # "GONE" =>
        slot'[process'[g].slot].current = g
  BY <1>2 DEF BrokerInv, LastIsAlive
<1>4. \A t \in Slots : slot'[t].dead => slot'[t].current # 0 /\ ~process'[slot'[t].current].alive
  BY <1>1 DEF BrokerInv, LastIsAlive
<1>5. ASSUME NEW t \in Slots, broker'[t[1]] \in {"UP", "STOPPING"}, ~slot'[t].registered,
             slot'[t].current # 0, process'[slot'[t].current].alive
      PROVE  lock'[t[1]] # None /\ RuntimeOf[lock'[t[1]]] = t[2]
  <2>1. slot'[t].current = slot[t].current /\ slot[t].current \in Processes /\ ~slot[t].registered
    BY <1>1, <1>5
  <2>2. process[slot[t].current].alive /\ process'[slot[t].current].alive
    BY <1>5, <2>1
  <2>3. lock[t[1]] # None /\ RuntimeOf[lock[t[1]]] = t[2]
    BY <1>5, <2>1, <2>2 DEF BrokerInv, LastIsAlive
  <2> QED
    BY <1>5, <2>2, <2>3
<1> QED
  BY <1>3, <1>4, <1>5 DEF LastIsAlive

LEMMA AcceptedStay ==
  ASSUME BrokerInv, UNCHANGED <<broker, setup, seen>>,
         \A t \in Slots : slot'[t].config = slot[t].config /\ (slot[t].registered => slot'[t].registered)
  PROVE  AcceptedStays'
<1>1. \A a \in Calls : seen[a] # 0 => <<seen[a], RuntimeOf[a]>> \in Slots
  BY CallsHaveRuntimes, BoundsAreNumbers DEF BrokerInv, BrokerTypeOK, Slots, Brokers
<1> QED
  BY <1>1 DEF BrokerInv, AcceptedStays

\* Nothing is written, and nobody starts or stops to read a process that is well.
LEMMA PipesAlike ==
  ASSUME BrokerInv, UNCHANGED protocol,
         \A t \in Slots : /\ slot'[t].events \in {slot[t].events, <<>>} /\ (slot'[t].cut => slot[t].cut)
                          /\ slot'[t].current = slot[t].current /\ (slot[t].dead => slot'[t].dead)
                          /\ Subscribed(t) => Subscribed(t)',
         \A g \in Processes : /\ process'[g].inbox \in {process[g].inbox, <<>>}
                              /\ process'[g].out = process[g].out,
         \A a \in Calls : handler'[a] = "READ" => handler[a] = "READ" /\ via'[a] = via[a]
  PROVE  PipesClean'
<1> SUFFICES ASSUME protocol = "STREAM" PROVE PipesClean'
  BY DEF PipesClean
<1>1. \A t \in Slots : slot[t].current # 0 => slot[t].current \in Processes
  BY ObjectFields
<1>2. ASSUME NEW t \in Slots
      PROVE  /\ slot'[t].events = <<>> /\ ~slot'[t].cut
             /\ slot'[t].current # 0 /\ ~slot'[t].dead /\ ~Subscribed(t)' =>
                  process'[slot'[t].current].inbox = <<>> /\ process'[slot'[t].current].out = <<>>
  BY <1>1 DEF BrokerInv, PipesClean
<1>3. ASSUME NEW a \in Calls, handler'[a] = "READ"
      PROVE  \/ Current(a)'.inbox = <<>> /\ Current(a)'.out = <<>>
             \/ Current(a)'.inbox = <<a>> /\ Current(a)'.out = <<>>
             \/ Current(a)'.inbox = <<>> /\ \E ok \in BOOLEAN : Current(a)'.out = <<[of |-> a, ok |-> ok]>>
  <2>1. handler[a] = "READ" /\ via'[a] = via[a] /\ Slot(a) \in Slots /\ Object(a).current \in Processes
    BY <1>3, Places
  <2>2. Object(a)'.current = Object(a).current
    BY <2>1 DEF Object, Slot
  <2>3. Current(a)'.inbox \in {Current(a).inbox, <<>>} /\ Current(a)'.out = Current(a).out
    BY <2>1, <2>2 DEF Current
  <2>4. \/ Current(a).inbox = <<>> /\ Current(a).out = <<>>
        \/ Current(a).inbox = <<a>> /\ Current(a).out = <<>>
        \/ Current(a).inbox = <<>> /\ \E ok \in BOOLEAN : Current(a).out = <<[of |-> a, ok |-> ok]>>
    BY <2>1 DEF BrokerInv, PipesClean
  <2> QED
    BY <2>3, <2>4
<1> QED
  BY <1>2, <1>3 DEF PipesClean

----------------------------------------------------------------------------
(* Handshakes *)

LEMMA HandshakeDoneKeeps ==
  ASSUME BrokerInv, NEW c \in Calls, HandshakeDone(c)
  PROVE  BrokerInv'
<1> DEFINE s == Slot(c)
           b == via[c]
<1>1. /\ handler[c] = "HANDSHAKE" /\ Current(c).alive
      /\ slot' = [slot EXCEPT ![s].registered = TRUE]
      /\ lock' = [lock EXCEPT ![b] = None]
      /\ handler' = [handler EXCEPT ![c] = "NONE"]
      /\ via' = [via EXCEPT ![c] = 0]
      /\ \/ UNCHANGED <<client, seen>>
         \/ client' = [client EXCEPT ![c] = "PROMPT"] /\ seen' = [seen EXCEPT ![c] = b]
      /\ UNCHANGED <<protocol, setup, broker, process, made, answer, faults>>
  BY DEF HandshakeDone, Slot
<1>2. /\ b \in Brokers /\ s \in Slots /\ s[1] = b /\ s[2] = RuntimeOf[c] /\ broker[b] # "GONE"
      /\ slot[s].current # 0 /\ slot[s].config = setup[c] /\ lock[b] = c /\ c # None
      /\ s = <<b, RuntimeOf[c]>> /\ broker[b] \in Present
  BY <1>1, Places, NoneIsNoValue DEF BrokerInv, HandshakesLock, Slot, Present
<1> HIDE DEF s, b
<1>3. slot \in [Slots -> ObjectRecord] /\ slot' \in [Slots -> ObjectRecord]
  <2> DEFINE next == [slot[s] EXCEPT !.registered = TRUE]
  <2>1. slot \in [Slots -> ObjectRecord] /\ slot[s] \in ObjectRecord
    BY <1>2 DEF BrokerInv, BrokerTypeOK
  <2>2. next \in ObjectRecord
    BY <2>1 DEF ObjectRecord
  <2>3. slot' = [slot EXCEPT ![s] = next]
    BY <1>1
  <2> HIDE DEF next
  <2> QED
    BY <1>2, <2>1, <2>2, <2>3
<1>4. /\ \A t \in Slots \ {s} : slot'[t] = slot[t]
      /\ slot'[s].registered /\ slot'[s].config = slot[s].config /\ slot'[s].current = slot[s].current
      /\ slot'[s].dead = slot[s].dead /\ slot'[s].turn = slot[s].turn
      /\ slot'[s].events = slot[s].events /\ slot'[s].cut = slot[s].cut
  BY <1>1, <1>2, <1>3 DEF ObjectRecord
<1>5. /\ \A a \in Calls \ {c} : handler'[a] = handler[a] /\ via'[a] = via[a]
      /\ handler'[c] = "NONE" /\ via'[c] = 0
      /\ \A a \in Brokers \ {b} : lock'[a] = lock[a]
      /\ lock'[b] = None
  BY <1>1, <1>2 DEF BrokerInv, BrokerTypeOK
<1>6. b \in 0 .. MaxBrokers /\ 0 \in 0 .. MaxBrokers
  BY <1>2, BoundsAreNumbers DEF Brokers
<1>7. BrokerTypeOK'
  BY <1>1, <1>3, <1>6 DEF BrokerInv, BrokerTypeOK
<1>8. HandlersPlaced'
  BY <1>1, <1>2, <1>4, <1>5 DEF BrokerInv, BrokerTypeOK, HandlersPlaced, Present
<1>9. \A a \in Calls \ {c} : handler[a] # "NONE" =>
        /\ Slot(a)' = Slot(a) /\ Slot(a) \in Slots
        /\ Object(a)'.turn = Object(a).turn /\ Object(a)'.dead = Object(a).dead
        /\ Object(a)'.current = Object(a).current /\ Object(a)'.config = Object(a).config
        /\ Object(a).registered => Object(a)'.registered
        /\ Slot(a) # s => Object(a)' = Object(a)
  <2> SUFFICES ASSUME NEW a \in Calls \ {c}, handler[a] # "NONE"
               PROVE  /\ Slot(a)' = Slot(a) /\ Slot(a) \in Slots
                      /\ Object(a) = slot[Slot(a)] /\ Object(a)' = slot'[Slot(a)]
    BY <1>4
  <2> QED
    BY <1>5, Places DEF Slot, Object
<1>10. \A a \in Calls \ {c} : handler[a] = "HANDSHAKE" => via[a] \in Brokers \ {b} /\ Slot(a) # s
  BY <1>2, Places DEF BrokerInv, HandshakesLock
<1>11. HandshakesLock'
  <2>1. ASSUME NEW a \in Calls, handler'[a] = "HANDSHAKE"
        PROVE  /\ lock'[via'[a]] = a /\ broker'[via'[a]] # "CLOSED"
               /\ Object(a)'.current # 0 /\ Object(a)'.config = setup'[a] /\ ~Object(a)'.registered
    BY <1>1, <1>4, <1>5, <1>9, <1>10, <2>1 DEF BrokerInv, HandshakesLock
  <2>2. ASSUME NEW a \in Brokers, lock'[a] # None
        PROVE  handler'[lock'[a]] = "HANDSHAKE" /\ via'[lock'[a]] = a
    <3>1. a # b /\ lock'[a] = lock[a] /\ lock[a] \in Calls
      BY <1>5, <2>2 DEF BrokerInv, BrokerTypeOK
    <3> QED
      BY <1>2, <1>5, <2>2, <3>1 DEF BrokerInv, HandshakesLock
  <2> QED
    BY <2>1, <2>2 DEF HandshakesLock
<1>12. TurnsHeld'
  <2>1. ASSUME NEW a \in Calls
        PROVE  /\ handler'[a] \in TurnStates => Object(a)'.turn = a
               /\ handler'[a] = "RESTART" => Object(a)'.dead
               /\ handler'[a] \in {"QUEUED"} \cup TurnStates =>
                    Object(a)'.current # 0 /\ (Object(a)'.registered \/ broker'[via'[a]] = "CLOSED")
    BY <1>1, <1>4, <1>5, <1>9 DEF BrokerInv, TurnsHeld, TurnStates
  <2>2. ASSUME NEW t \in Slots
        PROVE  /\ slot'[t].turn # None =>
                    /\ handler'[slot'[t].turn] \in TurnStates
                    /\ <<via'[slot'[t].turn], RuntimeOf[slot'[t].turn]>> = t
               /\ slot'[t].registered => slot'[t].current # 0
    <3>1. slot[t].turn # None => slot[t].turn \in Calls \ {c}
      BY <1>1, TurnHolder DEF TurnStates
    <3> QED
      BY <1>2, <1>4, <1>5, <3>1 DEF BrokerInv, TurnsHeld, Slot
  <2> QED
    BY <2>1, <2>2 DEF TurnsHeld, Slot
<1>13. ProcessesNumbered'
  BY <1>1, <1>4, NumberedStays
<1>14. EndsKnown'
  BY <1>1, <1>4, EndsStay DEF BrokerInv, EndsKnown
<1>15. LastIsAlive'
  <2>1. \A t \in Slots : t[1] \in Brokers /\ (t[1] = b /\ t # s => t[2] # RuntimeOf[c])
    BY <1>2 DEF Slots
  <2>2. \A t \in Slots : \/ lock'[t[1]] = lock[t[1]] \/ slot'[t].registered
                         \/ slot[t].current = 0
                         \/ slot[t].current # 0 /\ lock[t[1]] # None /\ RuntimeOf[lock[t[1]]] # t[2]
    BY <1>2, <1>4, <1>5, <2>1
  <2> QED
    BY <1>1, <1>4, <2>2, AliveStays
<1>16. PipesClean' /\ RuntimesApart'
  <2>1. RuntimesApart'
    BY <1>1, <1>4 DEF BrokerInv, RuntimesApart
  <2>2. \A t \in Slots : Subscribed(t)' <=> Subscribed(t)
    BY <1>1, <1>4, <1>5 DEF Subscribed
  <2>4. PipesClean'
    BY <1>1, <1>4, <1>5, <2>2, PipesAlike
  <2> QED
    BY <2>1, <2>4
<1>17. AcceptedStays'
  <2>1. \A a \in Calls : seen[a] # 0 => <<seen[a], RuntimeOf[a]>> \in Slots
    BY CallsHaveRuntimes, BoundsAreNumbers DEF BrokerInv, BrokerTypeOK, Slots, Brokers
  <2>2. \A a \in Calls : seen'[a] = seen[a] \/ (a = c /\ seen'[a] = b)
    BY <1>1 DEF BrokerInv, BrokerTypeOK
  <2>3. \A t \in Slots : slot'[t].config = slot[t].config /\ (slot[t].registered => slot'[t].registered)
    BY <1>4
  <2> SUFFICES ASSUME NEW a \in Calls, seen'[a] # 0, broker[seen'[a]] # "GONE"
               PROVE  /\ slot'[<<seen'[a], RuntimeOf[a]>>].config = setup[a]
                      /\ slot'[<<seen'[a], RuntimeOf[a]>>].registered \/ broker[seen'[a]] # "UP"
    BY <1>1 DEF AcceptedStays
  <2>4. CASE seen'[a] = seen[a]
    BY <2>1, <2>3, <2>4 DEF BrokerInv, AcceptedStays
  <2>5. CASE a = c /\ seen'[a] = b
    BY <1>2, <1>4, <2>5
  <2> QED
    BY <2>2, <2>4, <2>5
<1> QED
  BY <1>7, <1>8, <1>11, <1>12, <1>13, <1>14, <1>15, <1>16, <1>17 DEF BrokerInv

LEMMA KilledFields ==
  ASSUME BrokerInv, NEW g \in Processes, process' = Killed(g)
  PROVE  /\ process' \in [Processes -> ProcessRecord]
         /\ process'[g].slot = process[g].slot /\ process'[g].config = process[g].config
         /\ ~process'[g].alive /\ process'[g].inbox = <<>> /\ process'[g].out = process[g].out
         /\ process'[g].ended = process[g].ended
         /\ \A h \in Processes \ {g} : process'[h] = process[h]
<1> DEFINE next == [process[g] EXCEPT !.alive = FALSE, !.inbox = <<>>, !.stdin = FALSE]
<1>1. process \in [Processes -> ProcessRecord] /\ process[g] \in ProcessRecord
  BY DEF BrokerInv, BrokerTypeOK
<1>2. process' = [process EXCEPT ![g] = next]
  BY DEF Killed
<1>3. next \in ProcessRecord
  BY <1>1, EmptySeq DEF ProcessRecord
<1>4. /\ next.slot = process[g].slot /\ next.config = process[g].config /\ ~next.alive
      /\ next.inbox = <<>> /\ next.out = process[g].out /\ next.ended = process[g].ended
  BY <1>1 DEF ProcessRecord
<1> HIDE DEF next
<1> QED
  BY <1>1, <1>2, <1>3, <1>4

LEMMA FaultCounts ==
  ASSUME BrokerInv, Fault \/ UNCHANGED faults
  PROVE  faults' \in 0 .. MaxFaults
  BY BoundsAreNumbers DEF BrokerInv, BrokerTypeOK, Fault

LEMMA HandshakeFailsKeeps ==
  ASSUME BrokerInv, NEW c \in Calls, HandshakeFails(c)
  PROVE  BrokerInv'
<1> DEFINE s == Slot(c)
           b == via[c]
           g == Object(c).current
<1>1. /\ handler[c] = "HANDSHAKE"
      /\ Fault \/ UNCHANGED faults
      /\ process' = Killed(g)
      /\ lock' = [lock EXCEPT ![b] = None]
      /\ handler' = [handler EXCEPT ![c] = "NONE"]
      /\ via' = [via EXCEPT ![c] = 0]
      /\ client' = [client EXCEPT ![c] = "FAILED"]
      /\ UNCHANGED <<protocol, setup, broker, slot, made, seen, answer>>
  BY DEF HandshakeFails
<1>2. /\ b \in Brokers /\ s \in Slots /\ s[1] = b /\ s[2] = RuntimeOf[c]
      /\ g \in Processes /\ lock[b] = c /\ c # None /\ slot[s].current = g /\ g # 0
      /\ process[g].slot = s /\ g \in 1 .. made
  BY <1>1, Places, NoneIsNoValue DEF BrokerInv, HandshakesLock, Processes, Current
<1> HIDE DEF s, b, g
<1>3. /\ process' \in [Processes -> ProcessRecord]
      /\ process'[g].slot = process[g].slot /\ process'[g].config = process[g].config
      /\ ~process'[g].alive /\ process'[g].inbox = <<>> /\ process'[g].out = process[g].out
      /\ process'[g].ended = process[g].ended
      /\ \A h \in Processes \ {g} : process'[h] = process[h]
  BY <1>1, <1>2, KilledFields
<1>4. /\ \A a \in Calls \ {c} : handler'[a] = handler[a] /\ via'[a] = via[a]
      /\ handler'[c] = "NONE" /\ via'[c] = 0
      /\ \A a \in Brokers \ {b} : lock'[a] = lock[a]
      /\ lock'[b] = None
  BY <1>1, <1>2 DEF BrokerInv, BrokerTypeOK
<1>5. 0 \in 0 .. MaxBrokers /\ faults' \in 0 .. MaxFaults
  BY <1>1, BoundsAreNumbers, FaultCounts
<1>6. BrokerTypeOK'
  BY <1>1, <1>3, <1>5 DEF BrokerInv, BrokerTypeOK
<1>7. HandlersPlaced'
  BY <1>1, <1>4 DEF BrokerInv, BrokerTypeOK, HandlersPlaced
<1>8. \A a \in Calls \ {c} : Slot(a)' = Slot(a) /\ Object(a)' = Object(a)
  BY <1>1, <1>4 DEF Slot, Object
<1>9. HandshakesLock'
  <2>1. \A a \in Calls \ {c} : handler[a] = "HANDSHAKE" => via[a] \in Brokers \ {b}
    BY <1>2, Places DEF BrokerInv, HandshakesLock
  <2>2. ASSUME NEW a \in Calls, handler'[a] = "HANDSHAKE"
        PROVE  /\ lock'[via'[a]] = a /\ broker'[via'[a]] # "CLOSED"
               /\ Object(a)'.current # 0 /\ Object(a)'.config = setup'[a] /\ ~Object(a)'.registered
    BY <1>1, <1>4, <1>8, <2>1, <2>2 DEF BrokerInv, HandshakesLock
  <2>3. ASSUME NEW a \in Brokers, lock'[a] # None
        PROVE  handler'[lock'[a]] = "HANDSHAKE" /\ via'[lock'[a]] = a
    <3>1. a # b /\ lock'[a] = lock[a] /\ lock[a] \in Calls
      BY <1>4, <2>3 DEF BrokerInv, BrokerTypeOK
    <3> QED
      BY <1>2, <1>4, <2>3, <3>1 DEF BrokerInv, HandshakesLock
  <2> QED
    BY <2>2, <2>3 DEF HandshakesLock
<1>10. TurnsHeld'
  <2>1. \A t \in Slots : slot[t].turn # None => slot[t].turn \in Calls \ {c}
    BY <1>1, TurnHolder DEF TurnStates
  <2> QED
    BY <1>1, <1>4, <1>8, <2>1 DEF BrokerInv, TurnsHeld, TurnStates, Slot
<1>11. ProcessesNumbered'
  <2>1. ~(g > made)
    BY <1>2, BoundsAreNumbers DEF BrokerInv, BrokerTypeOK
  <2> QED
    BY <1>1, <1>3, <2>1, NumberedStays
<1>12. EndsKnown'
  BY <1>1, <1>3, EndsStay DEF BrokerInv, EndsKnown
<1>13. LastIsAlive'
  <2>1. \A t \in Slots : t[1] \in Brokers /\ (t[1] = b /\ t # s => t[2] # RuntimeOf[c])
    BY <1>2 DEF Slots
  <2>2. \A t \in Slots : \/ lock'[t[1]] = lock[t[1]]
                         \/ slot[t].current = 0
                         \/ slot[t].current # 0 /\ ~process'[slot[t].current].alive
                         \/ slot[t].current # 0 /\ lock[t[1]] # None /\ RuntimeOf[lock[t[1]]] # t[2]
    BY <1>2, <1>3, <1>4, <2>1
  <2> QED
    BY <1>1, <1>3, <2>2, AliveStays
<1>14. PipesClean'
  <2>1. \A t \in Slots : Subscribed(t) => Subscribed(t)'
    BY <1>1, <1>4 DEF Subscribed
  <2> QED
    BY <1>1, <1>3, <1>4, <2>1, PipesAlike
<1>15. RuntimesApart'
  <2>1. \A r : <<>> \in Seq(CallsOf(r))
    BY EmptySeq
  <2> QED
    BY <1>1, <1>3, <2>1 DEF BrokerInv, RuntimesApart
<1>16. AcceptedStays'
  BY <1>1, AcceptedStay
<1> QED
  BY <1>6, <1>7, <1>9, <1>10, <1>11, <1>12, <1>13, <1>14, <1>15, <1>16 DEF BrokerInv

----------------------------------------------------------------------------
(* Turns *)

LEMMA AcquireKeeps ==
  ASSUME BrokerInv, NEW c \in Calls, Acquire(c)
  PROVE  BrokerInv'
<1> DEFINE s == Slot(c)
           next == [slot[s] EXCEPT !.turn = c, !.try = 1]
<1>1. /\ handler[c] = "QUEUED" /\ Object(c).turn = None
      /\ slot' = [slot EXCEPT ![s] = next]
      /\ handler' = [handler EXCEPT ![c] = "SEND"]
      /\ UNCHANGED <<service, process, made, client, via, seen, answer, faults>>
  BY DEF Acquire
<1>2. /\ s \in Slots /\ s[1] = via[c] /\ broker[s[1]] \in Present /\ Object(c) = slot[s]
      /\ slot[s] \in ObjectRecord /\ slot \in [Slots -> ObjectRecord]
      /\ slot[s].current # 0 /\ (slot[s].registered \/ broker[via[c]] = "CLOSED")
  BY <1>1, Places DEF BrokerInv, BrokerTypeOK, TurnsHeld
<1>3. /\ next \in ObjectRecord /\ next.turn = c
      /\ next.registered = slot[s].registered /\ next.config = slot[s].config
      /\ next.current = slot[s].current /\ next.dead = slot[s].dead
      /\ next.events = slot[s].events /\ next.cut = slot[s].cut
  <2>1. 1 \in 0 .. 2
    OBVIOUS
  <2>2. next \in ObjectRecord
    BY <1>2, <2>1 DEF ObjectRecord
  <2> QED
    BY <1>2, <2>2 DEF ObjectRecord
<1> HIDE DEF next
<1>4. /\ slot' \in [Slots -> ObjectRecord] /\ slot'[s] = next
      /\ \A t \in Slots \ {s} : slot'[t] = slot[t]
  BY <1>1, <1>2, <1>3
<1>5. \A t \in Slots : /\ slot'[t].registered = slot[t].registered /\ slot'[t].config = slot[t].config
                       /\ slot'[t].current = slot[t].current /\ slot'[t].dead = slot[t].dead
                       /\ slot'[t].events = slot[t].events /\ slot'[t].cut = slot[t].cut
  BY <1>3, <1>4
<1>6. \A a \in Calls \ {c} : handler'[a] = handler[a]
  BY <1>1 DEF BrokerInv, BrokerTypeOK
<1>7. handler'[c] = "SEND"
  BY <1>1 DEF BrokerInv, BrokerTypeOK
<1>8. BrokerTypeOK'
  BY <1>1, <1>4 DEF BrokerInv, BrokerTypeOK, service
<1>9. HandlersPlaced'
  BY <1>1, <1>2, <1>4, <1>6, <1>7 DEF BrokerInv, HandlersPlaced, Present, service
<1>10. \A a \in Calls : handler[a] # "NONE" =>
         /\ Slot(a)' = Slot(a) /\ Slot(a) \in Slots
         /\ Object(a) = slot[Slot(a)] /\ Object(a)' = slot'[Slot(a)]
  BY <1>1, Places DEF Slot, Object
<1>11. HandshakesLock'
  <2>1. UNCHANGED <<lock, via, broker, setup>>
    BY <1>1 DEF service
  <2>2. \A a \in Calls : handler'[a] = "HANDSHAKE" => handler[a] = "HANDSHAKE"
    BY <1>6, <1>7
  <2>3. \A a \in Brokers : lock[a] # None => lock[a] \in Calls \ {c}
    BY <1>1 DEF BrokerInv, BrokerTypeOK, HandshakesLock
  <2> QED
    BY <1>5, <1>6, <1>10, <2>1, <2>2, <2>3 DEF BrokerInv, HandshakesLock
<1>12. TurnsHeld'
  <2>1. ASSUME NEW a \in Calls
        PROVE  /\ handler'[a] \in TurnStates => Object(a)'.turn = a
               /\ handler'[a] = "RESTART" => Object(a)'.dead
               /\ handler'[a] \in {"QUEUED"} \cup TurnStates =>
                    Object(a)'.current # 0 /\ (Object(a)'.registered \/ broker'[via'[a]] = "CLOSED")
    <3>1. CASE a = c
      BY <1>1, <1>2, <1>3, <1>4, <1>7, <1>10, <3>1 DEF service
    <3>2. CASE a # c
      <4>1. handler[a] \in TurnStates => Slot(a) # s
        BY <1>1, <1>2, <1>10, <3>2, NoneIsNoValue DEF BrokerInv, TurnsHeld, TurnStates
      <4>2. UNCHANGED <<broker, via>>
        BY <1>1 DEF service
      <4> QED
        BY <1>4, <1>5, <1>6, <1>10, <3>2, <4>1, <4>2 DEF BrokerInv, TurnsHeld, TurnStates
    <3> QED
      BY <3>1, <3>2
  <2>2. ASSUME NEW t \in Slots
        PROVE  /\ slot'[t].turn # None =>
                    /\ handler'[slot'[t].turn] \in TurnStates
                    /\ <<via'[slot'[t].turn], RuntimeOf[slot'[t].turn]>> = t
               /\ slot'[t].registered => slot'[t].current # 0
    <3>1. slot[t].turn # None => slot[t].turn \in Calls \ {c}
      BY <1>1, TurnHolder DEF TurnStates
    <3>2. s = <<via[c], RuntimeOf[c]>>
      BY DEF Slot
    <3>3. CASE t = s
      BY <1>1, <1>2, <1>3, <1>4, <1>7, <3>2, <3>3 DEF TurnStates
    <3>4. CASE t # s
      BY <1>1, <1>4, <1>6, <3>1, <3>4 DEF BrokerInv, TurnsHeld, Slot
    <3> QED
      BY <3>3, <3>4
  <2> QED
    BY <2>1, <2>2 DEF TurnsHeld, Slot
<1>13. ProcessesNumbered'
  BY <1>1, <1>5, NumberedStays
<1>14. EndsKnown'
  BY <1>1, <1>5, EndsStay DEF BrokerInv, EndsKnown, service
<1>15. LastIsAlive'
  BY <1>1, <1>5, AliveStays DEF service
<1>16. PipesClean'
  <2>1. \A t \in Slots : Subscribed(t) => Subscribed(t)'
    <3> SUFFICES ASSUME NEW t \in Slots, NEW a \in Calls, handler[a] = "READ", slot[t].turn = a
                 PROVE  handler'[a] = "READ" /\ slot'[t].turn = a
      BY DEF Subscribed
    <3> QED
      BY <1>1, <1>2, <1>4, <1>6, NoneIsNoValue
  <2> QED
    BY <1>1, <1>5, <1>6, <1>7, <2>1, PipesAlike DEF service
<1>17. RuntimesApart'
  BY <1>1, <1>5 DEF BrokerInv, RuntimesApart
<1>18. AcceptedStays'
  BY <1>1, <1>5, AcceptedStay DEF service
<1> QED
  BY <1>8, <1>9, <1>11, <1>12, <1>13, <1>14, <1>15, <1>16, <1>17, <1>18 DEF BrokerInv

\* A handler goes on with its turn, or leaves it.
LEMMA TurnMoves ==
  ASSUME BrokerInv, NEW c \in Calls, handler[c] \in TurnStates,
         NEW h \in TurnStates \cup {"NONE"}, handler' = [handler EXCEPT ![c] = h],
         via' = IF h = "NONE" THEN [via EXCEPT ![c] = 0] ELSE via,
         UNCHANGED <<broker, setup, lock, seen>>,
         \A a \in Calls \ {c} : client'[a] = client[a],
         client'[c] \in {client[c], "FAILED", "DONE"},
         \A t \in Slots \ {Slot(c)} : slot'[t] = slot[t],
         slot'[Slot(c)].registered = Object(c).registered, slot'[Slot(c)].config = Object(c).config,
         slot'[Slot(c)].current # 0, h = "RESTART" => slot'[Slot(c)].dead,
         slot'[Slot(c)].turn = IF h = "NONE" THEN None ELSE c
  PROVE  HandlersPlaced' /\ HandshakesLock' /\ TurnsHeld' /\ AcceptedStays'
<1> DEFINE s == Slot(c)
<1>1. /\ s \in Slots /\ s[1] = via[c] /\ broker[s[1]] \in Present /\ Object(c) = slot[s]
      /\ s = <<via[c], RuntimeOf[c]>> /\ via[c] # 0
      /\ slot[s].turn = c /\ (slot[s].registered \/ broker[via[c]] = "CLOSED")
  BY Places DEF BrokerInv, TurnsHeld, TurnStates, Slot, Brokers
<1> HIDE DEF s
<1>2. /\ \A a \in Calls \ {c} : handler'[a] = handler[a] /\ via'[a] = via[a]
      /\ handler'[c] = h
      /\ h = "NONE" => via'[c] = 0
      /\ h # "NONE" => via'[c] = via[c]
  BY DEF BrokerInv, BrokerTypeOK
<1>3. \A t \in Slots : slot'[t].registered = slot[t].registered /\ slot'[t].config = slot[t].config
  BY <1>1 DEF s
<1>4. \A t \in Slots \ {s} : slot'[t] = slot[t]
  BY DEF s
<1>5. \A a \in Calls \ {c} : handler[a] # "NONE" =>
        /\ Slot(a)' = Slot(a) /\ Slot(a) \in Slots
        /\ Object(a) = slot[Slot(a)] /\ Object(a)' = slot'[Slot(a)]
        /\ Object(a).current # 0
  BY <1>2, Places DEF Slot, Object, Processes
<1>6. slot'[s].current # 0
  BY DEF s
<1>7. HandlersPlaced'
  <2>1. ASSUME NEW a \in Calls
        PROVE  /\ handler'[a] = "NONE" <=> via'[a] = 0
               /\ handler'[a] # "NONE" => broker'[via'[a]] \in Present
               /\ client'[a] \in {"NEW", "PROMPT"} => handler'[a] = "NONE"
               /\ client'[a] = "REGISTER" => handler'[a] \in {"NONE", "HANDSHAKE"}
    BY <1>1, <1>2 DEF BrokerInv, HandlersPlaced, TurnStates
  <2>2. \A t \in Slots : broker'[t[1]] \in {"NONE", "GONE"} => slot'[t] = NoProcess
    BY <1>1, <1>4 DEF BrokerInv, HandlersPlaced, Present
  <2> QED
    BY <2>1, <2>2 DEF HandlersPlaced, NoProcess
<1>8. HandshakesLock'
  <2>1. ASSUME NEW a \in Calls, handler'[a] = "HANDSHAKE"
        PROVE  /\ lock'[via'[a]] = a /\ broker'[via'[a]] # "CLOSED"
               /\ Object(a)'.current # 0 /\ Object(a)'.config = setup'[a] /\ ~Object(a)'.registered
    <3>1. a # c /\ handler[a] = "HANDSHAKE"
      BY <1>2, <2>1 DEF TurnStates
    <3>2. Object(a)'.current # 0
      BY <1>4, <1>5, <1>6, <3>1
    <3> QED
      BY <1>2, <1>3, <1>5, <3>1, <3>2 DEF BrokerInv, HandshakesLock
  <2>2. ASSUME NEW a \in Brokers, lock'[a] # None
        PROVE  handler'[lock'[a]] = "HANDSHAKE" /\ via'[lock'[a]] = a
    <3>1. lock[a] \in Calls \ {c}
      BY <2>2 DEF BrokerInv, BrokerTypeOK, HandshakesLock, TurnStates
    <3> QED
      BY <1>2, <2>2, <3>1 DEF BrokerInv, HandshakesLock
  <2> QED
    BY <2>1, <2>2 DEF HandshakesLock
<1>9. TurnsHeld'
  <2>1. ASSUME NEW a \in Calls
        PROVE  /\ handler'[a] \in TurnStates => Object(a)'.turn = a
               /\ handler'[a] = "RESTART" => Object(a)'.dead
               /\ handler'[a] \in {"QUEUED"} \cup TurnStates =>
                    Object(a)'.current # 0 /\ (Object(a)'.registered \/ broker'[via'[a]] = "CLOSED")
    <3>1. CASE a = c /\ h # "NONE"
      <4>1. Object(c)' = slot'[s]
        BY <1>1, <1>2, <3>1 DEF Object
      <4> QED
        BY <1>1, <1>2, <1>3, <1>6, <3>1, <4>1 DEF s
    <3>2. CASE a = c /\ h = "NONE"
      BY <1>2, <3>2 DEF TurnStates
    <3>3. CASE a # c
      <4>1. handler[a] \in TurnStates => Slot(a) # s
        BY <1>1, <1>5, <3>3 DEF BrokerInv, TurnsHeld, TurnStates
      <4>2. handler[a] \in TurnStates => Object(a)' = Object(a)
        BY <1>4, <1>5, <3>3, <4>1 DEF TurnStates
      <4>3. handler[a] = "QUEUED" =>
              Object(a)'.current # 0 /\ (Object(a)'.registered \/ broker'[via'[a]] = "CLOSED")
        BY <1>2, <1>3, <1>4, <1>5, <1>6, <3>3 DEF BrokerInv, TurnsHeld
      <4> QED
        BY <1>2, <3>3, <4>2, <4>3 DEF BrokerInv, TurnsHeld, TurnStates
    <3> QED
      BY <3>1, <3>2, <3>3
  <2>2. ASSUME NEW t \in Slots
        PROVE  /\ slot'[t].turn # None =>
                    /\ handler'[slot'[t].turn] \in TurnStates
                    /\ <<via'[slot'[t].turn], RuntimeOf[slot'[t].turn]>> = t
               /\ slot'[t].registered => slot'[t].current # 0
    <3>1. CASE t = s
      BY <1>1, <1>2, <1>6, <3>1 DEF s
    <3>2. CASE t # s
      <4>1. slot[t].turn # None => slot[t].turn \in Calls \ {c}
        BY <3>2, TurnHolder DEF s
      <4> QED
        BY <1>2, <1>4, <3>2, <4>1 DEF BrokerInv, TurnsHeld, Slot
    <3> QED
      BY <3>1, <3>2
  <2> QED
    BY <2>1, <2>2 DEF TurnsHeld, Slot
<1>10. AcceptedStays'
  BY <1>3, AcceptedStay
<1> QED
  BY <1>7, <1>8, <1>9, <1>10

\* A handler leaves its turn, which is over or goes on with a new process: nothing
\* of the turn stays in the object, and the process may have been given up.
TurnLeft(c) ==
  LET s == Slot(c)
      g == Object(c).current
  IN /\ slot' \in [Slots -> ObjectRecord] /\ process' \in [Processes -> ProcessRecord]
     /\ \A t \in Slots \ {s} : slot'[t] = slot[t]
     /\ slot'[s].registered = slot[s].registered /\ slot'[s].config = slot[s].config
     /\ slot'[s].current = slot[s].current
     /\ slot'[s].events = <<>> /\ ~slot'[s].cut
     /\ slot[s].dead => slot'[s].dead
     /\ slot'[s].dead => ~process'[g].alive
     /\ \A h \in Processes \ {g} : process'[h] = process[h]
     /\ process'[g].slot = process[g].slot /\ process'[g].config = process[g].config
     /\ process'[g].ended = process[g].ended
     /\ process'[g].alive => process[g].alive
     /\ process'[g].inbox \in {process[g].inbox, <<>>}
     /\ ~process'[g].alive => process'[g].inbox = <<>>
     /\ \/ process'[g].out = process[g].out
        \/ process[g].out # <<>> /\ process'[g].out = Tail(process[g].out)
     /\ \/ /\ handler' = [handler EXCEPT ![c] = "NONE"]
           /\ via' = [via EXCEPT ![c] = 0]
           /\ slot'[s].turn = None
        \/ /\ handler' = [handler EXCEPT ![c] = "RESTART"]
           /\ via' = via
           /\ slot'[s].turn = c /\ slot'[s].dead
     /\ client' \in {client, [client EXCEPT ![c] = "FAILED"], [client EXCEPT ![c] = "DONE"]}
     /\ \/ answer' \in {answer, [answer EXCEPT ![c] = None]}
        \/ /\ handler[c] = "READ" /\ Pending(c) # <<>>
           /\ answer' = [answer EXCEPT ![c] = Head(Pending(c)).of]

\* The pipes of a process that goes on are empty when a turn is left.
LeftClean(c) ==
  protocol = "STREAM" =>
    \/ slot'[Slot(c)].dead
    \/ process'[Object(c).current].inbox = <<>> /\ process'[Object(c).current].out = <<>>

LEMMA FinishFields ==
  ASSUME BrokerInv, NEW c \in Calls, handler[c] # "NONE", NEW object \in ObjectRecord, NEW a,
         Finish(c, object, a)
  PROVE  /\ slot' \in [Slots -> ObjectRecord]
         /\ \A t \in Slots \ {Slot(c)} : slot'[t] = slot[t]
         /\ slot'[Slot(c)].registered = object.registered /\ slot'[Slot(c)].config = object.config
         /\ slot'[Slot(c)].current = object.current /\ slot'[Slot(c)].dead = object.dead
         /\ slot'[Slot(c)].turn = None /\ slot'[Slot(c)].events = <<>> /\ ~slot'[Slot(c)].cut
         /\ handler' = [handler EXCEPT ![c] = "NONE"]
         /\ via' = [via EXCEPT ![c] = 0]
         /\ client' \in {client, [client EXCEPT ![c] = "FAILED"], [client EXCEPT ![c] = "DONE"]}
         /\ answer' \in {answer, [answer EXCEPT ![c] = a]}
<1> DEFINE next == [object EXCEPT !.turn = None, !.try = 0, !.events = <<>>, !.cut = FALSE]
<1>1. slot' = [slot EXCEPT ![Slot(c)] = next]
  BY DEF Finish
<1>2. Slot(c) \in Slots /\ slot \in [Slots -> ObjectRecord]
  BY Places DEF BrokerInv, BrokerTypeOK
<1>3. next \in ObjectRecord
  <2>1. 0 \in 0 .. 2 /\ <<>> \in Seq(Line)
    BY EmptySeq
  <2> QED
    BY <2>1 DEF ObjectRecord
<1>4. /\ next.registered = object.registered /\ next.config = object.config
      /\ next.current = object.current /\ next.dead = object.dead
      /\ next.turn = None /\ next.events = <<>> /\ ~next.cut
  BY DEF ObjectRecord
<1> HIDE DEF next
<1>5. /\ slot' \in [Slots -> ObjectRecord] /\ slot'[Slot(c)] = next
      /\ \A t \in Slots \ {Slot(c)} : slot'[t] = slot[t]
  BY <1>1, <1>2, <1>3
<1>6. /\ handler' = [handler EXCEPT ![c] = "NONE"] /\ via' = [via EXCEPT ![c] = 0]
      /\ client' \in {client, [client EXCEPT ![c] = "FAILED"], [client EXCEPT ![c] = "DONE"]}
      /\ answer' \in {answer, [answer EXCEPT ![c] = a]}
  BY DEF Finish
<1> QED
  BY <1>4, <1>5, <1>6

LEMMA InvalidatedFields ==
  ASSUME NEW object \in ObjectRecord
  PROVE  /\ Invalidated(object) \in ObjectRecord /\ Invalidated(object).dead
         /\ Invalidated(object).registered = object.registered /\ Invalidated(object).config = object.config
         /\ Invalidated(object).current = object.current /\ Invalidated(object).turn = object.turn
  BY DEF Invalidated, ObjectRecord

\* `read': the line that failed the turn was taken from the pipe.
LEMMA FailureLeaves ==
  ASSUME BrokerInv, NEW c \in Calls, handler[c] \in TurnStates,
         NEW object \in {Object(c), Invalidated(Object(c))}, object.dead => ~Current(c).alive,
         NEW processes, \/ processes = process
                        \/ /\ Current(c).out # <<>>
                           /\ processes = [process EXCEPT ![Object(c).current].out = Tail(@)],
         AfterFailure(c, object, processes)
  PROVE  /\ TurnLeft(c)
         /\ object.dead \/ GaveUp(c) => slot'[Slot(c)].dead
         /\ slot'[Slot(c)].dead \/ process' = processes
<1> DEFINE s == Slot(c)
           g == Object(c).current
<1>1. /\ s \in Slots /\ Object(c) = slot[s] /\ slot[s] \in ObjectRecord /\ slot[s].turn = c
      /\ g \in Processes /\ Current(c) = process[g] /\ process[g] \in ProcessRecord
      /\ slot \in [Slots -> ObjectRecord] /\ process \in [Processes -> ProcessRecord]
  BY Places DEF BrokerInv, BrokerTypeOK, TurnsHeld, TurnStates
<1>2. /\ object \in ObjectRecord /\ object.registered = slot[s].registered
      /\ object.config = slot[s].config /\ object.current = g /\ object.turn = c
      /\ slot[s].dead => object.dead
  BY <1>1, InvalidatedFields
<1>3. handler[c] # "NONE"
  BY DEF TurnStates
<1> HIDE DEF s, g
<1>4. /\ processes \in [Processes -> ProcessRecord]
      /\ \A h \in Processes \ {g} : processes[h] = process[h]
      /\ processes[g].slot = process[g].slot /\ processes[g].config = process[g].config
      /\ processes[g].alive = process[g].alive /\ processes[g].ended = process[g].ended
      /\ processes[g].inbox = process[g].inbox
      /\ \/ processes[g].out = process[g].out
         \/ process[g].out # <<>> /\ processes[g].out = Tail(process[g].out)
  <2>1. CASE processes = process
    BY <1>1, <2>1
  <2>2. CASE process[g].out # <<>> /\ processes = [process EXCEPT ![g].out = Tail(@)]
    <3> DEFINE next == [process[g] EXCEPT !.out = Tail(process[g].out)]
    <3>1. Tail(process[g].out) \in Seq(Line)
      BY <1>1, <2>2, QueueFacts DEF ProcessRecord
    <3>2. /\ next \in ProcessRecord /\ next.slot = process[g].slot /\ next.config = process[g].config
          /\ next.alive = process[g].alive /\ next.ended = process[g].ended
          /\ next.inbox = process[g].inbox /\ next.out = Tail(process[g].out)
      BY <1>1, <3>1 DEF ProcessRecord
    <3>3. processes = [process EXCEPT ![g] = next]
      BY <2>2
    <3> HIDE DEF next
    <3> QED
      BY <1>1, <2>2, <3>2, <3>3
  <2> QED
    BY <1>1, <2>1, <2>2 DEF g
<1>5. ~process[g].alive => process[g].inbox = <<>>
  BY <1>1 DEF BrokerInv, EndsKnown
<1>6. CASE GaveUp(c) /\ Finish(c, Invalidated(object), None)
           /\ process' = [processes EXCEPT ![object.current].alive = FALSE,
                                           ![object.current].inbox = <<>>,
                                           ![object.current].stdin = FALSE]
  <2> DEFINE next == [processes[g] EXCEPT !.alive = FALSE, !.inbox = <<>>, !.stdin = FALSE]
  <2>1. /\ next \in ProcessRecord /\ next.slot = processes[g].slot /\ next.config = processes[g].config
        /\ ~next.alive /\ next.ended = processes[g].ended
        /\ next.inbox = <<>> /\ next.out = processes[g].out
    BY <1>1, <1>4, EmptySeq DEF ProcessRecord
  <2>2. process' = [processes EXCEPT ![g] = next]
    BY <1>2, <1>6
  <2> HIDE DEF next
  <2>3. /\ process' \in [Processes -> ProcessRecord] /\ process'[g] = next
        /\ \A h \in Processes \ {g} : process'[h] = processes[h]
    BY <1>1, <1>4, <2>1, <2>2
  <2>4. /\ slot' \in [Slots -> ObjectRecord]
        /\ \A t \in Slots \ {s} : slot'[t] = slot[t]
        /\ slot'[s].registered = slot[s].registered /\ slot'[s].config = slot[s].config
        /\ slot'[s].current = g /\ slot'[s].dead
        /\ slot'[s].turn = None /\ slot'[s].events = <<>> /\ ~slot'[s].cut
        /\ handler' = [handler EXCEPT ![c] = "NONE"]
        /\ via' = [via EXCEPT ![c] = 0]
        /\ client' \in {client, [client EXCEPT ![c] = "FAILED"], [client EXCEPT ![c] = "DONE"]}
        /\ answer' \in {answer, [answer EXCEPT ![c] = None]}
    <3>1. Invalidated(object) \in ObjectRecord /\ Invalidated(object).dead
          /\ Invalidated(object).registered = slot[s].registered
          /\ Invalidated(object).config = slot[s].config /\ Invalidated(object).current = g
      BY <1>2, InvalidatedFields
    <3> QED
      BY <1>3, <1>6, <3>1, FinishFields DEF s
  <2> QED
    BY <1>1, <1>4, <2>1, <2>3, <2>4 DEF TurnLeft, s, g
<1>7. CASE ~GaveUp(c) /\ object.dead /\ process' = processes
           /\ slot' = [slot EXCEPT ![Slot(c)] = [object EXCEPT !.events = <<>>, !.cut = FALSE]]
           /\ handler' = [handler EXCEPT ![c] = "RESTART"]
           /\ UNCHANGED <<client, via, answer>>
  <2> DEFINE next == [object EXCEPT !.events = <<>>, !.cut = FALSE]
  <2>1. /\ next \in ObjectRecord /\ next.registered = slot[s].registered
        /\ next.config = slot[s].config /\ next.current = g
        /\ next.turn = c /\ next.dead /\ next.events = <<>> /\ ~next.cut
    BY <1>2, <1>7, EmptySeq DEF ObjectRecord
  <2>2. slot' = [slot EXCEPT ![s] = next]
    BY <1>7 DEF s
  <2> HIDE DEF next
  <2>3. /\ slot' \in [Slots -> ObjectRecord] /\ slot'[s] = next
        /\ \A t \in Slots \ {s} : slot'[t] = slot[t]
    BY <1>1, <2>1, <2>2
  <2>4. slot'[s].current = slot[s].current
    BY <1>1, <2>1, <2>3 DEF g
  <2> QED
    BY <1>1, <1>4, <1>5, <1>7, <2>1, <2>3, <2>4 DEF TurnLeft, s, g
<1>8. CASE ~GaveUp(c) /\ Finish(c, object, None) /\ process' = processes
  <2>1. /\ slot' \in [Slots -> ObjectRecord]
        /\ \A t \in Slots \ {s} : slot'[t] = slot[t]
        /\ slot'[s].registered = object.registered /\ slot'[s].config = object.config
        /\ slot'[s].current = object.current /\ slot'[s].dead = object.dead
        /\ slot'[s].turn = None /\ slot'[s].events = <<>> /\ ~slot'[s].cut
        /\ handler' = [handler EXCEPT ![c] = "NONE"]
        /\ via' = [via EXCEPT ![c] = 0]
        /\ client' \in {client, [client EXCEPT ![c] = "FAILED"], [client EXCEPT ![c] = "DONE"]}
        /\ answer' \in {answer, [answer EXCEPT ![c] = None]}
    BY <1>2, <1>3, <1>8, FinishFields DEF s
  <2>2. slot'[s].current = slot[s].current
    BY <1>1, <1>2, <2>1 DEF g
  <2> QED
    BY <1>1, <1>2, <1>4, <1>5, <1>8, <2>1, <2>2 DEF TurnLeft, s, g
<1> QED
  BY <1>6, <1>7, <1>8 DEF AfterFailure

LEMMA TurnLeftKeeps ==
  ASSUME BrokerInv, NEW c \in Calls, handler[c] \in TurnStates, TurnLeft(c), LeftClean(c),
         UNCHANGED <<service, made, seen>>, faults' \in 0 .. MaxFaults
  PROVE  BrokerInv'
<1> DEFINE s == Slot(c)
           g == Object(c).current
<1>1. /\ s \in Slots /\ Object(c) = slot[s] /\ slot[s] \in ObjectRecord /\ slot[s].turn = c
      /\ g \in Processes /\ g # 0 /\ Current(c) = process[g] /\ process[g].slot = s
      /\ g \in 1 .. made /\ slot[s].current = g
  BY Places DEF BrokerInv, TurnsHeld, TurnStates, Processes
<1>2. UNCHANGED <<protocol, setup, broker, lock>>
  BY DEF service
<1>3. /\ slot' \in [Slots -> ObjectRecord] /\ process' \in [Processes -> ProcessRecord]
      /\ \A t \in Slots \ {s} : slot'[t] = slot[t]
      /\ slot'[s].registered = slot[s].registered /\ slot'[s].config = slot[s].config
      /\ slot'[s].current = g
      /\ slot'[s].events = <<>> /\ ~slot'[s].cut
      /\ slot[s].dead => slot'[s].dead
      /\ slot'[s].dead => ~process'[g].alive
      /\ \A h \in Processes \ {g} : process'[h] = process[h]
      /\ process'[g].slot = process[g].slot /\ process'[g].config = process[g].config
      /\ process'[g].ended = process[g].ended
      /\ process'[g].alive => process[g].alive
      /\ process'[g].inbox \in {process[g].inbox, <<>>}
      /\ ~process'[g].alive => process'[g].inbox = <<>>
      /\ \/ process'[g].out = process[g].out
         \/ process[g].out # <<>> /\ process'[g].out = Tail(process[g].out)
  BY <1>1 DEF TurnLeft
<1>4. PICK h \in TurnStates \cup {"NONE"} :
        /\ h \in {"NONE", "RESTART"}
        /\ handler' = [handler EXCEPT ![c] = h]
        /\ via' = IF h = "NONE" THEN [via EXCEPT ![c] = 0] ELSE via
        /\ h = "RESTART" => slot'[s].dead
        /\ slot'[s].turn = IF h = "NONE" THEN None ELSE c
  BY DEF TurnLeft, TurnStates
<1>5. /\ client' \in {client, [client EXCEPT ![c] = "FAILED"], [client EXCEPT ![c] = "DONE"]}
      /\ \A a \in Calls \ {c} : client'[a] = client[a]
      /\ client'[c] \in {client[c], "FAILED", "DONE"}
  BY DEF TurnLeft, BrokerInv, BrokerTypeOK
<1>6. answer' \in [Calls -> Calls \cup {None}]
  <2>1. answer \in [Calls -> Calls \cup {None}]
    BY DEF BrokerInv, BrokerTypeOK
  <2>2. Pending(c) \in Seq(Line)
    <3>1. Object(c).events \in Seq(Line)
      BY <1>1 DEF ObjectRecord
    <3>2. process[g].out \in Seq(Line)
      BY <1>1 DEF BrokerInv, BrokerTypeOK, ProcessRecord
    <3> QED
      BY <1>1, <3>1, <3>2 DEF Pending
  <2>3. Pending(c) # <<>> => Head(Pending(c)) \in Line
    BY <2>2, QueueFacts
  <2>4. Pending(c) # <<>> => Head(Pending(c)).of \in Calls
    BY <2>3 DEF Line
  <2> QED
    BY <2>1, <2>4 DEF TurnLeft
<1>7. BrokerTypeOK'
  <2>1. 0 \in 0 .. MaxBrokers
    BY BoundsAreNumbers
  <2>2. via' \in [Calls -> 0 .. MaxBrokers]
    BY <1>4, <2>1 DEF BrokerInv, BrokerTypeOK
  <2>3. handler' \in [Calls -> {"NONE", "HANDSHAKE", "QUEUED", "SEND", "READ", "RESTART", "RESUME"}]
    BY <1>4 DEF BrokerInv, BrokerTypeOK
  <2>4. client' \in [Calls -> {"NEW", "REGISTER", "PROMPT", "WAITING", "DONE", "FAILED"}]
    BY <1>5 DEF BrokerInv, BrokerTypeOK
  <2> QED
    BY <1>2, <1>3, <1>6, <2>2, <2>3, <2>4 DEF BrokerInv, BrokerTypeOK
<1> HIDE DEF s, g
<1>8. HandlersPlaced' /\ HandshakesLock' /\ TurnsHeld' /\ AcceptedStays'
  BY <1>1, <1>2, <1>3, <1>4, <1>5, TurnMoves DEF s
<1>9. ProcessesNumbered'
  <2>1. ~(g > made)
    BY <1>1, BoundsAreNumbers DEF BrokerInv, BrokerTypeOK
  <2> QED
    BY <1>1, <1>3, <2>1, NumberedStays
<1>10. EndsKnown'
  BY <1>1, <1>2, <1>3, EndsStay DEF BrokerInv, EndsKnown
<1>11. LastIsAlive'
  BY <1>1, <1>2, <1>3, AliveStays
<1>12. PipesClean'
  <2> SUFFICES ASSUME protocol = "STREAM" PROVE PipesClean'
    BY <1>2 DEF PipesClean
  <2>1. \A t \in Slots : slot[t].current # 0 => slot[t].current \in Processes /\ process[slot[t].current].slot = t
    BY ObjectFields DEF BrokerInv, ProcessesNumbered
  <2>2. ASSUME NEW t \in Slots
        PROVE  /\ slot'[t].events = <<>> /\ ~slot'[t].cut
               /\ slot'[t].current # 0 /\ ~slot'[t].dead /\ ~Subscribed(t)' =>
                    process'[slot'[t].current].inbox = <<>> /\ process'[slot'[t].current].out = <<>>
    <3>1. CASE t = s
      BY <1>1, <1>3, <3>1 DEF LeftClean, s, g
    <3>2. CASE t # s
      <4>1. slot'[t] = slot[t] /\ (slot[t].current # 0 => process'[slot[t].current] = process[slot[t].current])
        BY <1>1, <1>3, <2>1, <3>2
      <4>2. Subscribed(t) => Subscribed(t)'
        <5> SUFFICES ASSUME NEW a \in Calls, handler[a] = "READ", slot[t].turn = a
                     PROVE  handler'[a] = "READ" /\ slot'[t].turn = a
          BY DEF Subscribed
        <5>1. slot[t].turn # None /\ a # c
          BY <1>1, <3>2, TurnHolder, NoneIsNoValue DEF s
        <5> QED
          BY <1>4, <4>1, <5>1 DEF BrokerInv, BrokerTypeOK
      <4> QED
        BY <4>1, <4>2 DEF BrokerInv, PipesClean
    <3> QED
      BY <3>1, <3>2
  <2>3. ASSUME NEW a \in Calls, handler'[a] = "READ"
        PROVE  \/ Current(a)'.inbox = <<>> /\ Current(a)'.out = <<>>
               \/ Current(a)'.inbox = <<a>> /\ Current(a)'.out = <<>>
               \/ Current(a)'.inbox = <<>> /\ \E ok \in BOOLEAN : Current(a)'.out = <<[of |-> a, ok |-> ok]>>
    <3>1. a # c /\ handler[a] = "READ" /\ via'[a] = via[a]
      BY <1>4, <2>3 DEF BrokerInv, BrokerTypeOK
    <3>2. Slot(a) \in Slots /\ Slot(a) # s /\ Object(a) = slot[Slot(a)] /\ Object(a).current # 0
      BY <1>1, <3>1, Places DEF BrokerInv, TurnsHeld, TurnStates, Processes
    <3>3. Object(a)' = Object(a)
      BY <1>3, <3>1, <3>2 DEF Object, Slot
    <3>4. Object(a).current \in Processes /\ Object(a).current # g
      BY <1>1, <2>1, <3>2
    <3>5. Current(a)' = Current(a)
      BY <1>3, <3>3, <3>4 DEF Current
    <3> QED
      BY <3>1, <3>5 DEF BrokerInv, PipesClean
  <2> QED
    BY <2>2, <2>3 DEF PipesClean
<1>13. RuntimesApart'
  <2>1. process[g].slot # None
    BY <1>1, NoneIsNoValue
  <2>2. process'[g].inbox \in Seq(CallsOf(process'[g].slot[2]))
    BY <1>1, <1>3, <2>1, EmptySeq DEF BrokerInv, RuntimesApart
  <2>3. process'[g].out \in Seq(LinesOf(process'[g].slot[2]))
    <3>1. process[g].out \in Seq(LinesOf(process[g].slot[2]))
      BY <1>1, <2>1 DEF BrokerInv, RuntimesApart
    <3>2. process[g].out # <<>> => Tail(process[g].out) \in Seq(LinesOf(process[g].slot[2]))
      BY <3>1, QueueFacts
    <3> QED
      BY <1>3, <3>1, <3>2
  <2>4. ASSUME NEW t \in Slots PROVE slot'[t].events \in Seq(LinesOf(t[2]))
    <3>1. slot[t].events \in Seq(LinesOf(t[2])) /\ <<>> \in Seq(LinesOf(t[2]))
      BY EmptySeq DEF BrokerInv, RuntimesApart
    <3>2. slot'[t].events = <<>> \/ slot'[t] = slot[t]
      BY <1>3
    <3> QED
      BY <3>1, <3>2
  <2> QED
    BY <1>3, <2>2, <2>3, <2>4 DEF BrokerInv, RuntimesApart
<1> QED
  BY <1>7, <1>8, <1>9, <1>10, <1>11, <1>12, <1>13 DEF BrokerInv


LEMMA LinesWaiting ==
  ASSUME BrokerInv, NEW c \in Calls, handler[c] = "READ"
  PROVE  /\ Pending(c) \in Seq(LinesOf(RuntimeOf[c]))
         /\ protocol = "STREAM" /\ Pending(c) # <<>> =>
              /\ Head(Pending(c)).of = c
              /\ Current(c).inbox = <<>> /\ Tail(Current(c).out) = <<>>
<1>1. /\ Slot(c) \in Slots /\ Slot(c)[2] = RuntimeOf[c] /\ Object(c) = slot[Slot(c)]
      /\ Current(c) = process[Object(c).current] /\ Current(c).slot = Slot(c)
      /\ Object(c).current \in Processes
  BY Places
<1>2. Pending(c) \in Seq(LinesOf(RuntimeOf[c]))
  BY <1>1, NoneIsNoValue DEF Pending, BrokerInv, RuntimesApart
<1>3. ASSUME protocol = "STREAM", Pending(c) # <<>>
      PROVE  Head(Pending(c)).of = c /\ Current(c).inbox = <<>> /\ Tail(Current(c).out) = <<>>
  <2>1. PICK ok \in BOOLEAN : Current(c).inbox = <<>> /\ Current(c).out = <<[of |-> c, ok |-> ok]>>
    BY <1>3 DEF Pending, BrokerInv, PipesClean
  <2> QED
    BY <1>3, <2>1, QueueOfOne DEF Pending
<1> QED
  BY <1>2, <1>3

LEMMA WriteFailsKeeps ==
  ASSUME BrokerInv, NEW c \in Calls, WriteFails(c)
  PROVE  BrokerInv' /\ TurnLeft(c)
<1> DEFINE object == Invalidated(Object(c))
<1>1. /\ handler[c] = "SEND" /\ (Object(c).dead \/ ~Current(c).alive)
      /\ AfterFailure(c, object, process)
      /\ UNCHANGED <<service, made, seen, faults>>
  BY DEF WriteFails, SendUnchanged
<1>2. /\ Slot(c) \in Slots /\ Object(c) = slot[Slot(c)] /\ Object(c) \in ObjectRecord
      /\ Current(c) = process[Object(c).current]
  BY <1>1, Places
<1>3. ~Current(c).alive
  BY <1>1, <1>2 DEF BrokerInv, LastIsAlive
<1>4. object.dead
  BY <1>2, InvalidatedFields
<1>5. TurnLeft(c) /\ slot'[Slot(c)].dead
  BY <1>1, <1>3, <1>4, FailureLeaves DEF TurnStates
<1>6. faults' \in 0 .. MaxFaults
  BY <1>1, FaultCounts
<1> QED
  BY <1>1, <1>5, <1>6, TurnLeftKeeps DEF TurnStates, LeftClean

LEMMA CancelledKeeps ==
  ASSUME BrokerInv, NEW c \in Calls, Cancelled(c)
  PROVE  BrokerInv' /\ TurnLeft(c)
<1>1. /\ handler[c] = "READ" /\ GaveUp(c)
      /\ AfterFailure(c, Object(c), process)
      /\ UNCHANGED <<service, made, seen, faults>>
  BY DEF Cancelled, SendUnchanged
<1>2. Object(c).dead => ~Current(c).alive
  BY <1>1, Places DEF BrokerInv, LastIsAlive
<1>3. TurnLeft(c) /\ slot'[Slot(c)].dead
  BY <1>1, <1>2, FailureLeaves DEF TurnStates
<1>4. faults' \in 0 .. MaxFaults
  BY <1>1, FaultCounts
<1> QED
  BY <1>1, <1>3, <1>4, TurnLeftKeeps DEF TurnStates, LeftClean

LEMMA ReadFailsKeeps ==
  ASSUME BrokerInv, NEW c \in Calls, ReadFails(c)
  PROVE  BrokerInv' /\ TurnLeft(c)
<1>1. /\ handler[c] = "READ" /\ Closed(c)
      /\ AfterFailure(c, Object(c), process)
      /\ UNCHANGED <<service, made, seen, faults>>
  BY DEF ReadFails, SendUnchanged
<1>2. /\ Slot(c) \in Slots /\ Object(c) = slot[Slot(c)] /\ Object(c).current \in Processes
      /\ Object(c).current # 0 /\ Current(c) = process[Object(c).current]
  BY <1>1, Places DEF Processes
<1>3. Object(c).dead => ~Current(c).alive
  BY <1>2 DEF BrokerInv, LastIsAlive
<1>4. TurnLeft(c) /\ (Object(c).dead => slot'[Slot(c)].dead)
  BY <1>1, <1>3, FailureLeaves DEF TurnStates
<1>5. protocol = "STREAM" => Object(c).dead
  BY <1>1, <1>2 DEF Closed, BrokerInv, EndsKnown, PipesClean
<1>6. faults' \in 0 .. MaxFaults
  BY <1>1, FaultCounts
<1> QED
  BY <1>1, <1>4, <1>5, <1>6, TurnLeftKeeps DEF TurnStates, LeftClean

LEMMA TakeKeeps ==
  ASSUME BrokerInv, NEW c \in Calls, Take(c)
  PROVE  BrokerInv' /\ TurnLeft(c)
<1> DEFINE s == Slot(c)
           g == Object(c).current
           taken == IF protocol = "STREAM" THEN [process EXCEPT ![g].out = Tail(@)] ELSE process
           line == Head(Pending(c))
<1>1. /\ handler[c] = "READ" /\ Pending(c) # <<>>
      /\ IF line.ok THEN Finish(c, Object(c), line.of) /\ process' = taken
                    ELSE AfterFailure(c, Object(c), taken)
      /\ UNCHANGED <<service, made, seen, faults>>
  BY DEF Take, SendUnchanged
<1>2. /\ s \in Slots /\ Object(c) = slot[s] /\ Object(c) \in ObjectRecord
      /\ g \in Processes /\ g # 0 /\ Current(c) = process[g] /\ process[g] \in ProcessRecord
      /\ process \in [Processes -> ProcessRecord]
  BY <1>1, Places DEF Processes, BrokerInv, BrokerTypeOK
<1>3. Object(c).dead => ~Current(c).alive
  BY <1>2 DEF BrokerInv, LastIsAlive
<1>4. protocol = "STREAM" => Current(c).out # <<>> /\ Current(c).inbox = <<>> /\ Tail(Current(c).out) = <<>>
  BY <1>1, LinesWaiting DEF Pending
<1>5. faults' \in 0 .. MaxFaults
  BY <1>1, FaultCounts
<1>6. /\ taken \in [Processes -> ProcessRecord]
      /\ \A h \in Processes \ {g} : taken[h] = process[h]
      /\ taken[g].slot = process[g].slot /\ taken[g].config = process[g].config
      /\ taken[g].alive = process[g].alive /\ taken[g].ended = process[g].ended
      /\ taken[g].inbox = process[g].inbox
      /\ \/ taken[g].out = process[g].out
         \/ process[g].out # <<>> /\ taken[g].out = Tail(process[g].out)
      /\ protocol = "STREAM" => taken[g].inbox = <<>> /\ taken[g].out = <<>>
  <2>1. CASE protocol # "STREAM"
    BY <1>2, <2>1
  <2>2. CASE protocol = "STREAM"
    <3> DEFINE next == [process[g] EXCEPT !.out = Tail(process[g].out)]
    <3>1. /\ next \in ProcessRecord /\ next.slot = process[g].slot /\ next.config = process[g].config
          /\ next.alive = process[g].alive /\ next.ended = process[g].ended
          /\ next.inbox = process[g].inbox /\ next.out = Tail(process[g].out)
      BY <1>2, <1>4, <2>2, EmptySeq DEF ProcessRecord
    <3>2. taken = [process EXCEPT ![g] = next]
      BY <2>2
    <3> HIDE DEF next, taken, g
    <3> QED
      BY <1>2, <1>4, <2>2, <3>1, <3>2
  <2> QED
    BY <2>1, <2>2
<1>7. CASE line.ok
  <2>1. Finish(c, Object(c), line.of) /\ process' = taken
    BY <1>1, <1>7
  <2>2. /\ slot' \in [Slots -> ObjectRecord]
        /\ \A t \in Slots \ {s} : slot'[t] = slot[t]
        /\ slot'[s].registered = slot[s].registered /\ slot'[s].config = slot[s].config
        /\ slot'[s].current = g /\ slot'[s].dead = slot[s].dead
        /\ slot'[s].turn = None /\ slot'[s].events = <<>> /\ ~slot'[s].cut
        /\ handler' = [handler EXCEPT ![c] = "NONE"]
        /\ via' = [via EXCEPT ![c] = 0]
        /\ client' \in {client, [client EXCEPT ![c] = "FAILED"], [client EXCEPT ![c] = "DONE"]}
        /\ answer' \in {answer, [answer EXCEPT ![c] = line.of]}
    BY <1>1, <1>2, <2>1, FinishFields
  <2>3. ~process[g].alive => process[g].inbox = <<>>
    BY <1>2 DEF BrokerInv, EndsKnown
  <2>4. slot[s].current = g /\ (slot[s].dead => ~process[g].alive)
    BY <1>2, <1>3
  <2> HIDE DEF taken, g, s, line
  <2>5. TurnLeft(c)
    BY <1>1, <1>6, <2>1, <2>2, <2>3, <2>4 DEF TurnLeft, g, s, line
  <2>6. LeftClean(c)
    BY <1>6, <2>1 DEF LeftClean, g
  <2> QED
    BY <1>1, <1>5, <2>5, <2>6, TurnLeftKeeps DEF TurnStates
<1>8. CASE ~line.ok
  <2>1. AfterFailure(c, Object(c), taken)
    BY <1>1, <1>8
  <2>2. \/ taken = process
        \/ Current(c).out # <<>> /\ taken = [process EXCEPT ![Object(c).current].out = Tail(@)]
    BY <1>4
  <2> HIDE DEF taken
  <2>3. TurnLeft(c) /\ (slot'[Slot(c)].dead \/ process' = taken)
    BY <1>1, <1>3, <2>1, <2>2, FailureLeaves DEF TurnStates
  <2>4. LeftClean(c)
    BY <1>6, <2>3 DEF LeftClean
  <2> QED
    BY <1>1, <1>5, <2>3, <2>4, TurnLeftKeeps DEF TurnStates
<1> QED
  BY <1>7, <1>8

LEMMA RestartFailsKeeps ==
  ASSUME BrokerInv, NEW c \in Calls, RestartFails(c)
  PROVE  BrokerInv' /\ TurnLeft(c)
<1> DEFINE s == Slot(c)
           g == Object(c).current
<1>1. /\ \/ handler[c] = "RESTART" /\ process' = process
         \/ handler[c] = "RESUME" /\ process' = Killed(g)
      /\ Fault \/ UNCHANGED faults
      /\ Finish(c, Object(c), None)
      /\ UNCHANGED <<service, made, seen>>
  BY DEF RestartFails
<1>2. handler[c] \in {"RESTART", "RESUME"} /\ handler[c] \in TurnStates /\ handler[c] # "NONE"
  BY <1>1 DEF TurnStates
<1>3. /\ s \in Slots /\ Object(c) = slot[s] /\ Object(c) \in ObjectRecord /\ slot[s].turn = c
      /\ g \in Processes /\ g # 0 /\ Current(c) = process[g] /\ slot[s].current = g
      /\ process \in [Processes -> ProcessRecord]
      /\ slot[s].dead => ~process[g].alive
  BY <1>2, Places DEF Processes, BrokerInv, BrokerTypeOK, TurnsHeld, LastIsAlive
<1>4. ~process[g].alive => process[g].inbox = <<>>
  BY <1>3 DEF BrokerInv, EndsKnown
<1>5. /\ slot' \in [Slots -> ObjectRecord]
      /\ \A t \in Slots \ {s} : slot'[t] = slot[t]
      /\ slot'[s].registered = slot[s].registered /\ slot'[s].config = slot[s].config
      /\ slot'[s].current = g /\ slot'[s].dead = slot[s].dead
      /\ slot'[s].turn = None /\ slot'[s].events = <<>> /\ ~slot'[s].cut
      /\ handler' = [handler EXCEPT ![c] = "NONE"]
      /\ via' = [via EXCEPT ![c] = 0]
      /\ client' \in {client, [client EXCEPT ![c] = "FAILED"], [client EXCEPT ![c] = "DONE"]}
      /\ answer' \in {answer, [answer EXCEPT ![c] = None]}
  BY <1>1, <1>2, <1>3, FinishFields
<1>6. /\ process' \in [Processes -> ProcessRecord]
      /\ process'[g].slot = process[g].slot /\ process'[g].config = process[g].config
      /\ process'[g].ended = process[g].ended
      /\ process'[g].alive => process[g].alive
      /\ process'[g].inbox \in {process[g].inbox, <<>>}
      /\ ~process'[g].alive => process'[g].inbox = <<>>
      /\ process'[g].out = process[g].out
      /\ \A h \in Processes \ {g} : process'[h] = process[h]
  <2>1. CASE process' = process
    BY <1>3, <1>4, <2>1
  <2>2. CASE process' = Killed(g)
    BY <1>3, <2>2, KilledFields
  <2> QED
    BY <1>1, <2>1, <2>2
<1> HIDE DEF s, g
<1>7. TurnLeft(c)
  BY <1>3, <1>5, <1>6 DEF TurnLeft, s, g
<1>8. LeftClean(c)
  <2> SUFFICES ASSUME protocol = "STREAM", ~slot'[s].dead
               PROVE  process'[g].inbox = <<>> /\ process'[g].out = <<>>
    BY DEF LeftClean, s, g
  <2>1. handler[c] = "RESUME"
    BY <1>2, <1>3, <1>5 DEF BrokerInv, TurnsHeld
  <2>2. ~Subscribed(s)
    BY <1>3, <2>1 DEF Subscribed
  <2>3. process[g].inbox = <<>> /\ process[g].out = <<>>
    BY <1>3, <1>5, <2>2 DEF BrokerInv, PipesClean
  <2> QED
    BY <1>6, <2>3
<1>9. faults' \in 0 .. MaxFaults
  BY <1>1, FaultCounts
<1> QED
  BY <1>1, <1>2, <1>7, <1>8, <1>9, TurnLeftKeeps

LEMMA WriteKeeps ==
  ASSUME BrokerInv, NEW c \in Calls, Write(c)
  PROVE  BrokerInv'
<1> DEFINE s == Slot(c)
           g == Object(c).current
           next == [process[g] EXCEPT !.inbox = Append(process[g].inbox, c)]
<1>1. /\ handler[c] = "SEND" /\ ~Object(c).dead /\ Current(c).alive
      /\ process' = [process EXCEPT ![g] = next]
      /\ handler' = [handler EXCEPT ![c] = "READ"]
      /\ UNCHANGED <<slot, client, via, answer, service, made, seen, faults>>
  BY DEF Write, SendUnchanged
<1>2. /\ s \in Slots /\ s[2] = RuntimeOf[c] /\ Object(c) = slot[s]
      /\ slot[s] \in ObjectRecord /\ slot[s].turn = c
      /\ g \in Processes /\ g # 0 /\ g \in 1 .. made
      /\ Current(c) = process[g] /\ process[g] \in ProcessRecord /\ process[g].slot = s
      /\ process \in [Processes -> ProcessRecord]
  BY <1>1, Places DEF Processes, BrokerInv, BrokerTypeOK, TurnsHeld, TurnStates
<1>3. /\ next \in ProcessRecord /\ next.slot = process[g].slot /\ next.config = process[g].config
      /\ next.alive /\ next.ended = process[g].ended /\ next.out = process[g].out
      /\ next.inbox = Append(process[g].inbox, c)
  <2>1. Append(process[g].inbox, c) \in Seq(Calls)
    BY <1>2, QueueFacts DEF ProcessRecord
  <2> QED
    BY <1>1, <1>2, <2>1 DEF ProcessRecord
<1> HIDE DEF next, s, g
<1>4. /\ process' \in [Processes -> ProcessRecord] /\ process'[g] = next
      /\ \A h \in Processes \ {g} : process'[h] = process[h]
  BY <1>1, <1>2, <1>3
<1>5. process[g].alive /\ slot[s].current = g
  BY <1>1, <1>2 DEF g
<1>6. /\ \A a \in Calls \ {c} : handler'[a] = handler[a]
      /\ handler'[c] = "READ"
      /\ UNCHANGED <<protocol, setup, broker, lock, via, client, answer, seen, faults, made, slot>>
  BY <1>1 DEF BrokerInv, BrokerTypeOK, service
<1>7. BrokerTypeOK'
  BY <1>1, <1>4, <1>6 DEF BrokerInv, BrokerTypeOK
<1>8. HandlersPlaced' /\ HandshakesLock' /\ TurnsHeld' /\ AcceptedStays'
  <2>1. /\ handler[c] \in TurnStates /\ "READ" \in TurnStates \cup {"NONE"}
        /\ slot'[Slot(c)] = Object(c) /\ slot'[Slot(c)].current # 0 /\ slot'[Slot(c)].turn = c
    BY <1>1, <1>2, <1>5 DEF TurnStates, s
  <2> QED
    BY <1>1, <1>6, <2>1, TurnMoves
<1>9. ProcessesNumbered'
  <2>1. ~(g > made)
    BY <1>2, BoundsAreNumbers DEF BrokerInv, BrokerTypeOK
  <2> QED
    BY <1>3, <1>4, <1>6, <2>1, NumberedStays
<1>10. EndsKnown'
  BY <1>3, <1>4, <1>5, <1>6, EndsStay DEF BrokerInv, EndsKnown
<1>11. LastIsAlive'
  BY <1>3, <1>4, <1>5, <1>6, AliveStays DEF BrokerInv, LastIsAlive
<1>12. PipesClean'
  <2> SUFFICES ASSUME protocol = "STREAM" PROVE PipesClean'
    BY <1>6 DEF PipesClean
  <2>1. \A t \in Slots : slot[t].current # 0 => slot[t].current \in Processes /\ process[slot[t].current].slot = t
    BY ObjectFields DEF BrokerInv, ProcessesNumbered
  <2>2. process[g].inbox = <<>> /\ process[g].out = <<>>
    <3>1. ~Subscribed(s)
      BY <1>1, <1>2 DEF Subscribed
    <3> QED
      BY <1>1, <1>2, <1>5, <3>1 DEF BrokerInv, PipesClean
  <2>3. next.inbox = <<c>> /\ next.out = <<>>
    BY <1>3, <2>2
  <2>4. \E a \in Calls : handler'[a] = "READ" /\ slot'[s].turn = a
    BY <1>2, <1>6
  <2>5. ASSUME NEW t \in Slots
        PROVE  /\ slot'[t].events = <<>> /\ ~slot'[t].cut
               /\ slot'[t].current # 0 /\ ~slot'[t].dead /\ ~Subscribed(t)' =>
                    process'[slot'[t].current].inbox = <<>> /\ process'[slot'[t].current].out = <<>>
    <3>1. slot[t].events = <<>> /\ ~slot[t].cut
      BY DEF BrokerInv, PipesClean
    <3>2. CASE t = s
      BY <1>6, <2>4, <3>1, <3>2 DEF Subscribed
    <3>3. CASE t # s
      <4>1. slot[t].current # 0 => process'[slot[t].current] = process[slot[t].current]
        BY <1>2, <1>4, <2>1, <3>3
      <4>2. Subscribed(t) => Subscribed(t)'
        BY <1>1, <1>6 DEF Subscribed
      <4> QED
        BY <1>6, <3>1, <4>1, <4>2 DEF BrokerInv, PipesClean
    <3> QED
      BY <3>2, <3>3
  <2>6. ASSUME NEW a \in Calls, handler'[a] = "READ"
        PROVE  \/ Current(a)'.inbox = <<>> /\ Current(a)'.out = <<>>
               \/ Current(a)'.inbox = <<a>> /\ Current(a)'.out = <<>>
               \/ Current(a)'.inbox = <<>> /\ \E ok \in BOOLEAN : Current(a)'.out = <<[of |-> a, ok |-> ok]>>
    <3>1. CASE a = c
      <4>1. Current(c)' = next
        BY <1>4, <1>6 DEF Current, Object, g
      <4> QED
        BY <2>3, <3>1, <4>1
    <3>2. CASE a # c
      <4>1. handler[a] = "READ"
        BY <1>6, <2>6, <3>2
      <4>2. Slot(a) \in Slots /\ Slot(a) # s /\ Object(a) = slot[Slot(a)] /\ Object(a).current # 0
        BY <1>2, <3>2, <4>1, Places DEF BrokerInv, TurnsHeld, TurnStates, Processes
      <4>3. Object(a).current \in Processes /\ Object(a).current # g
        BY <1>2, <2>1, <4>2
      <4>4. Current(a)' = Current(a)
        BY <1>4, <1>6, <4>3 DEF Current, Object
      <4> QED
        BY <4>1, <4>4 DEF BrokerInv, PipesClean
    <3> QED
      BY <3>1, <3>2
  <2> QED
    BY <2>5, <2>6 DEF PipesClean
<1>13. RuntimesApart'
  <2>1. process[g].slot # None /\ c \in CallsOf(s[2])
    BY <1>2, NoneIsNoValue DEF CallsOf
  <2>2. process[g].inbox \in Seq(CallsOf(s[2])) /\ process[g].out \in Seq(LinesOf(s[2]))
    BY <1>2, <2>1 DEF BrokerInv, RuntimesApart
  <2>3. Append(process[g].inbox, c) \in Seq(CallsOf(s[2]))
    BY <2>1, <2>2, QueueFacts
  <2>4. ASSUME NEW h \in Processes, process'[h].slot # None
        PROVE  /\ process'[h].inbox \in Seq(CallsOf(process'[h].slot[2]))
               /\ process'[h].out \in Seq(LinesOf(process'[h].slot[2]))
    <3>1. CASE h = g
      BY <1>2, <1>3, <1>4, <2>2, <2>3, <3>1
    <3>2. CASE h # g
      BY <1>4, <2>4, <3>2 DEF BrokerInv, RuntimesApart
    <3> QED
      BY <3>1, <3>2
  <2> QED
    BY <1>6, <2>4 DEF BrokerInv, RuntimesApart
<1> QED
  BY <1>7, <1>8, <1>9, <1>10, <1>11, <1>12, <1>13 DEF BrokerInv

LEMMA ResumedKeeps ==
  ASSUME BrokerInv, NEW c \in Calls, Resumed(c)
  PROVE  BrokerInv'
<1>1. /\ handler[c] = "RESUME" /\ handler' = [handler EXCEPT ![c] = "SEND"]
      /\ UNCHANGED <<service, owned, client, via, seen, answer, faults>>
  BY DEF Resumed
<1>2. UNCHANGED <<protocol, setup, broker, lock, slot, process, made>>
  BY <1>1 DEF service, owned
<1>3. Slot(c) \in Slots /\ Object(c) = slot[Slot(c)] /\ Object(c).current # 0 /\ Object(c).turn = c
  BY <1>1, Places DEF Processes, BrokerInv, TurnsHeld, TurnStates
<1>4. BrokerTypeOK'
  BY <1>1, <1>2 DEF BrokerInv, BrokerTypeOK
<1>5. HandlersPlaced' /\ HandshakesLock' /\ TurnsHeld' /\ AcceptedStays'
  <2>1. handler[c] \in TurnStates /\ "SEND" \in TurnStates \cup {"NONE"} /\ "SEND" # "NONE"
    BY <1>1 DEF TurnStates
  <2> QED
    BY <1>1, <1>2, <1>3, <2>1, TurnMoves
<1>6. ProcessesNumbered' /\ LastIsAlive' /\ EndsKnown' /\ RuntimesApart'
  BY <1>2 DEF BrokerInv, ProcessesNumbered, LastIsAlive, EndsKnown, RuntimesApart
<1>7. PipesClean'
  BY <1>1, <1>2, PipesStay DEF BrokerInv, BrokerTypeOK
<1> QED
  BY <1>4, <1>5, <1>6, <1>7 DEF BrokerInv

LEMMA RestartKeeps ==
  ASSUME BrokerInv, NEW c \in Calls, Restart(c)
  PROVE  /\ BrokerInv'
         /\ \A p \in Processes : \/ /\ process'[p].alive = process[p].alive
                                  /\ process'[p].slot = process[p].slot
                                  /\ process'[p].inbox = process[p].inbox
                               \/ /\ process'[p].slot = Slot(c) /\ broker'[via[c]] \in Present
                                  /\ process'[p].inbox = <<>> /\ process[p].inbox = <<>>
<1> DEFINE s == Slot(c)
           g == Object(c).current
           n == made'
           h == IF protocol = "STREAM" THEN "SEND" ELSE "RESUME"
           old == [process[g] EXCEPT !.stdin = FALSE]
           new == Spawned(s, Object(c).config)
           next == [slot[s] EXCEPT !.current = n, !.dead = FALSE, !.try = 2]
<1>1. /\ handler[c] = "RESTART" /\ made < MaxProcesses /\ n = made + 1
      /\ process' = [process EXCEPT ![g] = old, ![n] = new]
      /\ slot' = [slot EXCEPT ![s] = next]
      /\ handler' = [handler EXCEPT ![c] = h]
      /\ UNCHANGED <<service, client, via, seen, answer, faults>>
  BY DEF Restart
<1>2. /\ s \in Slots /\ s[1] = via[c] /\ broker[s[1]] \in Present /\ Object(c) = slot[s]
      /\ slot[s] \in ObjectRecord /\ slot[s].turn = c /\ slot[s].dead
      /\ g \in Processes /\ g # 0 /\ g \in 1 .. made
      /\ slot[s].current = g /\ Current(c) = process[g]
      /\ process[g] \in ProcessRecord /\ process[g].slot = s
      /\ slot \in [Slots -> ObjectRecord] /\ process \in [Processes -> ProcessRecord]
  BY <1>1, Places DEF Processes, BrokerInv, BrokerTypeOK, TurnsHeld, TurnStates
<1>3. ~process[g].alive
  BY <1>2 DEF BrokerInv, LastIsAlive
<1>4. made \in Nat /\ n \in Processes /\ n \in 0 .. MaxProcesses /\ n # g /\ n > made /\ n # 0
  BY <1>1, <1>2, BoundsAreNumbers DEF Processes, BrokerInv, BrokerTypeOK
<1>5. process[n] = NotStarted
  BY <1>4 DEF BrokerInv, ProcessesNumbered
<1>6. /\ new \in ProcessRecord /\ new.slot = s /\ new.config = slot[s].config
      /\ new.alive /\ ~new.ended /\ new.inbox = <<>> /\ new.out = <<>>
  <2>1. slot[s].config \in Configs \cup {None}
    BY <1>2 DEF ObjectRecord
  <2> QED
    BY <1>2, <2>1, EmptySeq DEF Spawned, NotStarted, ProcessRecord
<1>7. /\ old \in ProcessRecord /\ old.slot = process[g].slot /\ old.config = process[g].config
      /\ old.alive = process[g].alive /\ old.ended = process[g].ended
      /\ old.inbox = process[g].inbox /\ old.out = process[g].out
  BY <1>2 DEF ProcessRecord
<1>8. /\ next \in ObjectRecord /\ next.registered = slot[s].registered /\ next.config = slot[s].config
      /\ next.current = n /\ ~next.dead /\ next.turn = c
      /\ next.events = slot[s].events /\ next.cut = slot[s].cut
  <2>1. 2 \in 0 .. 2
    OBVIOUS
  <2>2. next \in ObjectRecord
    BY <1>2, <1>4, <2>1 DEF ObjectRecord
  <2> QED
    BY <1>2, <2>2 DEF ObjectRecord
<1> HIDE DEF next, old, new, s, g, n
<1>9. /\ process' \in [Processes -> ProcessRecord] /\ process'[g] = old /\ process'[n] = new
      /\ \A p \in Processes \ {g, n} : process'[p] = process[p]
  BY <1>1, <1>2, <1>4, <1>6, <1>7
<1>10. /\ slot' \in [Slots -> ObjectRecord] /\ slot'[s] = next
       /\ \A t \in Slots \ {s} : slot'[t] = slot[t]
  BY <1>1, <1>2, <1>8
<1>11. /\ \A a \in Calls \ {c} : handler'[a] = handler[a]
       /\ handler'[c] = h /\ h \in {"SEND", "RESUME"}
       /\ UNCHANGED <<protocol, setup, broker, lock, via, client, answer, seen, faults>>
       /\ made' = made + 1
  BY <1>1 DEF BrokerInv, BrokerTypeOK, service, n
<1>12. \A t \in Slots : slot[t].current # 0 =>
         /\ slot[t].current \in Processes \ {n} /\ process[slot[t].current].slot = t
         /\ t # s => slot[t].current # g
  <2> SUFFICES ASSUME NEW t \in Slots, slot[t].current # 0
               PROVE  /\ slot[t].current \in Processes \ {n} /\ process[slot[t].current].slot = t
                      /\ t # s => slot[t].current # g
    OBVIOUS
  <2>1. slot[t].current \in Processes /\ slot[t].current \in 1 .. made
    BY ObjectFields
  <2>2. slot[t].current # n
    BY <1>4, <2>1
  <2>3. process[slot[t].current].slot = t
    BY DEF BrokerInv, ProcessesNumbered
  <2> QED
    BY <1>2, <2>1, <2>2, <2>3
<1>13. BrokerTypeOK'
  <2>1. made' \in 0 .. MaxProcesses
    BY <1>4 DEF n
  <2>2. handler' \in [Calls -> {"NONE", "HANDSHAKE", "QUEUED", "SEND", "READ", "RESTART", "RESUME"}]
    BY <1>1, <1>11 DEF BrokerInv, BrokerTypeOK
  <2> QED
    BY <1>9, <1>10, <1>11, <2>1, <2>2 DEF BrokerInv, BrokerTypeOK
<1>14. HandlersPlaced' /\ HandshakesLock' /\ TurnsHeld' /\ AcceptedStays'
  <2>1. handler[c] \in TurnStates /\ h \in TurnStates \cup {"NONE"} /\ h # "NONE" /\ h # "RESTART"
    BY <1>1 DEF TurnStates
  <2>2. /\ slot'[Slot(c)].registered = Object(c).registered /\ slot'[Slot(c)].config = Object(c).config
        /\ slot'[Slot(c)].current # 0 /\ slot'[Slot(c)].turn = c
        /\ \A t \in Slots \ {Slot(c)} : slot'[t] = slot[t]
    BY <1>2, <1>4, <1>8, <1>10 DEF s
  <2> HIDE DEF h
  <2> QED
    BY <1>1, <1>11, <2>1, <2>2, TurnMoves
<1>15. ProcessesNumbered'
  <2>1. ASSUME NEW t \in Slots, slot'[t].current # 0
        PROVE  /\ slot'[t].current \in 1 .. made'
               /\ process'[slot'[t].current].slot = t
               /\ process'[slot'[t].current].config = slot'[t].config
    <3>1. CASE t = s
      <4>1. n \in 1 .. made'
        BY <1>4 DEF n
      <4> QED
        BY <1>6, <1>8, <1>9, <1>10, <3>1, <4>1
    <3>2. CASE t # s
      <4>1. slot'[t] = slot[t] /\ process'[slot[t].current] = process[slot[t].current]
        BY <1>9, <1>10, <1>12, <2>1, <3>2
      <4>2. slot[t].current \in 1 .. made
        BY <2>1, <4>1, ObjectFields
      <4>3. slot[t].current \in 1 .. made'
        BY <1>4, <1>11, <4>2
      <4> QED
        BY <2>1, <4>1, <4>3 DEF BrokerInv, ProcessesNumbered
    <3> QED
      BY <3>1, <3>2
  <2>2. ASSUME NEW p \in Processes
        PROVE  IF p > made' THEN process'[p] = NotStarted ELSE process'[p].slot \in Slots
    <3>1. CASE p = n
      BY <1>2, <1>4, <1>6, <1>9, <3>1 DEF n
    <3>2. CASE p = g
      <4>1. ~(p > made')
        BY <1>2, <1>4, <1>11, <3>2
      <4> QED
        BY <1>2, <1>7, <1>9, <3>2, <4>1
    <3>3. CASE p # n /\ p # g
      <4>1. p \in Nat
        BY DEF Processes
      <4>2. IF p > made THEN process[p] = NotStarted ELSE process[p].slot \in Slots
        BY DEF BrokerInv, ProcessesNumbered
      <4>3. p > made' <=> p > made
        BY <1>4, <1>11, <3>3, <4>1 DEF n
      <4> QED
        BY <1>9, <3>3, <4>2, <4>3
    <3> QED
      BY <3>1, <3>2, <3>3
  <2> QED
    BY <2>1, <2>2 DEF ProcessesNumbered
<1>16. LastIsAlive'
  <2>1. ASSUME NEW p \in Processes, process'[p].alive, broker'[process'[p].slot[1]] # "GONE"
        PROVE  slot'[process'[p].slot].current = p
    <3>1. CASE p = n
      BY <1>6, <1>8, <1>9, <1>10, <3>1
    <3>2. CASE p = g
      BY <1>3, <1>7, <1>9, <2>1, <3>2
    <3>3. CASE p # n /\ p # g
      <4>1. process'[p] = process[p] /\ slot[process[p].slot].current = p
        BY <1>9, <1>11, <2>1, <3>3 DEF BrokerInv, LastIsAlive
      <4>2. process[p].slot \in Slots /\ process[p].slot # s
        BY <1>2, <2>1, <3>3, <4>1, AliveIsStarted
      <4> QED
        BY <1>10, <4>1, <4>2
    <3> QED
      BY <3>1, <3>2, <3>3
  <2>2. ASSUME NEW t \in Slots
        PROVE  /\ slot'[t].dead => slot'[t].current # 0 /\ ~process'[slot'[t].current].alive
               /\ /\ broker'[t[1]] \in {"UP", "STOPPING"}
                  /\ ~slot'[t].registered /\ slot'[t].current # 0 /\ process'[slot'[t].current].alive
                  => lock'[t[1]] # None /\ RuntimeOf[lock'[t[1]]] = t[2]
    <3>1. CASE t = s
      <4>1. slot[s].registered \/ broker[s[1]] = "CLOSED"
        BY <1>1, <1>2 DEF BrokerInv, TurnsHeld, TurnStates
      <4> QED
        BY <1>8, <1>10, <1>11, <3>1, <4>1
    <3>2. CASE t # s
      <4>1. slot'[t] = slot[t] /\ (slot[t].current # 0 => process'[slot[t].current] = process[slot[t].current])
        BY <1>9, <1>10, <1>12, <3>2
      <4> QED
        BY <1>11, <4>1 DEF BrokerInv, LastIsAlive
    <3> QED
      BY <3>1, <3>2
  <2> QED
    BY <2>1, <2>2 DEF LastIsAlive
<1>17. EndsKnown'
  <2>1. ASSUME NEW p \in Processes
        PROVE  /\ ~process'[p].alive => process'[p].inbox = <<>>
               /\ process'[p].ended /\ process'[p].alive => broker'[process'[p].slot[1]] = "GONE"
    <3>1. CASE p = n
      BY <1>6, <1>9, <3>1
    <3>2. CASE p = g
      BY <1>2, <1>3, <1>7, <1>9, <3>2 DEF BrokerInv, EndsKnown
    <3>3. CASE p # n /\ p # g
      BY <1>9, <1>11, <3>3 DEF BrokerInv, EndsKnown
    <3> QED
      BY <3>1, <3>2, <3>3
  <2>2. ASSUME NEW t \in Slots, slot'[t].current # 0, process'[slot'[t].current].ended
        PROVE  slot'[t].dead
    <3>1. CASE t = s
      BY <1>6, <1>8, <1>9, <1>10, <2>2, <3>1
    <3>2. CASE t # s
      BY <1>9, <1>10, <1>12, <2>2, <3>2 DEF BrokerInv, EndsKnown
    <3> QED
      BY <3>1, <3>2
  <2> QED
    BY <2>1, <2>2 DEF EndsKnown
<1>18. PipesClean'
  <2> SUFFICES ASSUME protocol = "STREAM" PROVE PipesClean'
    BY <1>11 DEF PipesClean
  <2>1. ASSUME NEW t \in Slots
        PROVE  /\ slot'[t].events = <<>> /\ ~slot'[t].cut
               /\ slot'[t].current # 0 /\ ~slot'[t].dead /\ ~Subscribed(t)' =>
                    process'[slot'[t].current].inbox = <<>> /\ process'[slot'[t].current].out = <<>>
    <3>1. slot[t].events = <<>> /\ ~slot[t].cut
      BY DEF BrokerInv, PipesClean
    <3>2. CASE t = s
      BY <1>6, <1>8, <1>9, <1>10, <3>1, <3>2
    <3>3. CASE t # s
      <4>1. slot'[t] = slot[t] /\ (slot[t].current # 0 => process'[slot[t].current] = process[slot[t].current])
        BY <1>9, <1>10, <1>12, <3>3
      <4>2. Subscribed(t) => Subscribed(t)'
        BY <1>1, <1>11, <4>1 DEF Subscribed
      <4> QED
        BY <3>1, <4>1, <4>2 DEF BrokerInv, PipesClean
    <3> QED
      BY <3>2, <3>3
  <2>2. ASSUME NEW a \in Calls, handler'[a] = "READ"
        PROVE  \/ Current(a)'.inbox = <<>> /\ Current(a)'.out = <<>>
               \/ Current(a)'.inbox = <<a>> /\ Current(a)'.out = <<>>
               \/ Current(a)'.inbox = <<>> /\ \E ok \in BOOLEAN : Current(a)'.out = <<[of |-> a, ok |-> ok]>>
    <3>1. a # c /\ handler[a] = "READ"
      BY <1>11, <2>2
    <3>2. Slot(a) \in Slots /\ Slot(a) # s /\ Object(a) = slot[Slot(a)] /\ Object(a).current # 0
      BY <1>2, <3>1, Places DEF BrokerInv, TurnsHeld, TurnStates, Processes
    <3>3. Object(a)' = Object(a)
      BY <1>10, <1>11, <3>2 DEF Object, Slot
    <3>4. Object(a).current \in Processes \ {g, n}
      BY <1>12, <3>2
    <3>5. Current(a)' = Current(a)
      BY <1>9, <3>3, <3>4 DEF Current
    <3> QED
      BY <3>1, <3>5 DEF BrokerInv, PipesClean
  <2> QED
    BY <2>1, <2>2 DEF PipesClean
<1>19. RuntimesApart'
  <2>1. ASSUME NEW p \in Processes, process'[p].slot # None
        PROVE  /\ process'[p].inbox \in Seq(CallsOf(process'[p].slot[2]))
               /\ process'[p].out \in Seq(LinesOf(process'[p].slot[2]))
    <3>1. CASE p = n
      <4>1. process'[p].inbox = <<>> /\ process'[p].out = <<>>
        BY <1>6, <1>9, <3>1
      <4> QED
        BY <4>1, EmptySeq
    <3>2. CASE p = g
      BY <1>7, <1>9, <2>1, <3>2 DEF BrokerInv, RuntimesApart
    <3>3. CASE p # n /\ p # g
      BY <1>9, <2>1, <3>3 DEF BrokerInv, RuntimesApart
    <3> QED
      BY <3>1, <3>2, <3>3
  <2>2. \A t \in Slots : slot'[t].events = slot[t].events
    BY <1>8, <1>10
  <2> QED
    BY <2>1, <2>2 DEF BrokerInv, RuntimesApart
<1>20. ASSUME NEW p \in Processes
       PROVE  \/ /\ process'[p].alive = process[p].alive
                 /\ process'[p].slot = process[p].slot
                 /\ process'[p].inbox = process[p].inbox
              \/ /\ process'[p].slot = Slot(c) /\ broker'[via[c]] \in Present
                 /\ process'[p].inbox = <<>> /\ process[p].inbox = <<>>
  <2>1. CASE p = n
    BY <1>2, <1>5, <1>6, <1>9, <1>11, <2>1 DEF NotStarted, s
  <2>2. CASE p = g
    BY <1>7, <1>9, <2>2
  <2>3. CASE p # n /\ p # g
    BY <1>9, <2>3
  <2> QED
    BY <2>1, <2>2, <2>3
<1> QED
  BY <1>13, <1>14, <1>15, <1>16, <1>17, <1>18, <1>19, <1>20 DEF BrokerInv

----------------------------------------------------------------------------
(* Processes and their readers *)

\* Whatever happens to an object, its handlers are told by its turn.
LEMMA HandlersStay ==
  ASSUME BrokerInv, UNCHANGED <<service, calls>>,
         \A t \in Slots : /\ slot'[t].registered = slot[t].registered /\ slot'[t].config = slot[t].config
                          /\ slot'[t].current = slot[t].current /\ slot'[t].turn = slot[t].turn
                          /\ slot[t].dead => slot'[t].dead
                          /\ slot[t].turn = None /\ slot[t].current = 0 => slot'[t] = slot[t]
  PROVE  HandlersPlaced' /\ HandshakesLock' /\ TurnsHeld' /\ AcceptedStays'
<1>1. UNCHANGED <<protocol, setup, broker, lock, client, handler, via, seen, answer>>
  BY DEF service, calls
<1>2. \A a \in Calls : handler[a] # "NONE" =>
        /\ Slot(a) \in Slots /\ Object(a) = slot[Slot(a)] /\ Object(a)' = slot'[Slot(a)]
        /\ Slot(a)' = Slot(a)
  BY <1>1, Places DEF Slot, Object
<1>3. HandlersPlaced'
  <2>1. \A t \in Slots : slot[t] = NoProcess => slot'[t] = NoProcess
    BY DEF NoProcess
  <2> QED
    BY <1>1, <2>1 DEF BrokerInv, HandlersPlaced
<1>4. HandshakesLock'
  BY <1>1, <1>2 DEF BrokerInv, HandshakesLock
<1>5. TurnsHeld'
  <2>1. ASSUME NEW a \in Calls
        PROVE  /\ handler'[a] \in TurnStates => Object(a)'.turn = a
               /\ handler'[a] = "RESTART" => Object(a)'.dead
               /\ handler'[a] \in {"QUEUED"} \cup TurnStates =>
                    Object(a)'.current # 0 /\ (Object(a)'.registered \/ broker'[via'[a]] = "CLOSED")
    BY <1>1, <1>2 DEF BrokerInv, TurnsHeld, TurnStates
  <2>2. ASSUME NEW t \in Slots
        PROVE  /\ slot'[t].turn # None =>
                    /\ handler'[slot'[t].turn] \in TurnStates
                    /\ <<via'[slot'[t].turn], RuntimeOf[slot'[t].turn]>> = t
               /\ slot'[t].registered => slot'[t].current # 0
    BY <1>1 DEF BrokerInv, TurnsHeld, Slot
  <2> QED
    BY <2>1, <2>2 DEF TurnsHeld, Slot
<1>6. AcceptedStays'
  BY <1>1, AcceptedStay
<1> QED
  BY <1>3, <1>4, <1>5, <1>6

LEMMA RuntimesStay ==
  ASSUME BrokerInv, NEW g \in Processes,
         \A h \in Processes \ {g} : process'[h] = process[h],
         process'[g].slot = process[g].slot, process[g].slot # None,
         process'[g].inbox \in Seq(CallsOf(process[g].slot[2])),
         process'[g].out \in Seq(LinesOf(process[g].slot[2])),
         \A t \in Slots : slot'[t].events \in Seq(LinesOf(t[2]))
  PROVE  RuntimesApart'
<1>1. ASSUME NEW h \in Processes, process'[h].slot # None
      PROVE  /\ process'[h].inbox \in Seq(CallsOf(process'[h].slot[2]))
             /\ process'[h].out \in Seq(LinesOf(process'[h].slot[2]))
  <2>1. CASE h = g
    BY <2>1
  <2>2. CASE h # g
    BY <1>1, <2>2 DEF BrokerInv, RuntimesApart
  <2> QED
    BY <2>1, <2>2
<1> QED
  BY <1>1 DEF RuntimesApart

LEMMA KilledKeeps ==
  ASSUME BrokerInv, NEW g \in Processes, process[g].alive, process' = Killed(g),
         Fault \/ UNCHANGED faults, UNCHANGED <<service, slot, made, calls>>
  PROVE  BrokerInv'
<1>1. /\ process' \in [Processes -> ProcessRecord]
      /\ process'[g].slot = process[g].slot /\ process'[g].config = process[g].config
      /\ ~process'[g].alive /\ process'[g].inbox = <<>> /\ process'[g].out = process[g].out
      /\ process'[g].ended = process[g].ended
      /\ \A h \in Processes \ {g} : process'[h] = process[h]
  BY KilledFields
<1>2. UNCHANGED <<protocol, setup, broker, lock, slot, made, client, handler, via, seen, answer>>
  BY DEF service, calls
<1>3. faults' \in 0 .. MaxFaults
  BY FaultCounts
<1>4. BrokerTypeOK'
  BY <1>1, <1>2, <1>3 DEF BrokerInv, BrokerTypeOK
<1>5. HandlersPlaced' /\ HandshakesLock' /\ TurnsHeld' /\ AcceptedStays'
  BY HandlersStay
<1>6. ProcessesNumbered'
  <2>1. ~(g > made)
    BY AliveIsStarted, BoundsAreNumbers DEF BrokerInv, BrokerTypeOK
  <2> QED
    BY <1>1, <1>2, <2>1, NumberedStays
<1>7. EndsKnown'
  BY <1>1, <1>2, EndsStay DEF BrokerInv, EndsKnown
<1>8. LastIsAlive'
  BY <1>1, <1>2, AliveStays DEF BrokerInv, LastIsAlive
<1>9. PipesClean'
  <2>1. \A t \in Slots : Subscribed(t) => Subscribed(t)'
    BY <1>2 DEF Subscribed
  <2> QED
    BY <1>1, <1>2, <2>1, PipesAlike
<1>10. RuntimesApart'
  <2>1. process[g].slot # None
    BY AliveIsStarted
  <2>2. process'[g].inbox \in Seq(CallsOf(process[g].slot[2]))
    BY <1>1, EmptySeq
  <2>3. process'[g].out \in Seq(LinesOf(process[g].slot[2]))
    BY <1>1, <2>1 DEF BrokerInv, RuntimesApart
  <2>4. \A t \in Slots : slot'[t].events \in Seq(LinesOf(t[2]))
    BY <1>2 DEF BrokerInv, RuntimesApart
  <2> QED
    BY <1>1, <2>1, <2>2, <2>3, <2>4, RuntimesStay
<1> QED
  BY <1>4, <1>5, <1>6, <1>7, <1>8, <1>9, <1>10 DEF BrokerInv

LEMMA CrashKeeps ==
  ASSUME BrokerInv, NEW g \in Processes, Crash(g) \/ Exit(g)
  PROVE  BrokerInv'
<1>1. process[g].alive /\ process' = Killed(g) /\ (Fault \/ UNCHANGED faults)
      /\ UNCHANGED <<service, slot, made, calls>>
  BY DEF Crash, Exit
<1> QED
  BY <1>1, KilledKeeps

LEMMA EndTurnKeeps ==
  ASSUME BrokerInv, NEW g \in Processes, EndTurn(g)
  PROVE  /\ BrokerInv'
         /\ process'[g].alive = process[g].alive /\ process'[g].slot = process[g].slot
         /\ process[g].inbox # <<>> /\ process'[g].inbox = Tail(process[g].inbox)
         /\ \A h \in Processes \ {g} : process'[h] = process[h]
<1>1. PICK ok \in BOOLEAN :
        process' = [process EXCEPT
            ![g].inbox = Tail(@),
            ![g].out = IF process[g].ended THEN @
                       ELSE Append(@, [of |-> Head(process[g].inbox), ok |-> ok])]
  BY DEF EndTurn
<1>2. /\ process[g].alive /\ process[g].inbox # <<>>
      /\ Fault \/ UNCHANGED faults
      /\ UNCHANGED <<service, slot, made, calls>>
  BY DEF EndTurn
<1>3. /\ process \in [Processes -> ProcessRecord] /\ process[g] \in ProcessRecord
      /\ process[g].slot \in Slots /\ process[g].slot # None /\ ~(g > made)
  BY <1>2, AliveIsStarted, BoundsAreNumbers DEF BrokerInv, BrokerTypeOK
<1> DEFINE r == process[g].slot[2]
           line == [of |-> Head(process[g].inbox), ok |-> ok]
           out == IF process[g].ended THEN process[g].out ELSE Append(process[g].out, line)
           next == [process[g] EXCEPT !.inbox = Tail(process[g].inbox), !.out = out]
<1>4. process[g].inbox \in Seq(CallsOf(r)) /\ process[g].out \in Seq(LinesOf(r))
  BY <1>3 DEF BrokerInv, RuntimesApart
<1>5. Head(process[g].inbox) \in CallsOf(r) /\ Tail(process[g].inbox) \in Seq(CallsOf(r))
  BY <1>2, <1>4, QueueFacts
<1>6. line \in LinesOf(r)
  BY <1>5 DEF LinesOf
<1>7. out \in Seq(LinesOf(r))
  BY <1>4, <1>6, QueueFacts
<1>8. /\ next \in ProcessRecord /\ next.slot = process[g].slot /\ next.config = process[g].config
      /\ next.alive /\ next.ended = process[g].ended
      /\ next.inbox = Tail(process[g].inbox) /\ next.out = out
  <2>1. Tail(process[g].inbox) \in Seq(Calls) /\ out \in Seq(Line)
    BY <1>5, <1>7, MembersOfLines
  <2> HIDE DEF out
  <2> QED
    BY <1>2, <1>3, <2>1 DEF ProcessRecord
<1>9. process' = [process EXCEPT ![g] = next]
  BY <1>1
<1> HIDE DEF next
<1>10. /\ process' \in [Processes -> ProcessRecord] /\ process'[g] = next
       /\ \A h \in Processes \ {g} : process'[h] = process[h]
  BY <1>3, <1>8, <1>9
<1>11. UNCHANGED <<protocol, setup, broker, lock, slot, made, client, handler, via, seen, answer>>
  BY <1>2 DEF service, calls
<1>12. faults' \in 0 .. MaxFaults
  BY <1>2, FaultCounts
<1>13. BrokerTypeOK'
  BY <1>10, <1>11, <1>12 DEF BrokerInv, BrokerTypeOK
<1>14. HandlersPlaced' /\ HandshakesLock' /\ TurnsHeld' /\ AcceptedStays'
  BY <1>2, HandlersStay
<1>15. ProcessesNumbered'
  BY <1>3, <1>8, <1>10, <1>11, NumberedStays
<1>16. EndsKnown'
  BY <1>2, <1>8, <1>10, <1>11, EndsStay DEF BrokerInv, EndsKnown
<1>17. LastIsAlive'
  BY <1>2, <1>8, <1>10, <1>11, AliveStays DEF BrokerInv, LastIsAlive
<1>18. PipesClean'
  <2> SUFFICES ASSUME protocol = "STREAM" PROVE PipesClean'
    BY <1>11 DEF PipesClean
  <2>1. \A t \in Slots : slot[t].current = g => /\ g # 0 /\ ~slot[t].dead /\ ~process[g].ended
    BY <1>2 DEF BrokerInv, LastIsAlive, EndsKnown, Processes
  <2>2. \A t \in Slots : slot[t].current = g => Subscribed(t)
    BY <1>2, <2>1 DEF BrokerInv, PipesClean
  <2>3. \A t \in Slots : slot[t].current # 0 => slot[t].current \in Processes
    BY ObjectFields
  <2>4. ASSUME NEW t \in Slots
        PROVE  /\ slot'[t].events = <<>> /\ ~slot'[t].cut
               /\ slot'[t].current # 0 /\ ~slot'[t].dead /\ ~Subscribed(t)' =>
                    process'[slot'[t].current].inbox = <<>> /\ process'[slot'[t].current].out = <<>>
    <3>1. Subscribed(t)' <=> Subscribed(t)
      BY <1>11 DEF Subscribed
    <3> QED
      BY <1>10, <1>11, <2>2, <2>3, <3>1 DEF BrokerInv, PipesClean
  <2>5. ASSUME NEW a \in Calls, handler'[a] = "READ"
        PROVE  \/ Current(a)'.inbox = <<>> /\ Current(a)'.out = <<>>
               \/ Current(a)'.inbox = <<a>> /\ Current(a)'.out = <<>>
               \/ Current(a)'.inbox = <<>> /\ \E k \in BOOLEAN : Current(a)'.out = <<[of |-> a, ok |-> k]>>
    <3>1. /\ handler[a] = "READ" /\ Slot(a) \in Slots /\ Object(a) = slot[Slot(a)]
          /\ Object(a).current \in Processes /\ Current(a) = process[Object(a).current]
      BY <1>11, <2>5, Places
    <3>2. Object(a)' = Object(a)
      BY <1>11 DEF Object
    <3>3. CASE Object(a).current # g
      <4>1. Current(a)' = Current(a)
        BY <1>10, <3>1, <3>2, <3>3 DEF Current
      <4> QED
        BY <3>1, <4>1 DEF BrokerInv, PipesClean
    <3>4. CASE Object(a).current = g
      <4>1. process[g].inbox = <<a>> /\ process[g].out = <<>>
        BY <1>2, <3>1, <3>4 DEF BrokerInv, PipesClean
      <4>2. ~process[g].ended
        BY <2>1, <3>1, <3>4
      <4>3. next.inbox = <<>> /\ next.out = <<[of |-> a, ok |-> ok]>>
        BY <1>8, <4>1, <4>2, QueueOfOne
      <4>4. Current(a)' = next
        BY <1>10, <3>2, <3>4 DEF Current
      <4> QED
        BY <4>3, <4>4
    <3> QED
      BY <3>3, <3>4
  <2> QED
    BY <2>4, <2>5 DEF PipesClean
<1>19. RuntimesApart'
  <2>1. \A t \in Slots : slot'[t].events \in Seq(LinesOf(t[2]))
    BY <1>11 DEF BrokerInv, RuntimesApart
  <2>2. process'[g].inbox \in Seq(CallsOf(process[g].slot[2])) /\ process'[g].out \in Seq(LinesOf(process[g].slot[2]))
    BY <1>5, <1>7, <1>8, <1>10
  <2> QED
    BY <1>3, <1>8, <1>10, <2>1, <2>2, RuntimesStay
<1> QED
  BY <1>2, <1>8, <1>10, <1>13, <1>14, <1>15, <1>16, <1>17, <1>18, <1>19 DEF BrokerInv

LEMMA BroadcastKeeps ==
  ASSUME BrokerInv, NEW g \in Processes, Broadcast(g)
  PROVE  BrokerInv'
<1> DEFINE s == process[g].slot
           line == Head(process[g].out)
           next == [process[g] EXCEPT !.out = Tail(process[g].out)]
           object == [slot[s] EXCEPT !.events = Append(slot[s].events, line)]
<1>1. /\ protocol = "RPC" /\ process[g].out # <<>>
      /\ process' = [process EXCEPT ![g] = next]
      /\ slot' = slot \/ (Subscribed(s) /\ slot' = [slot EXCEPT ![s] = object])
      /\ UNCHANGED <<service, made, calls, faults>>
  BY DEF Broadcast
<1>2. g \in Nat /\ made \in Nat /\ g >= 1
  BY BoundsAreNumbers DEF Processes, BrokerInv, BrokerTypeOK
<1>3. /\ s \in Slots /\ s # None /\ ~(g > made)
      /\ process \in [Processes -> ProcessRecord] /\ process[g] \in ProcessRecord
      /\ slot \in [Slots -> ObjectRecord] /\ slot[s] \in ObjectRecord
  BY <1>1, <1>2, NoneIsNoValue DEF BrokerInv, BrokerTypeOK, ProcessesNumbered, NotStarted
<1>4. /\ process[g].inbox \in Seq(CallsOf(s[2])) /\ process[g].out \in Seq(LinesOf(s[2]))
      /\ slot[s].events \in Seq(LinesOf(s[2]))
  BY <1>3 DEF BrokerInv, RuntimesApart
<1>5. line \in LinesOf(s[2]) /\ Tail(process[g].out) \in Seq(LinesOf(s[2]))
  BY <1>1, <1>4, QueueFacts
<1>6. Append(slot[s].events, line) \in Seq(LinesOf(s[2]))
  BY <1>4, <1>5, QueueFacts
<1>7. /\ next \in ProcessRecord /\ next.slot = process[g].slot /\ next.config = process[g].config
      /\ next.alive = process[g].alive /\ next.ended = process[g].ended
      /\ next.inbox = process[g].inbox /\ next.out = Tail(process[g].out)
  <2>1. Tail(process[g].out) \in Seq(Line)
    BY <1>5, MembersOfLines
  <2> QED
    BY <1>3, <2>1 DEF ProcessRecord
<1>8. /\ object \in ObjectRecord /\ object.registered = slot[s].registered
      /\ object.config = slot[s].config /\ object.current = slot[s].current
      /\ object.dead = slot[s].dead /\ object.turn = slot[s].turn
      /\ object.events = Append(slot[s].events, line)
  <2>1. Append(slot[s].events, line) \in Seq(Line)
    BY <1>6, MembersOfLines
  <2> HIDE DEF line
  <2> QED
    BY <1>3, <2>1 DEF ObjectRecord
<1> HIDE DEF next, object, line
<1>9. /\ process' \in [Processes -> ProcessRecord] /\ process'[g] = next
      /\ \A h \in Processes \ {g} : process'[h] = process[h]
  BY <1>1, <1>3, <1>7
<1>10. Subscribed(s) => slot[s].turn # None
  BY NoneIsNoValue DEF Subscribed
<1>11. /\ slot' \in [Slots -> ObjectRecord]
       /\ \A t \in Slots : /\ slot'[t].registered = slot[t].registered /\ slot'[t].config = slot[t].config
                           /\ slot'[t].current = slot[t].current /\ slot'[t].turn = slot[t].turn
                           /\ slot'[t].dead = slot[t].dead
                           /\ slot[t].turn = None => slot'[t] = slot[t]
       /\ \A t \in Slots : slot'[t].events \in Seq(LinesOf(t[2]))
  <2>1. \A t \in Slots : slot[t].events \in Seq(LinesOf(t[2]))
    BY DEF BrokerInv, RuntimesApart
  <2>2. CASE slot' = slot
    BY <1>3, <2>1, <2>2
  <2>3. CASE Subscribed(s) /\ slot' = [slot EXCEPT ![s] = object]
    <3>1. /\ slot' \in [Slots -> ObjectRecord] /\ slot'[s] = object
          /\ \A t \in Slots \ {s} : slot'[t] = slot[t]
      BY <1>3, <1>8, <2>3
    <3> HIDE DEF s
    <3> QED
      BY <1>6, <1>8, <1>10, <2>1, <2>3, <3>1
  <2> QED
    BY <1>1, <2>2, <2>3
<1>12. UNCHANGED <<protocol, setup, broker, lock, made, client, handler, via, seen, answer, faults>>
  BY <1>1 DEF service, calls
<1>13. BrokerTypeOK'
  BY <1>9, <1>11, <1>12 DEF BrokerInv, BrokerTypeOK
<1>14. HandlersPlaced' /\ HandshakesLock' /\ TurnsHeld' /\ AcceptedStays'
  BY <1>1, <1>11, HandlersStay
<1>15. ProcessesNumbered'
  BY <1>3, <1>7, <1>9, <1>11, <1>12, NumberedStays
<1>16. EndsKnown'
  BY <1>7, <1>9, <1>11, <1>12, EndsStay DEF BrokerInv, EndsKnown
<1>17. LastIsAlive'
  BY <1>7, <1>9, <1>11, <1>12, AliveStays DEF BrokerInv, LastIsAlive
<1>18. PipesClean'
  BY <1>1, <1>12 DEF PipesClean
<1>19. RuntimesApart'
  BY <1>3, <1>4, <1>5, <1>7, <1>9, <1>11, RuntimesStay
<1> QED
  BY <1>13, <1>14, <1>15, <1>16, <1>17, <1>18, <1>19 DEF BrokerInv

LEMMA CutOffKeeps ==
  ASSUME BrokerInv, NEW s \in Slots, CutOff(s)
  PROVE  BrokerInv'
<1> DEFINE object == [slot[s] EXCEPT !.cut = TRUE]
<1>1. /\ protocol = "RPC" /\ Subscribed(s) /\ Fault
      /\ slot' = [slot EXCEPT ![s] = object]
      /\ UNCHANGED <<service, process, made, calls>>
  BY DEF CutOff
<1>2. slot \in [Slots -> ObjectRecord] /\ slot[s] \in ObjectRecord
  BY DEF BrokerInv, BrokerTypeOK
<1>3. /\ object \in ObjectRecord /\ object.registered = slot[s].registered
      /\ object.config = slot[s].config /\ object.current = slot[s].current
      /\ object.dead = slot[s].dead /\ object.turn = slot[s].turn /\ object.events = slot[s].events
  BY <1>2 DEF ObjectRecord
<1> HIDE DEF object
<1>4. slot[s].turn # None
  BY <1>1, NoneIsNoValue DEF Subscribed
<1>5. /\ slot' \in [Slots -> ObjectRecord] /\ slot'[s] = object
      /\ \A t \in Slots \ {s} : slot'[t] = slot[t]
  BY <1>1, <1>2, <1>3
<1>6. \A t \in Slots : /\ slot'[t].registered = slot[t].registered /\ slot'[t].config = slot[t].config
                       /\ slot'[t].current = slot[t].current /\ slot'[t].turn = slot[t].turn
                       /\ slot'[t].dead = slot[t].dead /\ slot'[t].events = slot[t].events
                       /\ slot[t].turn = None => slot'[t] = slot[t]
  BY <1>3, <1>4, <1>5
<1>7. UNCHANGED <<protocol, setup, broker, lock, process, made, client, handler, via, seen, answer>>
  BY <1>1 DEF service, calls
<1>8. faults' \in 0 .. MaxFaults
  BY <1>1, FaultCounts
<1>9. BrokerTypeOK'
  BY <1>5, <1>7, <1>8 DEF BrokerInv, BrokerTypeOK
<1>10. HandlersPlaced' /\ HandshakesLock' /\ TurnsHeld' /\ AcceptedStays'
  BY <1>1, <1>6, HandlersStay
<1>11. ProcessesNumbered'
  BY <1>6, <1>7, NumberedStays
<1>12. EndsKnown'
  BY <1>6, <1>7, EndsStay DEF BrokerInv, EndsKnown
<1>13. LastIsAlive'
  BY <1>6, <1>7, AliveStays DEF BrokerInv, LastIsAlive
<1>14. PipesClean'
  BY <1>1, <1>7 DEF PipesClean
<1>15. RuntimesApart'
  BY <1>6, <1>7 DEF BrokerInv, RuntimesApart
<1> QED
  BY <1>9, <1>10, <1>11, <1>12, <1>13, <1>14, <1>15 DEF BrokerInv

LEMMA ReaderEndsKeeps ==
  ASSUME BrokerInv, NEW g \in Processes, ReaderEnds(g)
  PROVE  BrokerInv'
<1> DEFINE s == process[g].slot
           next == [process[g] EXCEPT !.ended = TRUE]
           object == [slot[s] EXCEPT !.dead = TRUE]
<1>1. /\ s # None /\ ~process[g].alive
      /\ process' = [process EXCEPT ![g] = next]
      /\ slot' = IF slot[s].current = g THEN [slot EXCEPT ![s] = object] ELSE slot
      /\ UNCHANGED <<service, made, calls, faults>>
  BY DEF ReaderEnds
<1>2. /\ g \in 1 .. made /\ s \in Slots /\ made \in Nat /\ g # 0
      /\ process \in [Processes -> ProcessRecord] /\ process[g] \in ProcessRecord
      /\ slot \in [Slots -> ObjectRecord] /\ slot[s] \in ObjectRecord
  BY <1>1, AliveIsStarted, BoundsAreNumbers DEF BrokerInv, BrokerTypeOK, Processes
<1>3. /\ next \in ProcessRecord /\ next.slot = process[g].slot /\ next.config = process[g].config
      /\ ~next.alive /\ next.ended /\ next.inbox = process[g].inbox /\ next.out = process[g].out
  BY <1>1, <1>2 DEF ProcessRecord
<1>4. /\ object \in ObjectRecord /\ object.registered = slot[s].registered
      /\ object.config = slot[s].config /\ object.current = slot[s].current
      /\ object.dead /\ object.turn = slot[s].turn
      /\ object.events = slot[s].events /\ object.cut = slot[s].cut
  BY <1>2 DEF ObjectRecord
<1> HIDE DEF next, object
<1>5. /\ process' \in [Processes -> ProcessRecord] /\ process'[g] = next
      /\ \A h \in Processes \ {g} : process'[h] = process[h]
  BY <1>1, <1>2, <1>3
<1>6. /\ slot' \in [Slots -> ObjectRecord]
      /\ \A t \in Slots : /\ slot'[t].registered = slot[t].registered /\ slot'[t].config = slot[t].config
                          /\ slot'[t].current = slot[t].current /\ slot'[t].turn = slot[t].turn
                          /\ slot'[t].events = slot[t].events /\ slot'[t].cut = slot[t].cut
                          /\ slot[t].dead => slot'[t].dead
                          /\ slot'[t].dead => slot[t].dead \/ slot[t].current = g
                          /\ slot[t].current = 0 => slot'[t] = slot[t]
      /\ slot[s].current = g => slot'[s].dead
  <2>1. CASE slot[s].current # g
    BY <1>1, <1>2, <2>1
  <2>2. CASE slot[s].current = g
    <3>1. slot' = [slot EXCEPT ![s] = object]
      BY <1>1, <2>2
    <3> HIDE DEF s
    <3>2. /\ slot' \in [Slots -> ObjectRecord] /\ slot'[s] = object
          /\ \A t \in Slots \ {s} : slot'[t] = slot[t]
      BY <1>2, <1>4, <3>1
    <3> QED
      BY <1>2, <1>4, <2>2, <3>2
  <2> QED
    BY <2>1, <2>2
<1>7. UNCHANGED <<protocol, setup, broker, lock, made, client, handler, via, seen, answer, faults>>
  BY <1>1 DEF service, calls
<1>8. BrokerTypeOK'
  BY <1>5, <1>6, <1>7 DEF BrokerInv, BrokerTypeOK
<1>9. HandlersPlaced' /\ HandshakesLock' /\ TurnsHeld' /\ AcceptedStays'
  BY <1>1, <1>6, HandlersStay
<1>10. \A h \in Processes : /\ process'[h].slot = process[h].slot /\ process'[h].config = process[h].config
                            /\ process'[h].alive = process[h].alive
                            /\ process'[h].inbox = process[h].inbox /\ process'[h].out = process[h].out
                            /\ process'[h].ended = (process[h].ended \/ h = g)
  BY <1>1, <1>3, <1>5 DEF BrokerInv, BrokerTypeOK, ProcessRecord
<1>11. ProcessesNumbered'
  <2>1. ~(g > made)
    BY <1>2
  <2> QED
    BY <1>5, <1>6, <1>7, <1>10, <2>1, NumberedStays
<1>12. EndsKnown'
  <2>1. \A h \in Processes :
          /\ ~process'[h].alive => process'[h].inbox = <<>>
          /\ process'[h].ended /\ process'[h].alive => broker'[process'[h].slot[1]] = "GONE"
    BY <1>1, <1>7, <1>10 DEF BrokerInv, EndsKnown
  <2>2. ASSUME NEW t \in Slots, slot'[t].current # 0, process'[slot'[t].current].ended
        PROVE  slot'[t].dead
    <3>1. slot[t].current \in Processes /\ process[slot[t].current].slot = t
      BY <1>6, <2>2, ObjectFields DEF BrokerInv, ProcessesNumbered
    <3>2. CASE slot[t].current = g
      BY <1>6, <3>1, <3>2
    <3>3. CASE slot[t].current # g
      <4>1. slot[t].current # 0 /\ process[slot[t].current].ended
        BY <1>6, <1>10, <2>2, <3>1, <3>3
      <4> QED
        BY <1>6, <4>1 DEF BrokerInv, EndsKnown
    <3> QED
      BY <3>2, <3>3
  <2> QED
    BY <2>1, <2>2 DEF EndsKnown
<1>13. LastIsAlive'
  BY <1>1, <1>2, <1>6, <1>7, <1>10, AliveStays
<1>14. PipesClean'
  <2>1. \A t \in Slots : Subscribed(t) => Subscribed(t)'
    BY <1>6, <1>7 DEF Subscribed
  <2> QED
    BY <1>6, <1>7, <1>10, <2>1, PipesAlike
<1>15. RuntimesApart'
  BY <1>6, <1>10 DEF BrokerInv, RuntimesApart
<1> QED
  BY <1>8, <1>9, <1>11, <1>12, <1>13, <1>14, <1>15 DEF BrokerInv

----------------------------------------------------------------------------
(* The end of a broker *)

LEMMA StopKeeps ==
  ASSUME BrokerInv, NEW b \in Brokers, Stop(b)
  PROVE  BrokerInv'
<1>1. /\ broker[b] = "UP" /\ broker' = [broker EXCEPT ![b] = "STOPPING"] /\ Fault
      /\ UNCHANGED <<protocol, setup, lock, owned, calls>>
  BY DEF Stop
<1>2. UNCHANGED <<protocol, setup, lock, slot, process, made, client, handler, via, seen, answer>>
  BY <1>1 DEF owned, calls
<1>3. /\ broker \in [Brokers -> {"NONE", "UP", "STOPPING", "CLOSED", "GONE"}]
      /\ broker' \in [Brokers -> {"NONE", "UP", "STOPPING", "CLOSED", "GONE"}]
      /\ broker'[b] = "STOPPING"
      /\ \A a \in Brokers : a # b => broker'[a] = broker[a]
  BY <1>1 DEF BrokerInv, BrokerTypeOK
<1>4. faults' \in 0 .. MaxFaults
  BY <1>1, FaultCounts
<1>5. BrokerTypeOK'
  BY <1>2, <1>3, <1>4 DEF BrokerInv, BrokerTypeOK
<1>6. \A a \in Calls : handler[a] # "NONE" => via[a] \in Brokers /\ Object(a)' = Object(a)
  BY <1>2, Places DEF Object
<1>7. \A t \in Slots : t[1] \in Brokers
  BY DEF Slots
<1>8. HandlersPlaced'
  BY <1>1, <1>2, <1>3, <1>6, <1>7 DEF BrokerInv, HandlersPlaced, Present
<1>9. HandshakesLock'
  BY <1>1, <1>2, <1>3, <1>6 DEF BrokerInv, HandshakesLock
<1>10. TurnsHeld'
  BY <1>1, <1>2, <1>3, <1>6 DEF BrokerInv, TurnsHeld, TurnStates, Slot
<1>11. ProcessesNumbered' /\ RuntimesApart'
  BY <1>2 DEF BrokerInv, ProcessesNumbered, RuntimesApart
<1>12. \A g \in Processes : process[g].alive \/ process[g].slot # None => process[g].slot[1] \in Brokers
  BY <1>7, AliveIsStarted
<1>13. LastIsAlive' /\ EndsKnown'
  BY <1>1, <1>2, <1>3, <1>7, <1>12 DEF BrokerInv, LastIsAlive, EndsKnown
<1>14. PipesClean'
  BY <1>2, PipesStay DEF BrokerInv
<1>15. AcceptedStays'
  <2>1. \A a \in Calls : seen[a] # 0 => seen[a] \in Brokers
    BY BoundsAreNumbers DEF BrokerInv, BrokerTypeOK, Brokers
  <2> QED
    BY <1>1, <1>2, <1>3, <2>1 DEF BrokerInv, AcceptedStays
<1> QED
  BY <1>5, <1>8, <1>9, <1>10, <1>11, <1>13, <1>14, <1>15 DEF BrokerInv

LEMMA CloseAllKeeps ==
  ASSUME BrokerInv, NEW b \in Brokers, CloseAll(b)
  PROVE  BrokerInv'
<1> DEFINE Owns(g) == \E r \in Runtimes : slot[<<b, r>>].registered /\ slot[<<b, r>>].current = g
<1>1. /\ broker[b] = "STOPPING" /\ lock[b] = None
      /\ broker' = [broker EXCEPT ![b] = "CLOSED"]
      /\ process' = [g \in Processes |-> IF Owns(g) THEN Killed(g)[g] ELSE process[g]]
      /\ slot' = [s \in Slots |-> IF s[1] = b THEN [slot[s] EXCEPT !.registered = FALSE] ELSE slot[s]]
      /\ UNCHANGED <<protocol, setup, lock, made, client, handler, via, seen, answer, faults>>
  BY DEF CloseAll, calls
<1>2. slot \in [Slots -> ObjectRecord] /\ process \in [Processes -> ProcessRecord]
  BY DEF BrokerInv, BrokerTypeOK
<1>3. ASSUME NEW t \in Slots
      PROVE  /\ slot'[t] \in ObjectRecord
             /\ slot'[t].registered => slot[t].registered
             /\ t[1] = b => ~slot'[t].registered
             /\ slot'[t].config = slot[t].config /\ slot'[t].current = slot[t].current
             /\ slot'[t].dead = slot[t].dead /\ slot'[t].turn = slot[t].turn
             /\ slot'[t].events = slot[t].events /\ slot'[t].cut = slot[t].cut
             /\ t[1] # b => slot'[t] = slot[t]
  <2>1. slot[t] \in ObjectRecord
    BY <1>2
  <2>2. CASE t[1] = b
    <3>1. slot'[t] = [slot[t] EXCEPT !.registered = FALSE]
      BY <1>1, <2>2
    <3> QED
      BY <2>1, <2>2, <3>1 DEF ObjectRecord
  <2>3. CASE t[1] # b
    BY <1>1, <2>1, <2>3 DEF ObjectRecord
  <2> QED
    BY <2>2, <2>3
<1>4. ASSUME NEW g \in Processes
      PROVE  /\ process'[g] \in ProcessRecord
             /\ process'[g].slot = process[g].slot /\ process'[g].config = process[g].config
             /\ process'[g].alive => process[g].alive
             /\ Owns(g) => ~process'[g].alive
             /\ process'[g].inbox \in {process[g].inbox, <<>>}
             /\ Owns(g) => process'[g].inbox = <<>>
             /\ process'[g].out = process[g].out /\ process'[g].ended = process[g].ended
             /\ ~Owns(g) => process'[g] = process[g]
  <2>1. process[g] \in ProcessRecord
    BY <1>2
  <2>2. CASE Owns(g)
    <3> DEFINE next == [process[g] EXCEPT !.alive = FALSE, !.inbox = <<>>, !.stdin = FALSE]
    <3>1. Killed(g) = [process EXCEPT ![g] = next]
      BY DEF Killed
    <3>2. /\ next \in ProcessRecord /\ next.slot = process[g].slot /\ next.config = process[g].config
          /\ ~next.alive /\ next.inbox = <<>> /\ next.out = process[g].out /\ next.ended = process[g].ended
      BY <2>1, EmptySeq DEF ProcessRecord
    <3> HIDE DEF next
    <3>3. process'[g] = Killed(g)[g]
      BY <1>1, <2>2
    <3>4. process'[g] = next
      BY <1>2, <3>1, <3>3
    <3> HIDE DEF Owns
    <3> QED
      BY <2>2, <3>2, <3>4
  <2>3. CASE ~Owns(g)
    BY <1>1, <2>1, <2>3 DEF ProcessRecord
  <2> QED
    BY <2>2, <2>3
<1>5. /\ broker \in [Brokers -> {"NONE", "UP", "STOPPING", "CLOSED", "GONE"}]
      /\ broker' \in [Brokers -> {"NONE", "UP", "STOPPING", "CLOSED", "GONE"}]
      /\ broker'[b] = "CLOSED"
      /\ \A a \in Brokers : a # b => broker'[a] = broker[a]
  BY <1>1 DEF BrokerInv, BrokerTypeOK
<1>6. \A t \in Slots : t[1] \in Brokers /\ t[2] \in Runtimes /\ t = <<t[1], t[2]>>
  BY DEF Slots
<1>7. \A t \in Slots : slot[t].registered /\ t[1] = b => slot[t].current # 0 /\ Owns(slot[t].current)
  BY <1>6 DEF BrokerInv, TurnsHeld
<1>8. \A g \in Processes : Owns(g) => g # 0 /\ process[g].slot \in Slots /\ process[g].slot[1] = b
  <2> SUFFICES ASSUME NEW r \in Runtimes, NEW g \in Processes, slot[<<b, r>>].current = g
               PROVE  g # 0 /\ process[g].slot \in Slots /\ process[g].slot[1] = b
    OBVIOUS
  <2>1. <<b, r>> \in Slots /\ g # 0
    BY DEF Slots, Processes
  <2> QED
    BY <2>1 DEF BrokerInv, ProcessesNumbered
<1> HIDE DEF Owns
<1>9. \A a \in Calls : handler[a] # "NONE" =>
        /\ via[a] \in Brokers /\ Slot(a) \in Slots /\ Slot(a)[1] = via[a]
        /\ Object(a) = slot[Slot(a)] /\ Object(a)' = slot'[Slot(a)]
        /\ Object(a).current \in Processes /\ Current(a) = process[Object(a).current]
  BY <1>1, Places DEF Object, Slot
<1>10. BrokerTypeOK'
  <2>1. slot' \in [Slots -> ObjectRecord]
    BY <1>1, <1>3
  <2>2. process' \in [Processes -> ProcessRecord]
    BY <1>1, <1>4
  <2> QED
    BY <1>1, <1>5, <2>1, <2>2 DEF BrokerInv, BrokerTypeOK
<1>11. HandlersPlaced'
  <2>1. \A t \in Slots : broker'[t[1]] \in {"NONE", "GONE"} => slot'[t] = NoProcess
    BY <1>3, <1>5, <1>6 DEF BrokerInv, HandlersPlaced
  <2>2. \A a \in Calls : handler[a] # "NONE" => broker'[via[a]] \in Present
    BY <1>5, <1>9 DEF BrokerInv, HandlersPlaced, Present
  <2> QED
    BY <1>1, <2>1, <2>2 DEF BrokerInv, HandlersPlaced
<1>12. HandshakesLock'
  <2>1. ASSUME NEW a \in Calls, handler[a] = "HANDSHAKE"
        PROVE  broker'[via[a]] # "CLOSED"
    BY <1>1, <1>5, <1>9, <2>1, NoneIsNoValue DEF BrokerInv, HandshakesLock
  <2>2. ASSUME NEW a \in Calls, handler'[a] = "HANDSHAKE"
        PROVE  /\ lock'[via'[a]] = a /\ broker'[via'[a]] # "CLOSED"
               /\ Object(a)'.current # 0 /\ Object(a)'.config = setup'[a] /\ ~Object(a)'.registered
    <3>1. handler[a] = "HANDSHAKE" /\ handler[a] # "NONE"
      BY <1>1, <2>2
    <3>2. /\ Object(a)'.current = Object(a).current /\ Object(a)'.config = Object(a).config
          /\ Object(a)'.registered => Object(a).registered
      BY <1>3, <1>9, <3>1
    <3> QED
      BY <1>1, <2>1, <3>1, <3>2 DEF BrokerInv, HandshakesLock
  <2>3. \A a \in Brokers : lock'[a] # None => handler'[lock'[a]] = "HANDSHAKE" /\ via'[lock'[a]] = a
    BY <1>1 DEF BrokerInv, HandshakesLock
  <2> QED
    BY <2>2, <2>3 DEF HandshakesLock
<1>13. TurnsHeld'
  <2>1. ASSUME NEW a \in Calls
        PROVE  /\ handler'[a] \in TurnStates => Object(a)'.turn = a
               /\ handler'[a] = "RESTART" => Object(a)'.dead
               /\ handler'[a] \in {"QUEUED"} \cup TurnStates =>
                    Object(a)'.current # 0 /\ (Object(a)'.registered \/ broker'[via'[a]] = "CLOSED")
    <3>1. handler'[a] = handler[a] /\ via'[a] = via[a]
      BY <1>1
    <3>2. CASE handler[a] \in {"QUEUED"} \cup TurnStates
      <4>1. /\ Object(a)'.current = Object(a).current /\ Object(a)'.turn = Object(a).turn
            /\ Object(a)'.dead = Object(a).dead
            /\ Slot(a)[1] # b => Object(a)' = Object(a)
            /\ via[a] = Slot(a)[1] /\ via[a] \in Brokers
        BY <1>3, <1>9, <3>2 DEF TurnStates
      <4>2. Object(a)'.registered \/ broker'[via[a]] = "CLOSED"
        BY <1>5, <3>2, <4>1 DEF BrokerInv, TurnsHeld
      <4> QED
        BY <3>1, <3>2, <4>1, <4>2 DEF BrokerInv, TurnsHeld
    <3> QED
      BY <3>1, <3>2 DEF TurnStates
  <2>2. ASSUME NEW t \in Slots
        PROVE  /\ slot'[t].turn # None =>
                    /\ handler'[slot'[t].turn] \in TurnStates
                    /\ <<via'[slot'[t].turn], RuntimeOf[slot'[t].turn]>> = t
               /\ slot'[t].registered => slot'[t].current # 0
    BY <1>1, <1>3 DEF BrokerInv, TurnsHeld, Slot
  <2> QED
    BY <2>1, <2>2 DEF TurnsHeld, Slot
<1>14. \A t \in Slots : slot[t].current # 0 => slot[t].current \in Processes /\ process[slot[t].current].slot = t
  BY ObjectFields DEF BrokerInv, ProcessesNumbered
<1>15. ProcessesNumbered'
  <2>1. ASSUME NEW g \in Processes, g > made
        PROVE  process'[g] = process[g]
    BY <1>4, <1>8, <2>1, NoneIsNoValue DEF BrokerInv, ProcessesNumbered, NotStarted
  <2> QED
    BY <1>1, <1>3, <1>4, <2>1, NumberedStays
<1>16. \A g \in Processes : process[g].alive \/ process[g].slot # None => process[g].slot \in Slots
  BY AliveIsStarted
<1>17. LastIsAlive'
  <2>1. ASSUME NEW g \in Processes, process'[g].alive, broker'[process'[g].slot[1]] # "GONE"
        PROVE  slot'[process'[g].slot].current = g
    <3>1. process[g].alive /\ process'[g].slot = process[g].slot /\ process[g].slot \in Slots
      BY <1>4, <1>16, <2>1
    <3>2. broker[process[g].slot[1]] # "GONE"
      BY <1>1, <1>5, <1>6, <2>1, <3>1
    <3> QED
      BY <1>3, <3>1, <3>2 DEF BrokerInv, LastIsAlive
  <2>2. ASSUME NEW t \in Slots
        PROVE  /\ slot'[t].dead => slot'[t].current # 0 /\ ~process'[slot'[t].current].alive
               /\ /\ broker'[t[1]] \in {"UP", "STOPPING"}
                  /\ ~slot'[t].registered /\ slot'[t].current # 0 /\ process'[slot'[t].current].alive
                  => lock'[t[1]] # None /\ RuntimeOf[lock'[t[1]]] = t[2]
    <3>1. /\ slot'[t].current = slot[t].current /\ slot'[t].dead = slot[t].dead
          /\ slot[t].current # 0 /\ process'[slot[t].current].alive => process[slot[t].current].alive
      BY <1>3, <1>4, <1>14
    <3>2. slot'[t].dead => slot'[t].current # 0 /\ ~process'[slot'[t].current].alive
      BY <3>1 DEF BrokerInv, LastIsAlive
    <3>3. ASSUME broker'[t[1]] \in {"UP", "STOPPING"}, ~slot'[t].registered, slot'[t].current # 0,
                 process'[slot'[t].current].alive
          PROVE  lock'[t[1]] # None /\ RuntimeOf[lock'[t[1]]] = t[2]
      <4>1. t[1] # b /\ broker[t[1]] = broker'[t[1]]
        BY <1>5, <1>6, <3>3
      <4>2. slot'[t] = slot[t]
        BY <1>3, <4>1
      <4> QED
        BY <1>1, <3>1, <3>3, <4>1, <4>2 DEF BrokerInv, LastIsAlive
    <3> QED
      BY <3>2, <3>3
  <2> QED
    BY <2>1, <2>2 DEF LastIsAlive
<1>18. EndsKnown'
  <2>1. ASSUME NEW g \in Processes
        PROVE  /\ ~process'[g].alive => process'[g].inbox = <<>>
               /\ process'[g].ended /\ process'[g].alive => broker'[process'[g].slot[1]] = "GONE"
    <3>1. ~process'[g].alive => process'[g].inbox = <<>>
      BY <1>4 DEF BrokerInv, EndsKnown
    <3>2. ASSUME process'[g].ended, process'[g].alive
          PROVE  broker'[process'[g].slot[1]] = "GONE"
      <4>1. process[g].ended /\ process[g].alive /\ process[g].slot \in Slots /\ process'[g].slot = process[g].slot
        BY <1>4, <1>16, <3>2
      <4>2. broker[process[g].slot[1]] = "GONE"
        BY <4>1 DEF BrokerInv, EndsKnown
      <4> QED
        BY <1>1, <1>5, <1>6, <4>1, <4>2
    <3> QED
      BY <3>1, <3>2
  <2>2. \A t \in Slots : slot'[t].current # 0 /\ process'[slot'[t].current].ended => slot'[t].dead
    BY <1>3, <1>4, <1>14 DEF BrokerInv, EndsKnown
  <2> QED
    BY <2>1, <2>2 DEF EndsKnown
<1>19. PipesClean'
  <2>1. \A t \in Slots : Subscribed(t) => Subscribed(t)'
    BY <1>1, <1>3 DEF Subscribed
  <2> QED
    BY <1>1, <1>3, <1>4, <2>1, PipesAlike
<1>20. RuntimesApart'
  <2>1. ASSUME NEW g \in Processes, process'[g].slot # None
        PROVE  /\ process'[g].inbox \in Seq(CallsOf(process'[g].slot[2]))
               /\ process'[g].out \in Seq(LinesOf(process'[g].slot[2]))
    <3>1. /\ process[g].inbox \in Seq(CallsOf(process[g].slot[2])) /\ process[g].out \in Seq(LinesOf(process[g].slot[2]))
          /\ <<>> \in Seq(CallsOf(process[g].slot[2]))
      BY <1>4, <2>1, EmptySeq DEF BrokerInv, RuntimesApart
    <3>2. process'[g].inbox = process[g].inbox \/ process'[g].inbox = <<>>
      BY <1>4
    <3> QED
      BY <1>4, <3>1, <3>2
  <2> QED
    BY <1>3, <2>1 DEF BrokerInv, RuntimesApart
<1>21. AcceptedStays'
  <2>1. \A a \in Calls : seen[a] # 0 => seen[a] \in Brokers /\ <<seen[a], RuntimeOf[a]>> \in Slots
    BY CallsHaveRuntimes, BoundsAreNumbers DEF BrokerInv, BrokerTypeOK, Slots, Brokers
  <2>2. \A a \in Calls : seen[a] # 0 => <<seen[a], RuntimeOf[a]>>[1] = seen[a]
    OBVIOUS
  <2>3. ASSUME NEW a \in Calls, seen'[a] # 0, broker'[seen'[a]] # "GONE"
        PROVE  /\ slot'[<<seen'[a], RuntimeOf[a]>>].config = setup'[a]
               /\ slot'[<<seen'[a], RuntimeOf[a]>>].registered \/ broker'[seen'[a]] # "UP"
    <3> DEFINE t == <<seen[a], RuntimeOf[a]>>
    <3>1. seen'[a] = seen[a] /\ setup'[a] = setup[a] /\ t \in Slots /\ t[1] = seen[a] /\ seen[a] \in Brokers
      BY <1>1, <2>1, <2>2, <2>3
    <3>2. broker[seen[a]] # "GONE"
      BY <1>1, <1>5, <2>3, <3>1
    <3>3. slot[t].config = setup[a] /\ (slot[t].registered \/ broker[seen[a]] # "UP")
      BY <2>3, <3>1, <3>2 DEF BrokerInv, AcceptedStays
    <3>4. slot'[t].config = slot[t].config /\ (t[1] # b => slot'[t] = slot[t])
      BY <1>3, <3>1
    <3> HIDE DEF t
    <3>5. slot'[t].registered \/ broker'[seen[a]] # "UP"
      BY <1>5, <3>1, <3>3, <3>4
    <3> QED
      BY <3>1, <3>3, <3>4, <3>5 DEF t
  <2> QED
    BY <2>3 DEF AcceptedStays
<1> QED
  BY <1>10, <1>11, <1>12, <1>13, <1>15, <1>17, <1>18, <1>19, <1>20, <1>21 DEF BrokerInv

LEMMA VanishKeeps ==
  ASSUME BrokerInv, NEW b \in Brokers, Vanish(b)
  PROVE  BrokerInv'
<1> DEFINE Lost(g) == process[g].slot # None /\ process[g].slot[1] = b
<1>1. /\ broker[b] \in Present
      /\ broker' = [broker EXCEPT ![b] = "GONE"]
      /\ lock' = [lock EXCEPT ![b] = None]
      /\ slot' = [s \in Slots |-> IF s[1] = b THEN NoProcess ELSE slot[s]]
      /\ process' = [g \in Processes |->
           IF Lost(g) THEN [process[g] EXCEPT !.stdin = FALSE, !.out = <<>>, !.ended = TRUE] ELSE process[g]]
      /\ client' = [c \in Calls |-> IF via[c] = b THEN "FAILED" ELSE client[c]]
      /\ handler' = [c \in Calls |-> IF via[c] = b THEN "NONE" ELSE handler[c]]
      /\ via' = [c \in Calls |-> IF via[c] = b THEN 0 ELSE via[c]]
      /\ Fault \/ UNCHANGED faults
      /\ UNCHANGED <<protocol, setup, made, seen, answer>>
  BY DEF Vanish, Present
<1>2. slot \in [Slots -> ObjectRecord] /\ process \in [Processes -> ProcessRecord]
  BY DEF BrokerInv, BrokerTypeOK
<1>3. ASSUME NEW g \in Processes
      PROVE  /\ process'[g] \in ProcessRecord
             /\ process'[g].slot = process[g].slot /\ process'[g].config = process[g].config
             /\ process'[g].alive = process[g].alive /\ process'[g].inbox = process[g].inbox
             /\ Lost(g) => process'[g].out = <<>>
             /\ ~Lost(g) => process'[g] = process[g]
  <2>1. process[g] \in ProcessRecord
    BY <1>2
  <2>2. CASE Lost(g)
    <3> DEFINE next == [process[g] EXCEPT !.stdin = FALSE, !.out = <<>>, !.ended = TRUE]
    <3>1. /\ next \in ProcessRecord /\ next.slot = process[g].slot /\ next.config = process[g].config
          /\ next.alive = process[g].alive /\ next.inbox = process[g].inbox /\ next.out = <<>>
      BY <2>1, EmptySeq DEF ProcessRecord
    <3>2. process'[g] = next
      BY <1>1, <2>2
    <3> HIDE DEF next, Lost
    <3> QED
      BY <2>2, <3>1, <3>2
  <2>3. CASE ~Lost(g)
    BY <1>1, <2>1, <2>3
  <2> QED
    BY <2>2, <2>3
<1>4. /\ \A t \in Slots : t[1] \in Brokers
      /\ \A t \in Slots : t[1] = b => slot'[t] = NoProcess
      /\ \A t \in Slots : t[1] # b => slot'[t] = slot[t]
  BY <1>1 DEF Slots
<1>5. /\ broker \in [Brokers -> {"NONE", "UP", "STOPPING", "CLOSED", "GONE"}]
      /\ broker' \in [Brokers -> {"NONE", "UP", "STOPPING", "CLOSED", "GONE"}]
      /\ broker'[b] = "GONE" /\ lock'[b] = None
      /\ \A a \in Brokers : a # b => broker'[a] = broker[a] /\ lock'[a] = lock[a]
  BY <1>1 DEF BrokerInv, BrokerTypeOK
<1>6. b \in Nat /\ b # 0
  BY DEF Brokers
<1>7. \A c \in Calls : handler'[c] # "NONE" =>
        /\ via[c] # b /\ handler[c] = handler'[c] /\ via'[c] = via[c] /\ client'[c] = client[c]
        /\ via[c] \in Brokers /\ Slot(c) \in Slots /\ Slot(c)[1] = via[c]
        /\ Object(c) = slot[Slot(c)] /\ Object(c)' = Object(c)
        /\ Object(c).current \in Processes /\ process[Object(c).current].slot = Slot(c)
        /\ Current(c) = process[Object(c).current]
  <2> SUFFICES ASSUME NEW c \in Calls, handler'[c] # "NONE"
               PROVE  /\ via[c] # b /\ handler[c] = handler'[c] /\ via'[c] = via[c] /\ client'[c] = client[c]
                      /\ via[c] \in Brokers /\ Slot(c) \in Slots /\ Slot(c)[1] = via[c]
                      /\ Object(c) = slot[Slot(c)] /\ Object(c)' = Object(c)
                      /\ Object(c).current \in Processes /\ process[Object(c).current].slot = Slot(c)
                      /\ Current(c) = process[Object(c).current]
    OBVIOUS
  <2>1. via[c] # b /\ handler[c] = handler'[c] /\ via'[c] = via[c] /\ client'[c] = client[c]
    BY <1>1
  <2>2. /\ via[c] \in Brokers /\ Slot(c) \in Slots /\ Slot(c)[1] = via[c]
        /\ Object(c) = slot[Slot(c)]
        /\ Object(c).current \in Processes /\ process[Object(c).current].slot = Slot(c)
        /\ Current(c) = process[Object(c).current]
    BY <2>1, Places
  <2>3. Object(c)' = slot'[Slot(c)]
    BY <2>1 DEF Object, Slot
  <2> QED
    BY <1>4, <2>1, <2>2, <2>3
<1>8. \A t \in Slots : slot'[t].current # 0 =>
        /\ t[1] # b /\ slot[t].current # 0 /\ slot'[t] = slot[t]
        /\ slot[t].current \in Processes /\ process[slot[t].current].slot = t
        /\ process'[slot[t].current] = process[slot[t].current]
  <2> SUFFICES ASSUME NEW t \in Slots, slot'[t].current # 0
               PROVE  /\ t[1] # b /\ slot[t].current # 0 /\ slot'[t] = slot[t]
                      /\ slot[t].current \in Processes /\ process[slot[t].current].slot = t
                      /\ process'[slot[t].current] = process[slot[t].current]
    OBVIOUS
  <2>1. t[1] # b
    BY <1>4 DEF NoProcess
  <2>2. slot'[t] = slot[t]
    BY <1>4, <2>1
  <2>3. slot[t].current \in Processes /\ process[slot[t].current].slot = t
    BY <2>2, ObjectFields DEF BrokerInv, ProcessesNumbered
  <2> QED
    BY <1>3, <2>1, <2>2, <2>3
<1>9. \A g \in Processes : process[g].alive \/ process[g].slot # None => process[g].slot \in Slots /\ process[g].slot # None
  BY AliveIsStarted
<1>10. BrokerTypeOK'
  <2>1. NoProcess \in ObjectRecord /\ 0 \in 0 .. MaxBrokers
    BY BoundsAreNumbers, EmptySeq DEF NoProcess, ObjectRecord
  <2>2. slot' \in [Slots -> ObjectRecord]
    BY <1>1, <1>2, <2>1
  <2>3. process' \in [Processes -> ProcessRecord]
    BY <1>1, <1>3
  <2>4. faults' \in 0 .. MaxFaults
    BY <1>1, FaultCounts
  <2>5. /\ lock' \in [Brokers -> Calls \cup {None}]
        /\ client' \in [Calls -> {"NEW", "REGISTER", "PROMPT", "WAITING", "DONE", "FAILED"}]
        /\ handler' \in [Calls -> {"NONE", "HANDSHAKE", "QUEUED", "SEND", "READ", "RESTART", "RESUME"}]
        /\ via' \in [Calls -> 0 .. MaxBrokers]
    BY <1>1, <2>1 DEF BrokerInv, BrokerTypeOK
  <2> QED
    BY <1>1, <1>5, <2>2, <2>3, <2>4, <2>5 DEF BrokerInv, BrokerTypeOK
<1> HIDE DEF Lost
<1>11. HandlersPlaced'
  <2>1. ASSUME NEW c \in Calls
        PROVE  /\ handler'[c] = "NONE" <=> via'[c] = 0
               /\ handler'[c] # "NONE" => broker'[via'[c]] \in Present
               /\ client'[c] \in {"NEW", "PROMPT"} => handler'[c] = "NONE"
               /\ client'[c] = "REGISTER" => handler'[c] \in {"NONE", "HANDSHAKE"}
    <3>1. CASE via[c] = b
      BY <1>1, <3>1
    <3>2. CASE via[c] # b
      BY <1>1, <1>5, <1>7, <3>2 DEF BrokerInv, HandlersPlaced
    <3> QED
      BY <3>1, <3>2
  <2>2. ASSUME NEW t \in Slots, broker'[t[1]] \in {"NONE", "GONE"}
        PROVE  slot'[t] = NoProcess
    BY <1>4, <1>5, <2>2 DEF BrokerInv, HandlersPlaced
  <2> QED
    BY <2>1, <2>2 DEF HandlersPlaced, NoProcess
<1>12. HandshakesLock'
  <2>1. ASSUME NEW c \in Calls, handler'[c] = "HANDSHAKE"
        PROVE  /\ lock'[via'[c]] = c /\ broker'[via'[c]] # "CLOSED"
               /\ Object(c)'.current # 0 /\ Object(c)'.config = setup'[c] /\ ~Object(c)'.registered
    <3>1. /\ handler[c] = "HANDSHAKE" /\ via'[c] = via[c] /\ via[c] # b /\ via[c] \in Brokers
          /\ Object(c)' = Object(c) /\ setup'[c] = setup[c]
      BY <1>1, <1>7, <2>1
    <3>2. lock'[via[c]] = lock[via[c]] /\ broker'[via[c]] = broker[via[c]]
      BY <1>5, <3>1
    <3> QED
      BY <3>1, <3>2 DEF BrokerInv, HandshakesLock
  <2>2. ASSUME NEW a \in Brokers, lock'[a] # None
        PROVE  handler'[lock'[a]] = "HANDSHAKE" /\ via'[lock'[a]] = a
    <3>1. a # b /\ lock[a] # None /\ lock'[a] = lock[a]
      BY <1>5, <2>2
    <3>2. lock[a] \in Calls /\ handler[lock[a]] = "HANDSHAKE" /\ via[lock[a]] = a
      BY <3>1 DEF BrokerInv, BrokerTypeOK, HandshakesLock
    <3> QED
      BY <1>1, <3>1, <3>2
  <2> QED
    BY <2>1, <2>2 DEF HandshakesLock
<1>13. TurnsHeld'
  <2>1. ASSUME NEW c \in Calls
        PROVE  /\ handler'[c] \in TurnStates => Object(c)'.turn = c
               /\ handler'[c] = "RESTART" => Object(c)'.dead
               /\ handler'[c] \in {"QUEUED"} \cup TurnStates =>
                    Object(c)'.current # 0 /\ (Object(c)'.registered \/ broker'[via'[c]] = "CLOSED")
    <3>1. CASE handler'[c] = "NONE"
      BY <3>1 DEF TurnStates
    <3>2. CASE handler'[c] # "NONE"
      BY <1>5, <1>7, <3>2 DEF BrokerInv, TurnsHeld
    <3> QED
      BY <3>1, <3>2
  <2>2. ASSUME NEW t \in Slots
        PROVE  /\ slot'[t].turn # None =>
                    /\ handler'[slot'[t].turn] \in TurnStates
                    /\ <<via'[slot'[t].turn], RuntimeOf[slot'[t].turn]>> = t
               /\ slot'[t].registered => slot'[t].current # 0
    <3>1. CASE t[1] = b
      BY <1>4, <3>1 DEF NoProcess
    <3>2. CASE t[1] # b
      <4>1. slot'[t] = slot[t]
        BY <1>4, <3>2
      <4>2. ASSUME slot[t].turn # None
            PROVE  /\ handler'[slot[t].turn] \in TurnStates
                   /\ <<via'[slot[t].turn], RuntimeOf[slot[t].turn]>> = t
        <5>1. slot[t].turn \in Calls /\ handler[slot[t].turn] \in TurnStates /\ Slot(slot[t].turn) = t
          BY <4>2, TurnHolder
        <5>2. via[slot[t].turn] # b
          BY <3>2, <5>1 DEF Slot
        <5> QED
          BY <1>1, <5>1, <5>2 DEF Slot
      <4> QED
        BY <4>1, <4>2 DEF BrokerInv, TurnsHeld
    <3> QED
      BY <3>1, <3>2
  <2> QED
    BY <2>1, <2>2 DEF TurnsHeld, Slot
<1>14. ProcessesNumbered'
  <2>1. ASSUME NEW g \in Processes
        PROVE  IF g > made' THEN process'[g] = NotStarted ELSE process'[g].slot \in Slots
    <3>1. CASE g > made
      <4>1. process[g] = NotStarted
        BY <3>1 DEF BrokerInv, ProcessesNumbered
      <4>2. ~Lost(g)
        BY <4>1 DEF Lost, NotStarted
      <4> QED
        BY <1>1, <1>3, <3>1, <4>1, <4>2
    <3>2. CASE ~(g > made)
      BY <1>1, <1>3, <3>2 DEF BrokerInv, ProcessesNumbered
    <3> QED
      BY <3>1, <3>2
  <2>2. ASSUME NEW t \in Slots, slot'[t].current # 0
        PROVE  /\ slot'[t].current \in 1 .. made'
               /\ process'[slot'[t].current].slot = t
               /\ process'[slot'[t].current].config = slot'[t].config
    <3>1. /\ slot'[t] = slot[t] /\ slot[t].current # 0
          /\ process'[slot[t].current] = process[slot[t].current] /\ made' = made
      BY <1>1, <1>8, <2>2
    <3> QED
      BY <3>1 DEF BrokerInv, ProcessesNumbered
  <2> QED
    BY <2>1, <2>2 DEF ProcessesNumbered
<1>15. LastIsAlive'
  <2>1. ASSUME NEW g \in Processes, process'[g].alive, broker'[process'[g].slot[1]] # "GONE"
        PROVE  slot'[process'[g].slot].current = g
    <3>1. process[g].alive /\ process'[g].slot = process[g].slot /\ process[g].slot \in Slots
      BY <1>3, <1>9, <2>1
    <3>2. process[g].slot[1] # b /\ broker[process[g].slot[1]] # "GONE"
      BY <1>4, <1>5, <2>1, <3>1
    <3> QED
      BY <1>4, <3>1, <3>2 DEF BrokerInv, LastIsAlive
  <2>2. ASSUME NEW t \in Slots
        PROVE  /\ slot'[t].dead => slot'[t].current # 0 /\ ~process'[slot'[t].current].alive
               /\ /\ broker'[t[1]] \in {"UP", "STOPPING"}
                  /\ ~slot'[t].registered /\ slot'[t].current # 0 /\ process'[slot'[t].current].alive
                  => lock'[t[1]] # None /\ RuntimeOf[lock'[t[1]]] = t[2]
    <3>1. CASE t[1] = b
      BY <1>4, <3>1 DEF NoProcess
    <3>2. CASE t[1] # b
      <4>1. slot'[t] = slot[t] /\ broker'[t[1]] = broker[t[1]] /\ lock'[t[1]] = lock[t[1]]
        BY <1>4, <1>5, <3>2
      <4> QED
        BY <1>8, <4>1 DEF BrokerInv, LastIsAlive
    <3> QED
      BY <3>1, <3>2
  <2> QED
    BY <2>1, <2>2 DEF LastIsAlive
<1>16. EndsKnown'
  <2>1. ASSUME NEW g \in Processes
        PROVE  /\ ~process'[g].alive => process'[g].inbox = <<>>
               /\ process'[g].ended /\ process'[g].alive => broker'[process'[g].slot[1]] = "GONE"
    <3>1. ~process'[g].alive => process'[g].inbox = <<>>
      BY <1>3 DEF BrokerInv, EndsKnown
    <3>2. ASSUME process'[g].ended, process'[g].alive
          PROVE  broker'[process'[g].slot[1]] = "GONE"
      <4>1. CASE Lost(g)
        BY <1>3, <1>5, <4>1 DEF Lost
      <4>2. CASE ~Lost(g)
        <5>1. process'[g] = process[g] /\ process[g].slot \in Slots /\ process[g].slot # None
          BY <1>3, <1>9, <3>2, <4>2
        <5>2. broker[process[g].slot[1]] = "GONE" /\ process[g].slot[1] # b
          BY <3>2, <4>2, <5>1 DEF BrokerInv, EndsKnown, Lost
        <5> QED
          BY <1>4, <1>5, <5>1, <5>2
      <4> QED
        BY <4>1, <4>2
    <3> QED
      BY <3>1, <3>2
  <2>2. \A t \in Slots : slot'[t].current # 0 /\ process'[slot'[t].current].ended => slot'[t].dead
    BY <1>8 DEF BrokerInv, EndsKnown
  <2> QED
    BY <2>1, <2>2 DEF EndsKnown
<1>17. PipesClean'
  <2> SUFFICES ASSUME protocol = "STREAM" PROVE PipesClean'
    BY <1>1 DEF PipesClean
  <2>1. ASSUME NEW t \in Slots
        PROVE  /\ slot'[t].events = <<>> /\ ~slot'[t].cut
               /\ slot'[t].current # 0 /\ ~slot'[t].dead /\ ~Subscribed(t)' =>
                    process'[slot'[t].current].inbox = <<>> /\ process'[slot'[t].current].out = <<>>
    <3>1. CASE t[1] = b
      BY <1>4, <3>1 DEF NoProcess
    <3>2. CASE t[1] # b
      <4>1. slot'[t] = slot[t] /\ slot[t].events = <<>> /\ ~slot[t].cut
        BY <1>4, <3>2 DEF BrokerInv, PipesClean
      <4>2. ASSUME Subscribed(t) PROVE Subscribed(t)'
        <5>1. PICK a \in Calls : handler[a] = "READ" /\ slot[t].turn = a
          BY <4>2 DEF Subscribed
        <5>2. slot[t].turn # None
          BY <5>1, NoneIsNoValue
        <5>3. Slot(a) = t
          BY <5>1, <5>2, TurnHolder
        <5>4. via[a] # b
          BY <3>2, <5>3 DEF Slot
        <5>5. handler'[a] = "READ" /\ slot'[t].turn = a
          BY <1>1, <4>1, <5>1, <5>4
        <5> QED
          BY <5>5 DEF Subscribed
      <4> QED
        BY <1>8, <4>1, <4>2 DEF BrokerInv, PipesClean
    <3> QED
      BY <3>1, <3>2
  <2>2. ASSUME NEW a \in Calls, handler'[a] = "READ"
        PROVE  \/ Current(a)'.inbox = <<>> /\ Current(a)'.out = <<>>
               \/ Current(a)'.inbox = <<a>> /\ Current(a)'.out = <<>>
               \/ Current(a)'.inbox = <<>> /\ \E ok \in BOOLEAN : Current(a)'.out = <<[of |-> a, ok |-> ok]>>
    <3>1. /\ handler[a] = "READ" /\ via[a] # b /\ Slot(a)[1] = via[a] /\ Object(a)' = Object(a)
          /\ Object(a).current \in Processes /\ process[Object(a).current].slot = Slot(a)
      BY <1>7, <2>2
    <3>2. ~Lost(Object(a).current)
      BY <3>1 DEF Lost
    <3>3. Current(a)' = Current(a)
      BY <1>3, <3>1, <3>2 DEF Current
    <3> QED
      BY <3>1, <3>3 DEF BrokerInv, PipesClean
  <2> QED
    BY <2>1, <2>2 DEF PipesClean
<1>18. RuntimesApart'
  <2>1. ASSUME NEW g \in Processes, process'[g].slot # None
        PROVE  /\ process'[g].inbox \in Seq(CallsOf(process'[g].slot[2]))
               /\ process'[g].out \in Seq(LinesOf(process'[g].slot[2]))
    <3>1. /\ process[g].inbox \in Seq(CallsOf(process[g].slot[2])) /\ process[g].out \in Seq(LinesOf(process[g].slot[2]))
          /\ <<>> \in Seq(LinesOf(process[g].slot[2]))
      BY <1>3, <2>1, EmptySeq DEF BrokerInv, RuntimesApart
    <3>2. process'[g].out = process[g].out \/ process'[g].out = <<>>
      BY <1>3
    <3> QED
      BY <1>3, <3>1, <3>2
  <2>2. ASSUME NEW t \in Slots PROVE slot'[t].events \in Seq(LinesOf(t[2]))
    <3>1. slot[t].events \in Seq(LinesOf(t[2])) /\ <<>> \in Seq(LinesOf(t[2]))
      BY EmptySeq DEF BrokerInv, RuntimesApart
    <3>2. slot'[t].events = <<>> \/ slot'[t] = slot[t]
      BY <1>4 DEF NoProcess
    <3> QED
      BY <3>1, <3>2
  <2> QED
    BY <2>1, <2>2 DEF RuntimesApart
<1>19. AcceptedStays'
  <2>1. \A a \in Calls : seen[a] # 0 => seen[a] \in Brokers /\ <<seen[a], RuntimeOf[a]>> \in Slots
    BY CallsHaveRuntimes, BoundsAreNumbers DEF BrokerInv, BrokerTypeOK, Slots, Brokers
  <2>2. ASSUME NEW a \in Calls, seen'[a] # 0, broker'[seen'[a]] # "GONE"
        PROVE  /\ slot'[<<seen'[a], RuntimeOf[a]>>].config = setup'[a]
               /\ slot'[<<seen'[a], RuntimeOf[a]>>].registered \/ broker'[seen'[a]] # "UP"
    <3>1. /\ seen'[a] = seen[a] /\ setup'[a] = setup[a] /\ <<seen[a], RuntimeOf[a]>> \in Slots
          /\ seen[a] \in Brokers /\ seen[a] # b
      BY <1>1, <1>5, <2>1, <2>2
    <3>2. slot'[<<seen[a], RuntimeOf[a]>>] = slot[<<seen[a], RuntimeOf[a]>>] /\ broker'[seen[a]] = broker[seen[a]]
      BY <1>4, <1>5, <3>1
    <3> QED
      BY <2>2, <3>1, <3>2 DEF BrokerInv, AcceptedStays
  <2> QED
    BY <2>2 DEF AcceptedStays
<1> QED
  BY <1>10, <1>11, <1>12, <1>13, <1>14, <1>15, <1>16, <1>17, <1>18, <1>19 DEF BrokerInv

----------------------------------------------------------------------------
(* Every step *)

LEMMA NextKeeps ==
  ASSUME BrokerInv, [Next]_vars
  PROVE  BrokerInv'
<1>1. CASE UNCHANGED vars
  <2>1. UNCHANGED <<protocol, setup, broker, lock, slot, process, made, client, handler, via, seen,
                    answer, faults>>
    BY <1>1 DEF vars, service, owned, calls
  <2>2. BrokerTypeOK' /\ HandlersPlaced' /\ ProcessesNumbered' /\ LastIsAlive' /\ EndsKnown'
    BY <2>1 DEF BrokerInv, BrokerTypeOK, HandlersPlaced, ProcessesNumbered, LastIsAlive, EndsKnown
  <2>3. HandshakesLock' /\ TurnsHeld'
    BY <2>1 DEF BrokerInv, HandshakesLock, TurnsHeld, Object, Slot
  <2>4. PipesClean' /\ RuntimesApart' /\ AcceptedStays'
    BY <2>1, PipesStay DEF BrokerInv, RuntimesApart, AcceptedStays
  <2> QED
    BY <2>2, <2>3, <2>4 DEF BrokerInv
<1>2. ASSUME NEW c \in Calls,
             \/ EnsureServer(c) \/ GiveUp(c) \/ HandshakeDone(c) \/ HandshakeFails(c)
             \/ Acquire(c) \/ Write(c) \/ WriteFails(c) \/ Take(c) \/ ReadFails(c) \/ Cancelled(c)
             \/ Restart(c) \/ Resumed(c) \/ RestartFails(c)
      PROVE  BrokerInv'
  BY <1>2, EnsureServerKeeps, GiveUpKeeps, HandshakeDoneKeeps, HandshakeFailsKeeps, AcquireKeeps,
     WriteKeeps, WriteFailsKeeps, TakeKeeps, ReadFailsKeeps, CancelledKeeps, RestartKeeps,
     ResumedKeeps, RestartFailsKeeps
<1>3. ASSUME NEW c \in Calls, NEW b \in Brokers,
             Reuse(c, b) \/ RegisterStream(c, b) \/ RegisterRpc(c, b) \/ Prompt(c, b)
      PROVE  BrokerInv'
  BY <1>3, ReuseKeeps, RegisterStreamKeeps, RegisterRpcKeeps, PromptKeeps
<1>4. ASSUME NEW g \in Processes,
             Broadcast(g) \/ ReaderEnds(g) \/ EndTurn(g) \/ Crash(g) \/ Exit(g)
      PROVE  BrokerInv'
  BY <1>4, BroadcastKeeps, ReaderEndsKeeps, EndTurnKeeps, CrashKeeps
<1>5. ASSUME NEW s \in Slots, CutOff(s)
      PROVE  BrokerInv'
  BY <1>5, CutOffKeeps
<1>6. ASSUME NEW b \in Brokers, Stop(b) \/ CloseAll(b) \/ Vanish(b)
      PROVE  BrokerInv'
  BY <1>6, StopKeeps, CloseAllKeeps, VanishKeeps
<1> QED
  BY <1>1, <1>2, <1>3, <1>4, <1>5, <1>6 DEF Next

\* What a step does to a process, unless a prompt is written to it: it may end, or
\* start for a broker that is there, and its queue does not grow.
GoesOn(g) ==
  /\ \/ process'[g].alive => process[g].alive /\ process'[g].slot = process[g].slot
     \/ broker'[process'[g].slot[1]] # "GONE"
  /\ \/ process'[g].inbox \in {process[g].inbox, <<>>}
     \/ process[g].inbox # <<>> /\ process'[g].inbox = Tail(process[g].inbox)

LEMMA RegistersGoOn ==
  ASSUME BrokerInv, NEW c \in Calls, NEW b \in Brokers, RegisterStream(c, b) \/ RegisterRpc(c, b),
         NEW g \in Processes
  PROVE  GoesOn(g)
<1> DEFINE s == <<b, RuntimeOf[c]>>
<1>1. /\ s \in Slots /\ setup[c] \in Configs /\ s[1] = b
  BY CallsHaveRuntimes DEF Slots, BrokerInv, BrokerTypeOK
<1>2. broker'[b] = "UP"
  BY DEF RegisterStream, RegisterRpc, Listening, service
<1>3. PICK reg \in BOOLEAN :
        /\ StartProcess(s, setup[c])
        /\ slot' = [slot EXCEPT ![s] = [NoProcess EXCEPT !.registered = reg, !.config = setup[c],
                                                         !.current = made']]
  BY DEF RegisterStream, RegisterRpc
<1> HIDE DEF s
<1>4. /\ process'[made'] = Spawned(s, setup[c])
      /\ \A h \in Processes \ {made'} : process'[h] = process[h]
  BY <1>1, <1>3, Registers
<1>5. Spawned(s, setup[c]).slot = s /\ Spawned(s, setup[c]).inbox = <<>>
  BY <1>1, SpawnedFields
<1> QED
  BY <1>1, <1>2, <1>4, <1>5 DEF GoesOn

LEMMA ProcessesGoOn ==
  ASSUME BrokerInv, [Next]_vars, NEW g \in Processes
  PROVE  GoesOn(g) \/ \E c \in Calls : Write(c)
<1>1. process[g] \in ProcessRecord /\ process \in [Processes -> ProcessRecord]
  BY DEF BrokerInv, BrokerTypeOK
<1>2. ASSUME UNCHANGED process PROVE GoesOn(g)
  BY <1>2 DEF GoesOn
<1>3. ASSUME NEW h \in Processes, process' = Killed(h) PROVE GoesOn(g)
  <2>1. /\ process'[h].slot = process[h].slot /\ ~process'[h].alive /\ process'[h].inbox = <<>>
        /\ \A p \in Processes \ {h} : process'[p] = process[p]
    BY <1>3, KilledFields
  <2> QED
    BY <2>1 DEF GoesOn
<1>4. ASSUME NEW c \in Calls, handler[c] # "NONE", TurnLeft(c) PROVE GoesOn(g)
  <2>1. Object(c).current \in Processes
    BY <1>4, Places
  <2>2. CASE g = Object(c).current
    BY <1>4, <2>2 DEF GoesOn, TurnLeft
  <2>3. CASE g # Object(c).current
    BY <1>4, <2>3 DEF GoesOn, TurnLeft
  <2> QED
    BY <2>2, <2>3
<1>5. CASE UNCHANGED vars
  BY <1>2, <1>5 DEF vars, owned
<1>6. ASSUME NEW c \in Calls,
             \/ EnsureServer(c) \/ GiveUp(c) \/ HandshakeDone(c) \/ Acquire(c) \/ Resumed(c)
      PROVE  GoesOn(g)
  <2>1. UNCHANGED process
    BY <1>6 DEF EnsureServer, GiveUp, HandshakeDone, Acquire, Resumed, owned
  <2> QED
    BY <1>2, <2>1
<1>7. ASSUME NEW c \in Calls, HandshakeFails(c)
      PROVE  GoesOn(g)
  <2>1. process' = Killed(Object(c).current) /\ handler[c] = "HANDSHAKE"
    BY <1>7 DEF HandshakeFails
  <2>2. Object(c).current \in Processes
    BY <2>1, Places
  <2> QED
    BY <1>3, <2>1, <2>2
<1>8. ASSUME NEW c \in Calls, WriteFails(c) \/ Take(c) \/ ReadFails(c) \/ Cancelled(c) \/ RestartFails(c)
      PROVE  GoesOn(g)
  <2>1. handler[c] # "NONE"
    BY <1>8 DEF WriteFails, Take, ReadFails, Cancelled, RestartFails
  <2>2. TurnLeft(c)
    BY <1>8, WriteFailsKeeps, TakeKeeps, ReadFailsKeeps, CancelledKeeps, RestartFailsKeeps
  <2> QED
    BY <1>4, <2>1, <2>2
<1>9. ASSUME NEW c \in Calls, Restart(c)
      PROVE  GoesOn(g)
  <2>1. \/ /\ process'[g].alive = process[g].alive /\ process'[g].slot = process[g].slot
           /\ process'[g].inbox = process[g].inbox
        \/ /\ process'[g].slot = Slot(c) /\ broker'[via[c]] \in Present
           /\ process'[g].inbox = <<>> /\ process[g].inbox = <<>>
    BY <1>9, RestartKeeps
  <2>2. Slot(c)[1] = via[c]
    BY DEF Slot
  <2> QED
    BY <2>1, <2>2 DEF GoesOn, Present
<1>10. ASSUME NEW c \in Calls, NEW b \in Brokers, Reuse(c, b) \/ Prompt(c, b)
       PROVE  GoesOn(g)
  BY <1>2, <1>10 DEF Reuse, Prompt, owned
<1>11. ASSUME NEW h \in Processes, Broadcast(h) \/ ReaderEnds(h)
       PROVE  GoesOn(g)
  <2>1. /\ process'[g].alive = process[g].alive /\ process'[g].slot = process[g].slot
        /\ process'[g].inbox = process[g].inbox
    <3>1. process'[g] \in {process[g], [process[g] EXCEPT !.out = Tail(process[g].out)],
                           [process[g] EXCEPT !.ended = TRUE]}
      BY <1>1, <1>11 DEF Broadcast, ReaderEnds
    <3> QED
      BY <1>1, <3>1 DEF ProcessRecord
  <2> QED
    BY <2>1 DEF GoesOn
<1>12. ASSUME NEW h \in Processes, EndTurn(h)
       PROVE  GoesOn(g)
  BY <1>12, EndTurnKeeps DEF GoesOn
<1>13. ASSUME NEW h \in Processes, Crash(h) \/ Exit(h)
       PROVE  GoesOn(g)
  BY <1>3, <1>13 DEF Crash, Exit
<1>14. ASSUME NEW b \in Brokers, Stop(b)
       PROVE  GoesOn(g)
  BY <1>2, <1>14 DEF Stop, owned
<1>15. ASSUME NEW b \in Brokers, CloseAll(b)
       PROVE  GoesOn(g)
  <2>1. process'[g] \in {Killed(g)[g], process[g]}
    BY <1>15 DEF CloseAll
  <2>2. Killed(g)[g].inbox = <<>> /\ ~Killed(g)[g].alive
    BY <1>1 DEF Killed, ProcessRecord
  <2> QED
    BY <2>1, <2>2 DEF GoesOn
<1>16. ASSUME NEW b \in Brokers, Vanish(b)
       PROVE  GoesOn(g)
  <2>1. process'[g] \in {[process[g] EXCEPT !.stdin = FALSE, !.out = <<>>, !.ended = TRUE], process[g]}
    BY <1>16 DEF Vanish
  <2>2. /\ process'[g].alive = process[g].alive /\ process'[g].slot = process[g].slot
        /\ process'[g].inbox = process[g].inbox
    BY <1>1, <2>1 DEF ProcessRecord
  <2> QED
    BY <2>2 DEF GoesOn
<1>17. ASSUME NEW s \in Slots, CutOff(s)
       PROVE  GoesOn(g)
  BY <1>2, <1>17 DEF CutOff
<1> QED
  BY <1>5, <1>6, <1>7, <1>8, <1>9, <1>10, <1>11, <1>12, <1>13, <1>14, <1>15, <1>16, <1>17,
     RegistersGoOn DEF Next

\* The process a prompt is written to goes on, and so do the others.
LEMMA WriteGrows ==
  ASSUME BrokerInv, NEW c \in Calls, Write(c)
  PROVE  /\ Object(c).current \in Processes
         /\ \A g \in Processes : process'[g].alive = process[g].alive /\ process'[g].slot = process[g].slot
         /\ \A g \in Processes \ {Object(c).current} : process'[g].inbox = process[g].inbox
         /\ process'[Object(c).current].inbox = Append(process[Object(c).current].inbox, c)
<1>1. handler[c] = "SEND" /\ process' = [process EXCEPT ![Object(c).current].inbox = Append(@, c)]
  BY DEF Write
<1>2. process \in [Processes -> ProcessRecord] /\ Object(c).current \in Processes
  BY <1>1, Places DEF BrokerInv, BrokerTypeOK
<1> QED
  BY <1>1, <1>2 DEF ProcessRecord

\* Only the end of a turn gives an answer: the line that ended it.
LEMMA AnswersTaken ==
  ASSUME BrokerInv, [Next]_vars, ~UNCHANGED answer
  PROVE  \E c \in Calls :
           \/ answer' = [answer EXCEPT ![c] = None]
           \/ /\ handler[c] = "READ" /\ Pending(c) # <<>>
              /\ answer' = [answer EXCEPT ![c] = Head(Pending(c)).of]
<1>1. ASSUME NEW c \in Calls, WriteFails(c) \/ Take(c) \/ ReadFails(c) \/ Cancelled(c) \/ RestartFails(c)
      PROVE  \/ answer' = [answer EXCEPT ![c] = None]
             \/ /\ handler[c] = "READ" /\ Pending(c) # <<>>
                /\ answer' = [answer EXCEPT ![c] = Head(Pending(c)).of]
  <2>1. TurnLeft(c)
    BY <1>1, WriteFailsKeeps, TakeKeeps, ReadFailsKeeps, CancelledKeeps, RestartFailsKeeps
  <2> QED
    BY <2>1 DEF TurnLeft
<1>2. \A c \in Calls : ~(EnsureServer(c) \/ GiveUp(c) \/ HandshakeDone(c) \/ HandshakeFails(c)
                         \/ Acquire(c) \/ Write(c) \/ Restart(c) \/ Resumed(c))
  BY DEF EnsureServer, GiveUp, HandshakeDone, HandshakeFails, Acquire, Write, Restart, Resumed
<1>3. \A c \in Calls, b \in Brokers :
        ~(Reuse(c, b) \/ RegisterStream(c, b) \/ RegisterRpc(c, b) \/ Prompt(c, b))
  BY DEF Reuse, RegisterStream, RegisterRpc, Prompt
<1>4. \A g \in Processes : ~(Broadcast(g) \/ ReaderEnds(g) \/ EndTurn(g) \/ Crash(g) \/ Exit(g))
  BY DEF Broadcast, ReaderEnds, EndTurn, Crash, Exit, calls
<1>5. \A s \in Slots : ~CutOff(s)
  BY DEF CutOff, calls
<1>6. \A b \in Brokers : ~(Stop(b) \/ CloseAll(b) \/ Vanish(b))
  BY DEF Stop, CloseAll, Vanish, calls
<1>7. ~UNCHANGED vars
  BY DEF vars, calls
<1> QED
  BY <1>1, <1>2, <1>3, <1>4, <1>5, <1>6, <1>7 DEF Next

LEMMA ProtocolStays ==
  ASSUME [Next]_vars
  PROVE  protocol' = protocol
<1>1. \A c \in Calls : EnsureServer(c) \/ GiveUp(c) \/ HandshakeDone(c) \/ HandshakeFails(c) \/ Acquire(c)
        \/ Write(c) \/ WriteFails(c) \/ Take(c) \/ ReadFails(c) \/ Cancelled(c) \/ Restart(c)
        \/ Resumed(c) \/ RestartFails(c) => protocol' = protocol
  BY DEF EnsureServer, GiveUp, HandshakeDone, HandshakeFails, Acquire, Write, WriteFails, Take,
         ReadFails, Cancelled, Restart, Resumed, RestartFails, SendUnchanged, service
<1>2. \A c \in Calls, b \in Brokers : Reuse(c, b) \/ RegisterStream(c, b) \/ RegisterRpc(c, b) \/ Prompt(c, b)
        => protocol' = protocol
  BY DEF Reuse, RegisterStream, RegisterRpc, Prompt, service
<1>3. \A g \in Processes : Broadcast(g) \/ ReaderEnds(g) \/ EndTurn(g) \/ Crash(g) \/ Exit(g)
        => protocol' = protocol
  BY DEF Broadcast, ReaderEnds, EndTurn, Crash, Exit, service
<1>4. \A s \in Slots : CutOff(s) => protocol' = protocol
  BY DEF CutOff, service
<1>5. \A b \in Brokers : Stop(b) \/ CloseAll(b) \/ Vanish(b) => protocol' = protocol
  BY DEF Stop, CloseAll, Vanish
<1>6. UNCHANGED vars => protocol' = protocol
  BY DEF vars, service
<1> QED
  BY <1>1, <1>2, <1>3, <1>4, <1>5, <1>6 DEF Next

----------------------------------------------------------------------------
(* Theorems *)

LEMMA BrokerInvHolds == Spec => []BrokerInv
<1>1. Init => BrokerInv
  BY InitHolds
<1>2. BrokerInv /\ [Next]_vars => BrokerInv'
  BY NextKeeps
<1> QED
  BY <1>1, <1>2, PTL DEF Spec

\* The values of every variable of the brokers, their workers and processes.
THEOREM BrokerTypesHold == Spec => []BrokerTypeOK
<1>1. BrokerInv => BrokerTypeOK
  BY DEF BrokerInv
<1> QED
  BY <1>1, BrokerInvHolds, PTL

LEMMA AnswersStep ==
  ASSUME BrokerInv, AnswersBelong, [Next]_vars
  PROVE  AnswersBelong'
<1>1. protocol' = protocol
  BY ProtocolStays
<1>2. CASE UNCHANGED answer
  BY <1>1, <1>2 DEF AnswersBelong
<1>3. CASE ~UNCHANGED answer
  <2>1. PICK c \in Calls :
           \/ answer' = [answer EXCEPT ![c] = None]
           \/ /\ handler[c] = "READ" /\ Pending(c) # <<>>
              /\ answer' = [answer EXCEPT ![c] = Head(Pending(c)).of]
    BY <1>3, AnswersTaken
  <2>2. answer \in [Calls -> Calls \cup {None}]
    BY DEF BrokerInv, BrokerTypeOK
  <2>3. CASE answer' = [answer EXCEPT ![c] = None]
    BY <1>1, <2>2, <2>3 DEF AnswersBelong
  <2>4. CASE handler[c] = "READ" /\ Pending(c) # <<>> /\ answer' = [answer EXCEPT ![c] = Head(Pending(c)).of]
    <3>1. Pending(c) \in Seq(LinesOf(RuntimeOf[c])) /\ (protocol = "STREAM" => Head(Pending(c)).of = c)
      BY <2>4, LinesWaiting
    <3>2. Head(Pending(c)) \in LinesOf(RuntimeOf[c])
      BY <2>4, <3>1, QueueFacts
    <3>3. Head(Pending(c)).of \in Calls /\ RuntimeOf[Head(Pending(c)).of] = RuntimeOf[c]
      BY <3>2 DEF LinesOf, CallsOf
    <3> QED
      BY <1>1, <2>2, <2>4, <3>1, <3>3 DEF AnswersBelong
  <2> QED
    BY <2>1, <2>3, <2>4
<1> QED
  BY <1>2, <1>3

\* With Claude's broker a call is answered by its own turn, however many turns of the
\* runtime were cancelled, failed or started again before it; with Codex's by a
\* turn of its runtime.
THEOREM AnswersStayOwn == Spec => []AnswersBelong
<1>1. Init => AnswersBelong
  BY DEF Init, AnswersBelong
<1>2. BrokerInv /\ AnswersBelong /\ [Next]_vars => AnswersBelong'
  BY AnswersStep
<1> QED
  BY <1>1, <1>2, BrokerInvHolds, PTL DEF Spec

LEMMA OneProcessStep ==
  ASSUME BrokerInv, OneProcessDriven, [Next]_vars
  PROVE  OneProcessDriven'
<1> SUFFICES ASSUME NEW g \in Processes, NEW h \in Processes, process'[g].alive, process'[h].alive,
                    process'[g].slot = process'[h].slot
             PROVE  g = h
  BY DEF OneProcessDriven
<1>1. BrokerInv'
  BY NextKeeps
<1>2. CASE broker'[process'[g].slot[1]] # "GONE"
  BY <1>1, <1>2 DEF BrokerInv, LastIsAlive
<1>3. CASE broker'[process'[g].slot[1]] = "GONE"
  <2>1. ASSUME NEW p \in {g, h}
        PROVE  process[p].alive /\ process'[p].slot = process[p].slot
    <3>1. CASE \E c \in Calls : Write(c)
      BY <3>1, WriteGrows
    <3>2. CASE GoesOn(p)
      BY <1>3, <3>2 DEF GoesOn
    <3> QED
      BY <3>1, <3>2, ProcessesGoOn
  <2> QED
    BY <2>1 DEF OneProcessDriven
<1> QED
  BY <1>2, <1>3

\* A broker never has two living processes for the conversation of a runtime: a new
\* one is started only where the last is known to be gone, and also of a broker that
\* was killed at most one is left over.
THEOREM OneProcessIsDriven == Spec => []OneProcessDriven
<1>1. Init => OneProcessDriven
  BY DEF Init, OneProcessDriven, NotStarted
<1>2. BrokerInv /\ OneProcessDriven /\ [Next]_vars => OneProcessDriven'
  BY OneProcessStep
<1> QED
  BY <1>1, <1>2, BrokerInvHolds, PTL DEF Spec

LEMMA ConfigStep ==
  ASSUME BrokerInv, [Next]_vars, NEW c \in Calls, NEW g \in Processes,
         process'[g].inbox = Append(process[g].inbox, c), seen[c] = process[g].slot[1]
  PROVE  process[g].config = setup[c]
<1>1. process[g].inbox \in Seq(Calls)
  BY DEF BrokerInv, BrokerTypeOK, ProcessRecord
<1>2. /\ Append(process[g].inbox, c) # process[g].inbox /\ Append(process[g].inbox, c) # <<>>
      /\ process[g].inbox # <<>> => Append(process[g].inbox, c) # Tail(process[g].inbox)
      /\ \A y \in Calls : Append(process[g].inbox, c) = Append(process[g].inbox, y) => c = y
  BY <1>1, AppendGrows
<1>3. ~GoesOn(g)
  BY <1>2 DEF GoesOn
<1>4. PICK a \in Calls : Write(a)
  BY <1>3, ProcessesGoOn
<1>5. /\ Object(a).current \in Processes
      /\ \A h \in Processes \ {Object(a).current} : process'[h].inbox = process[h].inbox
      /\ process'[Object(a).current].inbox = Append(process[Object(a).current].inbox, a)
  BY <1>4, WriteGrows
<1>6. g = Object(a).current /\ a = c
  BY <1>2, <1>5
<1>7. /\ handler[c] # "NONE" /\ via[c] \in Brokers /\ broker[via[c]] \in Present
      /\ Slot(c) = <<via[c], RuntimeOf[c]>> /\ process[g].slot = Slot(c)
      /\ process[g].config = slot[Slot(c)].config
  BY <1>4, <1>6, Places DEF Write, Slot, Current
<1>8. seen[c] = via[c] /\ via[c] # 0
  BY <1>7 DEF Brokers
<1> QED
  BY <1>7, <1>8 DEF BrokerInv, AcceptedStays, Present

\* A prompt runs under the configuration that its worker registered with the broker,
\* as long as that broker lives, whoever else registered the runtime meanwhile.
THEOREM ConfigIsRegistered == Spec => RegisteredConfig
<1>1. BrokerInv /\ [Next]_vars =>
        [\A c \in Calls, g \in Processes :
           /\ process'[g].inbox = Append(process[g].inbox, c)
           /\ seen[c] = process[g].slot[1]
           => process[g].config = setup[c]]_vars
  BY ConfigStep
<1> QED
  BY <1>1, BrokerInvHolds, PTL DEF Spec, RegisteredConfig

----------------------------------------------------------------------------
(* Requests end: what a fair scheduler needs for it *)

\* The guards of Proceeds: what handler c may do by itself in this state.
CanGoOn(c) ==
  \/ handler[c] = "QUEUED" /\ Object(c).turn = None
  \/ handler[c] \in {"SEND", "RESTART"}
  \/ handler[c] = "READ" /\ (Pending(c) # <<>> \/ Closed(c) \/ GaveUp(c))
  \/ handler[c] \in {"HANDSHAKE", "RESUME"} /\ Unanswered(c)

\* c waits for the turn of d.
WaitsFor(c, d) == handler[c] = "QUEUED" /\ handler[d] \in TurnStates /\ Slot(c) = Slot(d)

\* A handler whose caller has gone goes on, or waits for one turn, and the handler
\* of that turn waits for nobody: not once its own caller has gone.  The same of
\* the registration that holds a broker's mutex.
NobodyIsStuck ==
  /\ \A c \in Calls : handler[c] # "NONE" /\ GaveUp(c) =>
       \/ CanGoOn(c)
       \/ \E d \in Calls : WaitsFor(c, d) /\ (GaveUp(d) => CanGoOn(d))
  /\ \A b \in Brokers : lock[b] # None =>
       handler[lock[b]] = "HANDSHAKE" /\ (GaveUp(lock[b]) => CanGoOn(lock[b]))

\* Steps a handler whose caller has gone is from its end.
Left(c) ==
  CASE handler[c] = "NONE" -> 0
    [] handler[c] \in {"HANDSHAKE", "READ"} -> 1
    [] handler[c] = "SEND" -> 2
    [] handler[c] = "RESUME" -> 3
    [] handler[c] = "RESTART" -> 4
    [] handler[c] = "QUEUED" -> 5

\* Nobody comes back, and a request whose caller has gone only comes closer to its
\* end, whatever the process, the broker and the other requests do.
AbandonedRequestsEnd ==
  [][\A c \in Calls : GaveUp(c) =>
       GaveUp(c)' /\ (handler'[c] = handler[c] \/ Left(c)' < Left(c))]_vars

LEMMA StuckNowhere ==
  ASSUME BrokerInv
  PROVE  NobodyIsStuck
<1>1. ASSUME NEW c \in Calls, handler[c] \in TurnStates \cup {"HANDSHAKE"}, GaveUp(c)
      PROVE  CanGoOn(c)
  BY <1>1 DEF CanGoOn, TurnStates, Unanswered
<1>2. ASSUME NEW c \in Calls, handler[c] = "QUEUED", Object(c).turn # None
      PROVE  \E d \in Calls : WaitsFor(c, d) /\ (GaveUp(d) => CanGoOn(d))
  <2>1. Slot(c) \in Slots /\ Object(c) = slot[Slot(c)]
    BY <1>2, Places
  <2>2. slot[Slot(c)].turn \in Calls /\ WaitsFor(c, slot[Slot(c)].turn)
    BY <1>2, <2>1, TurnHolder DEF WaitsFor
  <2> QED
    BY <1>1, <2>2 DEF WaitsFor
<1>3. ASSUME NEW c \in Calls, handler[c] # "NONE", GaveUp(c)
      PROVE  \/ CanGoOn(c)
             \/ \E d \in Calls : WaitsFor(c, d) /\ (GaveUp(d) => CanGoOn(d))
  <2>1. handler[c] \in TurnStates \cup {"HANDSHAKE", "QUEUED"}
    BY <1>3 DEF BrokerInv, BrokerTypeOK, TurnStates
  <2>2. handler[c] = "QUEUED" /\ Object(c).turn = None => CanGoOn(c)
    BY DEF CanGoOn
  <2> QED
    BY <1>1, <1>2, <1>3, <2>1, <2>2
<1>4. ASSUME NEW b \in Brokers, lock[b] # None
      PROVE  handler[lock[b]] = "HANDSHAKE" /\ (GaveUp(lock[b]) => CanGoOn(lock[b]))
  <2>1. lock[b] \in Calls /\ handler[lock[b]] = "HANDSHAKE"
    BY <1>4 DEF BrokerInv, BrokerTypeOK, HandshakesLock
  <2> QED
    BY <1>1, <2>1
<1> QED
  BY <1>3, <1>4 DEF NobodyIsStuck

\* Handlers of the brokers cannot wait for each other in a circle: turnMu and a
\* broker's mutex are held by handlers that need no lock to go on
\* (claudeserve/process.go, codexserve/process.go: Send; codexserve/server.go:91).
THEOREM HandlersNeverStuck == Spec => []NobodyIsStuck
<1>1. BrokerInv => NobodyIsStuck
  BY StuckNowhere
<1> QED
  BY <1>1, BrokerInvHolds, PTL

\* How the handler of a caller that has gone may move.
Comes(c) ==
  /\ client'[c] = "FAILED"
  /\ \/ handler'[c] \in {handler[c], "NONE"}
     \/ handler[c] \in {"QUEUED", "RESUME"} /\ handler'[c] = "SEND"
     \/ handler[c] = "SEND" /\ handler'[c] = "READ"
     \/ handler[c] = "RESTART" /\ handler'[c] \in {"SEND", "RESUME"}

LEMMA ComesCloser ==
  ASSUME BrokerInv, NEW c \in Calls, Comes(c)
  PROVE  GaveUp(c)' /\ (handler'[c] = handler[c] \/ Left(c)' < Left(c))
<1>1. handler[c] \in {"NONE", "HANDSHAKE", "QUEUED", "SEND", "READ", "RESTART", "RESUME"}
  BY DEF BrokerInv, BrokerTypeOK
<1>2. GaveUp(c)'
  BY DEF Comes, GaveUp
<1> QED
  BY <1>1, <1>2 DEF Comes, Left

\* A turn that ends for whatever reason ends the request of a caller that has gone.
LEMMA FailuresCome ==
  ASSUME BrokerInv, NEW a \in Calls, NEW c \in Calls, GaveUp(c), NEW object, NEW processes,
         AfterFailure(a, object, processes) \/ \E x : Finish(a, object, x)
  PROVE  Comes(c)
<1>1. client \in [Calls -> {"NEW", "REGISTER", "PROMPT", "WAITING", "DONE", "FAILED"}]
      /\ handler \in [Calls -> {"NONE", "HANDSHAKE", "QUEUED", "SEND", "READ", "RESTART", "RESUME"}]
  BY DEF BrokerInv, BrokerTypeOK
<1>2. ASSUME NEW o, NEW x, Finish(a, o, x)
      PROVE  Comes(c)
  BY <1>1, <1>2 DEF Finish, GaveUp, Comes
<1>3. CASE AfterFailure(a, object, processes)
  <2>1. CASE GaveUp(a)
    BY <1>2, <1>3, <2>1 DEF AfterFailure
  <2>2. CASE ~GaveUp(a) /\ object.dead /\ object.try = 1
    BY <1>1, <1>3, <2>2 DEF AfterFailure, GaveUp, Comes
  <2>3. CASE ~GaveUp(a) /\ ~(object.dead /\ object.try = 1)
    BY <1>2, <1>3, <2>3 DEF AfterFailure
  <2> QED
    BY <2>1, <2>2, <2>3
<1> QED
  BY <1>2, <1>3

LEMMA AbandonedComes ==
  ASSUME BrokerInv, [Next]_vars, NEW c \in Calls, GaveUp(c)
  PROVE  Comes(c)
<1>1. client \in [Calls -> {"NEW", "REGISTER", "PROMPT", "WAITING", "DONE", "FAILED"}]
      /\ handler \in [Calls -> {"NONE", "HANDSHAKE", "QUEUED", "SEND", "READ", "RESTART", "RESUME"}]
  BY DEF BrokerInv, BrokerTypeOK
<1>2. UNCHANGED calls => Comes(c)
  BY DEF calls, GaveUp, Comes
<1>3. ASSUME NEW a \in Calls, EnsureServer(a) \/ GiveUp(a)
      PROVE  Comes(c)
  BY <1>1, <1>3 DEF EnsureServer, GiveUp, GaveUp, Comes
<1>4. ASSUME NEW a \in Calls, NEW b \in Brokers,
             Reuse(a, b) \/ RegisterStream(a, b) \/ RegisterRpc(a, b) \/ Prompt(a, b)
      PROVE  Comes(c)
  <2>1. CASE Reuse(a, b)
    BY <1>1, <2>1 DEF Reuse, GaveUp, Comes
  <2>2. CASE RegisterStream(a, b)
    BY <1>1, <2>2 DEF RegisterStream, GaveUp, Comes
  <2>3. CASE RegisterRpc(a, b)
    BY <1>1, <2>3 DEF RegisterRpc, GaveUp, Comes
  <2>4. CASE Prompt(a, b)
    BY <1>1, <2>4 DEF Prompt, GaveUp, Comes
  <2> QED
    BY <1>4, <2>1, <2>2, <2>3, <2>4
<1>5. ASSUME NEW a \in Calls, HandshakeDone(a) \/ HandshakeFails(a)
      PROVE  Comes(c)
  BY <1>1, <1>5 DEF HandshakeDone, HandshakeFails, GaveUp, Comes
<1>6. ASSUME NEW a \in Calls, Acquire(a) \/ Write(a) \/ Restart(a) \/ Resumed(a)
      PROVE  Comes(c)
  BY <1>1, <1>6 DEF Acquire, Write, Restart, Resumed, GaveUp, Comes
<1>7. ASSUME NEW a \in Calls, WriteFails(a) \/ ReadFails(a) \/ Cancelled(a)
      PROVE  Comes(c)
  BY <1>7, FailuresCome DEF WriteFails, ReadFails, Cancelled
<1>8. ASSUME NEW a \in Calls, Take(a)
      PROVE  Comes(c)
  BY <1>8, FailuresCome DEF Take
<1>9. ASSUME NEW a \in Calls, RestartFails(a)
      PROVE  Comes(c)
  BY <1>9, FailuresCome DEF RestartFails
<1>10. ASSUME NEW g \in Processes, Broadcast(g) \/ ReaderEnds(g) \/ EndTurn(g) \/ Crash(g) \/ Exit(g)
       PROVE  UNCHANGED calls
  BY <1>10 DEF Broadcast, ReaderEnds, EndTurn, Crash, Exit
<1>11. ASSUME NEW s \in Slots, CutOff(s)
       PROVE  UNCHANGED calls
  BY <1>11 DEF CutOff
<1>12. ASSUME NEW b \in Brokers, Stop(b) \/ CloseAll(b)
       PROVE  UNCHANGED calls
  BY <1>12 DEF Stop, CloseAll
<1>13. ASSUME NEW b \in Brokers, Vanish(b)
       PROVE  Comes(c)
  BY <1>1, <1>13 DEF Vanish, GaveUp, Comes
<1>14. UNCHANGED vars => UNCHANGED calls
  BY DEF vars
<1> QED
  BY <1>2, <1>3, <1>4, <1>5, <1>6, <1>7, <1>8, <1>9, <1>10, <1>11, <1>12, <1>13, <1>14 DEF Next

\* Once its caller has gone a request takes at most five more steps of its handler, among
\* them one restart of the process, and nothing sends it back; with HandlersNeverStuck
\* this is all of RequestsEnd but the fairness of the scheduler and of timeouts
\* (claudeserve/process.go, codexserve/process.go: Send, sendOnce).
THEOREM RequestsOnlyEnd == Spec => AbandonedRequestsEnd
<1>1. BrokerInv /\ [Next]_vars =>
        [\A c \in Calls : GaveUp(c) =>
           GaveUp(c)' /\ (handler'[c] = handler[c] \/ Left(c)' < Left(c))]_vars
  BY AbandonedComes, ComesCloser
<1> QED
  BY <1>1, BrokerInvHolds, PTL DEF Spec, AbandonedRequestsEnd

============================================================================
