--------------------------- MODULE CommandLogProofs ---------------------------
(***************************************************************************)
(* Whatever is lost, late, retried or restarted, and however many daemons   *)
(* share a cache, CommandLog implements SignedLog and labels no stale state *)
(* authoritative.  The argument: the log and the cache only ever take the   *)
(* steps DataStep, a synchronisation knows how far it has copied, and a     *)
(* request knows the place its command has taken.                           *)
(***************************************************************************)
EXTENDS CommandLog, TLAPS

-----------------------------------------------------------------------------
(* The inductive invariant *)

Unique == \A i, j \in 1..Len(log) : log[i] = log[j] => i = j

Prefix == Len(cache) <= Len(log) /\ \A i \in 1..Len(cache) : cache[i] = log[i]

\* All that was committed when the flight began is in its pages.
Covered(f, d) == f.more \/ d \/ f.begun <= f.stop

\* What a flight has done, with l events in the log and n in the cache.
FlightGood(f, l, n, d) ==
  /\ f.begun <= l
  /\ f.phase = "READ" => f.at <= f.stop /\ f.stop <= l /\ f.at <= n /\ Covered(f, d)
  /\ f.phase = "NOTE" => f.at \in 1..l /\ f.stop <= l /\ f.stop <= n /\ ~f.more /\ Covered(f, d)
  /\ f.phase = "OVER" => ~f.ok \/ d \/ f.begun <= n

\* What a request of r knows, with the log s and n events in the cache.
RequestGood(r, q, s, n, d) ==
  /\ q.phase \in {"RELAY", "APPLY", "SYNC", "WAIT", "SYNCED"} => q.at \in Procs
  /\ q.phase = "RELAY" => r \in Commands
  /\ q.phase = "DONE" => q.at = None
  /\ r \in Commands /\ q.phase \in {"APPLY", "SYNC", "WAIT", "SYNCED", "DONE"} =>
       q.seq \in 1..Len(s) /\ s[q.seq] = r
  /\ r \in Reads /\ q.phase = "SYNCED" => ~q.ok \/ d \/ q.covers <= n
  /\ r \in Reads /\ q.phase = "DONE" => ~q.ok \/ d \/ q.covers <= q.seq

FlightsGood == \A p \in Procs : FlightGood(flight[p], Len(log), Len(cache), deleted)
RequestsGood == \A r \in Requests : RequestGood(r, req[r], log, Len(cache), deleted)

LogInv == LogTypeOK /\ Unique /\ Prefix /\ FlightsGood /\ RequestsGood

-----------------------------------------------------------------------------
(* The steps that the log and the cache can take *)

Appended == \E k \in Keys : ~Committed(k) /\ log' = Append(log, k)

Learnt == Len(cache) < Len(log) /\ cache' = Append(cache, log[Len(cache) + 1])

DataStep ==
  /\ \/ log' = log /\ cache' = cache
     \/ Appended /\ cache' = cache
     \/ log' = log /\ Learnt
  /\ deleted' \in BOOLEAN /\ (deleted => deleted')

Told(q) == IF q.phase = "DONE" THEN q.seq ELSE 0

\* New flights and requests hold what they should, or are those of before.
FlightsStep ==
  /\ flight' \in [Procs -> Flight]
  /\ \A p \in Procs :
        \/ flight'[p] = flight[p]
        \/ FlightGood(flight'[p], Len(log'), Len(cache'), deleted')

RequestsStep ==
  /\ req' \in [Requests -> Request]
  /\ \A r \in Requests :
        \/ req'[r] = req[r]
        \/ RequestGood(r, req'[r], log', Len(cache'), deleted')

NothingTold == \A c \in Commands : Told(req'[c]) = Told(req[c])

\* The one answer of a step in which nothing else is seen to happen.
AnswerTold(c) ==
  /\ req[c].phase = "SYNCED"
  /\ Told(req'[c]) = req[c].seq
  /\ \A k \in Commands \ {c} : req'[k] = req[k]
  /\ log' = log /\ cache' = cache

Rest ==
  /\ late' \subseteq Commands
  /\ proc' \in [Procs -> {"OFF", "STARTING", "CLEARING", "BINDING", "SERVING", "STOPPING"}]
  /\ endpoint' \in Procs \cup {None}
  /\ faults' \in 0..MaxFaults

Effect ==
  /\ DataStep /\ FlightsStep /\ RequestsStep /\ Rest
  /\ NothingTold \/ \E c \in Commands : AnswerTold(c)

-----------------------------------------------------------------------------
(* What a data step keeps *)

LEMMA DataTypes ==
  ASSUME LogInv, DataStep
  PROVE  /\ log' \in Seq(Keys) /\ cache' \in Seq(Keys) /\ deleted' \in BOOLEAN
         /\ Len(log) <= Len(log') /\ Len(cache) <= Len(cache')
         /\ \A i \in 1..Len(log) : log'[i] = log[i]
  <1> USE DEF LogInv, LogTypeOK
  <1>1. CASE log' = log /\ cache' = cache
    BY <1>1 DEF DataStep
  <1>2. CASE Appended /\ cache' = cache
    <2>1. PICK k \in Keys : log' = Append(log, k)
      BY <1>2 DEF Appended
    <2>2. Append(log, k) \in Seq(Keys) /\ Len(Append(log, k)) = Len(log) + 1
          /\ \A i \in 1..Len(log) : Append(log, k)[i] = log[i]
      OBVIOUS
    <2> QED
      BY <1>2, <2>1, <2>2 DEF DataStep
  <1>3. CASE log' = log /\ Learnt
    <2>1. log[Len(cache) + 1] \in Keys
      BY <1>3 DEF Learnt
    <2>2. /\ Append(cache, log[Len(cache) + 1]) \in Seq(Keys)
          /\ Len(Append(cache, log[Len(cache) + 1])) = Len(cache) + 1
      BY <2>1
    <2> QED
      BY <1>3, <2>2 DEF DataStep, Learnt
  <1> QED
    BY <1>1, <1>2, <1>3 DEF DataStep

\* No key twice, and the cache stays a copy of a prefix.
LEMMA DataKept ==
  ASSUME LogInv, DataStep
  PROVE  Unique' /\ Prefix'
  <1> USE DEF LogInv, LogTypeOK
  <1>1. CASE log' = log /\ cache' = cache
    BY <1>1 DEF Unique, Prefix
  <1>2. CASE Appended /\ cache' = cache
    <2>1. PICK k \in Keys : ~Committed(k) /\ log' = Append(log, k)
      BY <1>2 DEF Appended
    <2>2. /\ Len(log') = Len(log) + 1 /\ log'[Len(log) + 1] = k
          /\ \A i \in 1..Len(log) : log'[i] = log[i]
      BY <2>1
    <2>3. Unique'
      <3> SUFFICES ASSUME NEW i \in 1..Len(log'), NEW j \in 1..Len(log'), log'[i] = log'[j], i # j
                   PROVE  FALSE
        BY DEF Unique
      <3>1. Len(log) \in Nat
        OBVIOUS
      <3>2. CASE i \in 1..Len(log) /\ j \in 1..Len(log)
        BY <2>2, <3>2 DEF Unique
      <3>3. CASE i = Len(log) + 1 /\ j \in 1..Len(log)
        BY <2>1, <2>2, <3>3 DEF Committed
      <3>4. CASE j = Len(log) + 1 /\ i \in 1..Len(log)
        BY <2>1, <2>2, <3>4 DEF Committed
      <3> QED
        BY <2>2, <3>1, <3>2, <3>3, <3>4
    <2>4. Prefix'
      BY <1>2, <2>2 DEF Prefix
    <2> QED
      BY <2>3, <2>4
  <1>3. CASE log' = log /\ Learnt
    <2>1. log[Len(cache) + 1] \in Keys
      BY <1>3 DEF Learnt
    <2>2. /\ Len(cache') = Len(cache) + 1 /\ cache'[Len(cache) + 1] = log[Len(cache) + 1]
          /\ \A i \in 1..Len(cache) : cache'[i] = cache[i]
      BY <1>3, <2>1 DEF Learnt
    <2>3. Prefix'
      <3>1. Len(cache') <= Len(log')
        BY <1>3, <2>2 DEF Learnt
      <3>2. ASSUME NEW i \in 1..Len(cache') PROVE cache'[i] = log'[i]
        <4>1. i \in 1..Len(cache) \/ i = Len(cache) + 1
          BY <2>2
        <4> QED
          BY <1>3, <2>2, <4>1 DEF Prefix
      <3> QED
        BY <3>1, <3>2 DEF Prefix
    <2> QED
      BY <1>3, <2>3 DEF Unique
  <1> QED
    BY <1>1, <1>2, <1>3 DEF DataStep

\* What a flight or a request knows stays true while the data grow.
LEMMA FlightGoodKept ==
  ASSUME NEW f \in Flight, NEW l \in Nat, NEW n \in Nat, NEW d \in BOOLEAN,
         NEW l2 \in Nat, NEW n2 \in Nat, NEW d2 \in BOOLEAN,
         l <= l2, n <= n2, d => d2, FlightGood(f, l, n, d)
  PROVE  FlightGood(f, l2, n2, d2)
  BY DEF FlightGood, Covered, Flight

LEMMA RequestGoodKept ==
  ASSUME NEW r \in Requests, NEW q \in Request, NEW s \in Seq(Keys), NEW n \in Nat,
         NEW d \in BOOLEAN, NEW s2 \in Seq(Keys), NEW n2 \in Nat, NEW d2 \in BOOLEAN,
         Len(s) <= Len(s2), \A i \in 1..Len(s) : s2[i] = s[i], n <= n2, d => d2,
         RequestGood(r, q, s, n, d)
  PROVE  RequestGood(r, q, s2, n2, d2)
  BY DEF RequestGood, Request

LEMMA EffectKeepsInv ==
  ASSUME LogInv, Effect
  PROVE  LogInv'
  <1> USE DEF Effect
  <1>1. /\ log' \in Seq(Keys) /\ cache' \in Seq(Keys) /\ deleted' \in BOOLEAN
        /\ Len(log) <= Len(log') /\ Len(cache) <= Len(cache')
        /\ \A i \in 1..Len(log) : log'[i] = log[i]
    BY DataTypes
  <1>2. LogTypeOK'
    BY <1>1 DEF LogTypeOK, FlightsStep, RequestsStep, Rest
  <1>3. Unique' /\ Prefix'
    BY DataKept
  <1>4. /\ Len(log) \in Nat /\ Len(log') \in Nat /\ Len(cache) \in Nat /\ Len(cache') \in Nat
        /\ log \in Seq(Keys) /\ deleted \in BOOLEAN /\ (deleted => deleted')
        /\ flight \in [Procs -> Flight] /\ req \in [Requests -> Request]
    BY <1>1 DEF LogInv, LogTypeOK, DataStep
  <1>5. FlightsGood'
    <2> SUFFICES ASSUME NEW p \in Procs
                 PROVE  FlightGood(flight'[p], Len(log'), Len(cache'), deleted')
      BY DEF FlightsGood
    <2>1. CASE flight'[p] = flight[p]
      <3>1. FlightGood(flight[p], Len(log), Len(cache), deleted) /\ flight[p] \in Flight
        BY <1>4 DEF LogInv, FlightsGood
      <3> QED
        BY <1>1, <1>4, <2>1, <3>1, FlightGoodKept
    <2> QED
      BY <2>1 DEF FlightsStep
  <1>6. RequestsGood'
    <2> SUFFICES ASSUME NEW r \in Requests
                 PROVE  RequestGood(r, req'[r], log', Len(cache'), deleted')
      BY DEF RequestsGood
    <2>1. CASE req'[r] = req[r]
      <3>1. RequestGood(r, req[r], log, Len(cache), deleted) /\ req[r] \in Request
        BY <1>4 DEF LogInv, RequestsGood
      <3> QED
        BY <1>1, <1>4, <2>1, <3>1, RequestGoodKept
    <2> QED
      BY <2>1 DEF RequestsStep
  <1> QED
    BY <1>2, <1>3, <1>5, <1>6 DEF LogInv

-----------------------------------------------------------------------------
(* Steps that change one request or one flight *)

LEMMA OneRequest ==
  ASSUME LogInv, NEW r \in Requests, NEW q \in Request, req' = [req EXCEPT ![r] = q],
         RequestGood(r, q, log', Len(cache'), deleted'),
         r \in Commands => Told(q) = Told(req[r])
  PROVE  RequestsStep /\ NothingTold
  BY DEF LogInv, LogTypeOK, RequestsStep, NothingTold, Requests

LEMMA OneFlight ==
  ASSUME LogInv, NEW p \in Procs, NEW f \in Flight, flight' = [flight EXCEPT ![p] = f],
         FlightGood(f, Len(log'), Len(cache'), deleted')
  PROVE  FlightsStep
  BY DEF LogInv, LogTypeOK, FlightsStep

LEMMA FlightsSame ==
  ASSUME LogInv, flight' = flight
  PROVE  FlightsStep
  BY DEF LogInv, LogTypeOK, FlightsStep

LEMMA RequestsSame ==
  ASSUME LogInv, req' = req
  PROVE  RequestsStep /\ NothingTold
  BY DEF LogInv, LogTypeOK, RequestsStep, NothingTold, Requests

LEMMA RestSame ==
  ASSUME LogInv, late' \subseteq Commands, UNCHANGED <<proc, endpoint, faults>>
  PROVE  Rest
  BY DEF LogInv, LogTypeOK, Rest

LEMMA DataSame ==
  ASSUME LogInv, UNCHANGED <<log, cache, deleted>>
  PROVE  DataStep
  BY DEF LogInv, LogTypeOK, DataStep

\* A command that is executed, for the first time or again.
LEMMA Mutation ==
  ASSUME LogInv, NEW k \in Keys, Mutate(k), UNCHANGED <<cache, deleted>>
  PROVE  DataStep /\ log' \in Seq(Keys) /\ PlaceOf(k) \in 1..Len(log') /\ log'[PlaceOf(k)] = k
  <1> USE DEF LogInv, LogTypeOK
  <1>1. CASE Committed(k)
    <2>1. PlaceOf(k) \in 1..Len(log) /\ log[PlaceOf(k)] = k
      BY <1>1 DEF Committed, PlaceOf
    <2> QED
      BY <1>1, <2>1 DEF Mutate, DataStep
  <1>2. CASE ~Committed(k)
    <2>1. log' = Append(log, k) /\ PlaceOf(k) = Len(log) + 1
      BY <1>2 DEF Mutate, PlaceOf
    <2>2. Append(log, k) \in Seq(Keys) /\ Len(Append(log, k)) = Len(log) + 1
          /\ Append(log, k)[Len(log) + 1] = k
      OBVIOUS
    <2> QED
      BY <1>2, <2>1, <2>2 DEF DataStep, Appended
  <1> QED
    BY <1>1, <1>2

\* An event of the log that the cache takes, or has.
LEMMA Application ==
  ASSUME LogInv, NEW n \in 1..Len(log), Apply(n), UNCHANGED <<log, deleted>>
  PROVE  DataStep /\ n <= Len(cache') /\ Len(cache) <= Len(cache') /\ Len(cache') \in Nat
  <1> USE DEF LogInv, LogTypeOK
  <1>1. CASE n = Len(cache) + 1
    <2>1. log[n] \in Keys
      OBVIOUS
    <2>2. Len(Append(cache, log[n])) = Len(cache) + 1
      BY <2>1
    <2> QED
      BY <1>1, <2>2 DEF Apply, DataStep, Learnt
  <1>2. CASE n # Len(cache) + 1
    BY <1>2 DEF Apply, Applicable, DataStep
  <1> QED
    BY <1>1, <1>2

LEMMA RetriedIsIdle ==
  ASSUME LogInv, NEW r \in Requests
  PROVE  /\ Retried(req[r]) \in Request /\ Failed(req[r]) \in Request
         /\ \A s, n, d : RequestGood(r, Retried(req[r]), s, n, d)
         /\ \A s, n, d : RequestGood(r, Failed(req[r]), s, n, d)
         /\ Told(Retried(req[r])) = 0 /\ Told(Failed(req[r])) = 0
  <1>1. req[r] \in Request
    BY DEF LogInv, LogTypeOK
  <1> DEFINE tries == req[r].tries
  <1>2. tries \in 0..MaxTries /\ MaxTries \in Nat
    BY <1>1, LogAssumption DEF Request
  <1>3. Asleep \in Request
    BY <1>2 DEF Asleep, Request
  <1>4. Failed(req[r]) \in Request /\ Failed(req[r]).phase = "FAILED"
    BY <1>2, <1>3 DEF Failed, Request
  <1>5. CASE tries + 1 < MaxTries
    <2> DEFINE q == [Asleep EXCEPT !.phase = "LOCATE", !.tries = tries + 1]
    <2>1. tries + 1 \in 0..MaxTries
      BY <1>2, <1>5
    <2>2. q \in Request /\ q.phase = "LOCATE"
      BY <1>3, <2>1 DEF Request
    <2>3. Retried(req[r]) = q
      BY <1>5 DEF Retried
    <2> QED
      BY <1>4, <2>2, <2>3 DEF RequestGood, Told
  <1>6. CASE ~(tries + 1 < MaxTries)
    <2>1. Retried(req[r]) = Failed(req[r])
      BY <1>6 DEF Retried
    <2> QED
      BY <1>4, <2>1 DEF RequestGood, Told
  <1> QED
    BY <1>5, <1>6

-----------------------------------------------------------------------------
(* Clients and handlers *)

LEMMA Facts ==
  ASSUME LogInv
  PROVE  /\ \A r \in Requests : /\ req[r] \in Request
                                /\ RequestGood(r, req[r], log, Len(cache), deleted)
         /\ \A p \in Procs : /\ flight[p] \in Flight
                             /\ FlightGood(flight[p], Len(log), Len(cache), deleted)
         /\ log \in Seq(Keys) /\ cache \in Seq(Keys) /\ deleted \in BOOLEAN
         /\ Len(log) \in Nat /\ Len(cache) \in Nat /\ Len(cache) <= Len(log)
         /\ late \subseteq Commands /\ endpoint \in Procs \cup {None}
  BY DEF LogInv, LogTypeOK, RequestsGood, FlightsGood, Prefix

LEMMA SubmitEffect ==
  ASSUME LogInv, NEW r \in Requests, Submit(r)
  PROVE  Effect
  <1> DEFINE q == [req[r] EXCEPT !.phase = "LOCATE"]
  <1>1. q \in Request /\ q.phase = "LOCATE" /\ Told(q) = Told(req[r])
    BY Facts DEF Request, Submit, Told
  <1>2. req' = [req EXCEPT ![r] = q]
    BY DEF Submit
  <1> HIDE DEF q
  <1>3. RequestGood(r, q, log', Len(cache'), deleted')
    BY <1>1 DEF RequestGood
  <1>4. RequestsStep /\ NothingTold
    BY <1>1, <1>2, <1>3, OneRequest
  <1> QED
    BY <1>4, FlightsSame, RestSame, DataSame, Facts DEF Submit, Effect

LEMMA CallEffect ==
  ASSUME LogInv, NEW r \in Requests, Call(r)
  PROVE  Effect
  <1> DEFINE q == [req[r] EXCEPT !.phase = IF r \in Commands THEN "RELAY" ELSE "SYNC", !.at = endpoint]
  <1>1. endpoint \in Procs
    BY Facts DEF Call, Reachable
  <1>2. /\ q \in Request /\ q.phase = (IF r \in Commands THEN "RELAY" ELSE "SYNC")
        /\ q.at = endpoint /\ Told(q) = Told(req[r])
    BY <1>1, Facts DEF Request, Call, Told
  <1>3. req' = [req EXCEPT ![r] = q]
    BY DEF Call
  <1> HIDE DEF q
  <1>4. RequestGood(r, q, log', Len(cache'), deleted')
    BY <1>1, <1>2, LogAssumption DEF RequestGood, Requests
  <1>5. RequestsStep /\ NothingTold
    BY <1>2, <1>3, <1>4, OneRequest
  <1> QED
    BY <1>5, FlightsSame, RestSame, DataSame, Facts DEF Call, Effect

LEMMA LaunchEffect ==
  ASSUME LogInv, NEW r \in Requests, Launch(r)
  PROVE  Effect
  <1> DEFINE q == [req[r] EXCEPT !.phase = "AWAIT"]
  <1>1. q \in Request /\ q.phase = "AWAIT" /\ Told(q) = Told(req[r])
    BY Facts DEF Request, Launch, Told
  <1>2. req' = [req EXCEPT ![r] = q]
    BY DEF Launch
  <1> HIDE DEF q
  <1>3. RequestGood(r, q, log', Len(cache'), deleted')
    BY <1>1 DEF RequestGood
  <1>4. RequestsStep /\ NothingTold
    BY <1>1, <1>2, <1>3, OneRequest
  <1>5. Rest
    BY DEF Launch, Rest, LogInv, LogTypeOK
  <1> QED
    BY <1>4, <1>5, FlightsSame, DataSame DEF Launch, Effect

\* A request that fails or is tried again asserts nothing.
LEMMA SetBack ==
  ASSUME LogInv, NEW r \in Requests, NEW q, q = Retried(req[r]) \/ q = Failed(req[r]),
         req' = [req EXCEPT ![r] = q], req[r].phase # "DONE"
  PROVE  RequestsStep /\ NothingTold
  <1>1. q \in Request /\ RequestGood(r, q, log', Len(cache'), deleted') /\ Told(q) = 0
    BY RetriedIsIdle
  <1> QED
    BY <1>1, OneRequest DEF Told

LEMMA GiveUpEffect ==
  ASSUME LogInv, NEW r \in Requests, GiveUp(r)
  PROVE  Effect
  <1>1. RequestsStep /\ NothingTold
    BY SetBack DEF GiveUp, Open
  <1>2. late' \subseteq Commands
    <2>1. req[r].phase = "RELAY" => r \in Commands
      BY Facts DEF RequestGood
    <2> QED
      BY <2>1, Facts DEF GiveUp
  <1> QED
    BY <1>1, <1>2, FlightsSame, RestSame, DataSame DEF GiveUp, Effect

LEMMA RelayEffect ==
  ASSUME LogInv, NEW c \in Commands, Relay(c)
  PROVE  Effect
  <1> DEFINE q == [req[c] EXCEPT !.phase = "APPLY", !.seq = PlaceOf(c)]
  <1>1. c \in Keys /\ c \in Requests /\ c \notin Reads
    BY LogAssumption DEF Keys, Requests
  <1>2. DataStep /\ log' \in Seq(Keys) /\ PlaceOf(c) \in 1..Len(log') /\ log'[PlaceOf(c)] = c
    BY <1>1, Mutation DEF Relay
  <1>n. PlaceOf(c) \in Nat /\ req[c] \in Request
    BY <1>1, <1>2, Facts
  <1>3. q \in Request /\ q.phase = "APPLY" /\ q.seq = PlaceOf(c) /\ q.at = req[c].at
    BY <1>n DEF Request
  <1>4. req' = [req EXCEPT ![c] = q]
    BY DEF Relay
  <1> HIDE DEF q
  <1>5. RequestGood(c, q, log', Len(cache'), deleted')
    BY <1>1, <1>2, <1>3, Facts DEF RequestGood, Relay
  <1>6. Told(q) = Told(req[c])
    BY <1>3 DEF Told, Relay
  <1>7. RequestsStep /\ NothingTold
    BY <1>1, <1>3, <1>4, <1>5, <1>6, OneRequest
  <1> QED
    BY <1>2, <1>7, FlightsSame, RestSame, Facts DEF Relay, Effect

LEMMA RefusedEffect ==
  ASSUME LogInv, NEW c \in Commands, Refused(c)
  PROVE  Effect
  <1>1. RequestsStep /\ NothingTold
    BY SetBack DEF Refused, Requests
  <1> QED
    BY <1>1, FlightsSame, RestSame, DataSame, Facts DEF Refused, Effect

LEMMA UnansweredEffect ==
  ASSUME LogInv, NEW c \in Commands, Unanswered(c)
  PROVE  Effect
  <1>1. RequestsStep /\ NothingTold
    BY SetBack DEF Unanswered, Retry, Requests
  <1>2. late' \subseteq Commands
    BY Facts DEF Unanswered
  <1>3. DataStep
    BY Mutation, DataSame DEF Unanswered, Keys
  <1> QED
    BY <1>1, <1>2, <1>3, FlightsSame, RestSame DEF Unanswered, Effect

LEMMA ApplyAnswerEffect ==
  ASSUME LogInv, NEW c \in Commands, ApplyAnswer(c)
  PROVE  Effect
  <1>1. c \in Requests /\ c \notin Reads
    BY LogAssumption DEF Requests
  <1>2. /\ req[c].seq \in 1..Len(log) /\ log[req[c].seq] = c
        /\ req[c].at \in Procs /\ req[c] \in Request /\ log' = log
    BY <1>1, Facts DEF ApplyAnswer, RequestGood
  <1>3. CASE Apply(req[c].seq) /\ req' = [req EXCEPT ![c].phase = "SYNCED", ![c].ok = TRUE]
    <2> DEFINE q == [req[c] EXCEPT !.phase = "SYNCED", !.ok = TRUE]
    <2>1. q \in Request /\ q.phase = "SYNCED" /\ q.seq = req[c].seq /\ q.at = req[c].at
      BY <1>2 DEF Request
    <2>2. req' = [req EXCEPT ![c] = q]
      BY <1>3
    <2> HIDE DEF q
    <2>3. RequestGood(c, q, log', Len(cache'), deleted')
      BY <1>1, <1>2, <2>1 DEF RequestGood
    <2>4. Told(q) = Told(req[c])
      BY <2>1 DEF Told, ApplyAnswer
    <2>5. RequestsStep /\ NothingTold
      BY <1>1, <2>1, <2>2, <2>3, <2>4, OneRequest
    <2>6. DataStep
      BY <1>2, <1>3, Application DEF ApplyAnswer
    <2> QED
      BY <2>5, <2>6, FlightsSame, RestSame, Facts DEF ApplyAnswer, Effect
  <1>4. CASE req' = [req EXCEPT ![c].phase = "SYNC"] /\ cache' = cache
    <2> DEFINE q == [req[c] EXCEPT !.phase = "SYNC"]
    <2>1. q \in Request /\ q.phase = "SYNC" /\ q.seq = req[c].seq /\ q.at = req[c].at
      BY <1>2 DEF Request
    <2>2. req' = [req EXCEPT ![c] = q]
      BY <1>4
    <2> HIDE DEF q
    <2>3. RequestGood(c, q, log', Len(cache'), deleted')
      BY <1>1, <1>2, <2>1 DEF RequestGood
    <2>4. Told(q) = Told(req[c])
      BY <2>1 DEF Told, ApplyAnswer
    <2>5. RequestsStep /\ NothingTold
      BY <1>1, <2>1, <2>2, <2>3, <2>4, OneRequest
    <2> QED
      BY <1>4, <2>5, DataSame, FlightsSame, RestSame, Facts DEF ApplyAnswer, Effect
  <1> QED
    BY <1>3, <1>4 DEF ApplyAnswer

-----------------------------------------------------------------------------
(* Synchronisation and answers *)

LEMMA NewFlightGood ==
  ASSUME LogInv
  PROVE  NewFlight \in Flight /\ FlightGood(NewFlight, Len(log), Len(cache), deleted)
  <1>1. NoFlight \in Flight
    BY DEF NoFlight, Flight
  <1>2. /\ NewFlight \in Flight
        /\ NewFlight.phase = "READ" /\ NewFlight.at = Len(cache) /\ NewFlight.stop = Len(cache)
        /\ NewFlight.more = TRUE /\ NewFlight.begun = Len(log)
    BY <1>1, Facts DEF NewFlight, Flight
  <1> QED
    BY <1>2, Facts DEF FlightGood, Covered

\* Whoever is on its way to a result keeps what its request knows.
LEMMA WaiterGood ==
  ASSUME LogInv, NEW r \in Requests, req[r].phase \in {"SYNC", "WAIT"}, NEW p \in Procs,
         req[r].at = p, NEW ok \in BOOLEAN, NEW n \in Nat, ~ok \/ deleted \/ n <= Len(cache),
         NEW q \in Request, q.phase = "SYNCED", q.ok = ok, q.covers = n, q.at = p, q.seq = req[r].seq
  PROVE  RequestGood(r, q, log, Len(cache), deleted) /\ Told(q) = Told(req[r])
  <1>1. RequestGood(r, req[r], log, Len(cache), deleted)
    BY Facts
  <1> QED
    BY <1>1 DEF RequestGood, Told

LEMMA JoinSyncEffect ==
  ASSUME LogInv, NEW r \in Requests, JoinSync(r)
  PROVE  Effect
  <1> DEFINE p == req[r].at
  <1>1. p \in Procs /\ req[r] \in Request /\ req[r].phase = "SYNC"
    BY Facts DEF JoinSync, RequestGood
  <1>2. DataStep /\ Rest
    BY DataSame, RestSame, Facts DEF JoinSync
  <1>3. ASSUME req' = [req EXCEPT ![r].phase = "WAIT"] PROVE RequestsStep /\ NothingTold
    <2> DEFINE q == [req[r] EXCEPT !.phase = "WAIT"]
    <2>1. q \in Request /\ q.phase = "WAIT" /\ q.seq = req[r].seq /\ q.at = req[r].at
      BY <1>1 DEF Request
    <2>2. req' = [req EXCEPT ![r] = q]
      BY <1>3
    <2> HIDE DEF q
    <2>3. RequestGood(r, q, log', Len(cache'), deleted')
      BY <1>1, <2>1, Facts DEF RequestGood, JoinSync
    <2>4. Told(q) = Told(req[r])
      BY <1>1, <2>1 DEF Told
    <2> QED
      BY <2>1, <2>2, <2>3, <2>4, OneRequest
  <1>4. CASE flight' = [flight EXCEPT ![p] = NewFlight] /\ req' = [req EXCEPT ![r].phase = "WAIT"]
    <2>1. NewFlight \in Flight /\ FlightGood(NewFlight, Len(log'), Len(cache'), deleted')
      BY NewFlightGood DEF JoinSync
    <2>2. FlightsStep
      BY <1>1, <1>4, <2>1, OneFlight
    <2> QED
      BY <1>2, <1>3, <1>4, <2>2 DEF Effect
  <1>5. CASE flight' = flight /\ req' = [req EXCEPT ![r].phase = "WAIT"]
    BY <1>2, <1>3, <1>5, FlightsSame DEF Effect
  <1>6. CASE /\ flight[p].phase = "OVER" /\ flight' = flight
             /\ req' = [req EXCEPT ![r].phase = "SYNCED", ![r].ok = flight[p].ok,
                                   ![r].covers = flight[p].begun]
    <2> DEFINE q == [req[r] EXCEPT !.phase = "SYNCED", !.ok = flight[p].ok, !.covers = flight[p].begun]
    <2>1. /\ flight[p].ok \in BOOLEAN /\ flight[p].begun \in Nat
          /\ ~flight[p].ok \/ deleted \/ flight[p].begun <= Len(cache)
      <3>1. flight[p] \in Flight /\ FlightGood(flight[p], Len(log), Len(cache), deleted)
        BY <1>1, Facts
      <3> QED
        BY <1>6, <3>1 DEF Flight, FlightGood
    <2>2. /\ q \in Request /\ q.phase = "SYNCED" /\ q.seq = req[r].seq /\ q.at = req[r].at
          /\ q.ok = flight[p].ok /\ q.covers = flight[p].begun
      BY <1>1, <2>1 DEF Request
    <2>3. req' = [req EXCEPT ![r] = q]
      BY <1>6
    <2> HIDE DEF q
    <2>4. RequestGood(r, q, log, Len(cache), deleted) /\ Told(q) = Told(req[r])
      BY <1>1, <2>1, <2>2, WaiterGood
    <2>5. RequestGood(r, q, log', Len(cache'), deleted')
      BY <2>4 DEF JoinSync
    <2>6. RequestsStep /\ NothingTold
      BY <2>2, <2>3, <2>4, <2>5, OneRequest
    <2> QED
      BY <1>2, <1>6, <2>6, FlightsSame DEF Effect
  <1> QED
    BY <1>4, <1>5, <1>6 DEF JoinSync

LEMMA TimeOutEffect ==
  ASSUME LogInv, NEW r \in Requests, TimeOut(r)
  PROVE  Effect
  <1> DEFINE q == [req[r] EXCEPT !.phase = "SYNCED", !.ok = FALSE]
  <1>1. req[r] \in Request /\ RequestGood(r, req[r], log, Len(cache), deleted)
    BY Facts
  <1>2. q \in Request /\ q.phase = "SYNCED" /\ ~q.ok /\ q.seq = req[r].seq /\ q.at = req[r].at
    BY <1>1 DEF Request
  <1>3. req' = [req EXCEPT ![r] = q]
    BY DEF TimeOut
  <1> HIDE DEF q
  <1>4. RequestGood(r, q, log', Len(cache'), deleted') /\ Told(q) = Told(req[r])
    BY <1>1, <1>2 DEF TimeOut, RequestGood, Told
  <1>5. RequestsStep /\ NothingTold
    BY <1>2, <1>3, <1>4, OneRequest
  <1> QED
    BY <1>5, DataSame, FlightsSame, RestSame, Facts DEF TimeOut, Effect

LEMMA FinishCommandEffect ==
  ASSUME LogInv, NEW c \in Commands, FinishCommand(c)
  PROVE  Effect
  <1>1. c \in Requests /\ c \notin Reads
    BY LogAssumption DEF Requests
  <1>2. req[c] \in Request /\ RequestGood(c, req[c], log, Len(cache), deleted)
    BY <1>1, Facts
  <1>3. CASE req[c].ok
    <2> DEFINE q == [req[c] EXCEPT !.phase = "DONE", !.at = None]
    <2>1. q \in Request /\ q.phase = "DONE" /\ q.seq = req[c].seq /\ q.at = None
      BY <1>2 DEF Request
    <2>2. req' = [req EXCEPT ![c] = q]
      BY <1>3 DEF FinishCommand
    <2> HIDE DEF q
    <2>3. RequestGood(c, q, log', Len(cache'), deleted')
      BY <1>1, <1>2, <2>1 DEF RequestGood, FinishCommand
    <2>4. RequestsStep
      BY <1>1, <2>1, <2>2, <2>3 DEF RequestsStep, LogInv, LogTypeOK
    <2>5. AnswerTold(c)
      <3>1. req'[c] = q /\ \A k \in Commands \ {c} : req'[k] = req[k]
        BY <1>1, <2>2 DEF LogInv, LogTypeOK, Requests
      <3> QED
        BY <2>1, <3>1 DEF AnswerTold, FinishCommand, Told
    <2> QED
      BY <2>4, <2>5, DataSame, FlightsSame, RestSame, Facts DEF FinishCommand, Effect
  <1>4. CASE ~req[c].ok
    <2>1. RequestsStep /\ NothingTold
      BY <1>1, <1>4, SetBack DEF FinishCommand, Retry
    <2> QED
      BY <2>1, DataSame, FlightsSame, RestSame, Facts DEF FinishCommand, Effect
  <1> QED
    BY <1>3, <1>4

LEMMA FinishReadEffect ==
  ASSUME LogInv, NEW r \in Reads, FinishRead(r)
  PROVE  Effect
  <1>1. r \in Requests /\ r \notin Commands
    BY LogAssumption DEF Requests
  <1>2. req[r] \in Request /\ RequestGood(r, req[r], log, Len(cache), deleted) /\ Len(cache) \in Nat
    BY <1>1, Facts
  <1>3. CASE cache # <<>>
    <2> DEFINE q == [req[r] EXCEPT !.phase = "DONE", !.at = None, !.seq = Len(cache)]
    <2>1. /\ q \in Request /\ q.phase = "DONE" /\ q.seq = Len(cache) /\ q.at = None
          /\ q.ok = req[r].ok /\ q.covers = req[r].covers
      BY <1>2 DEF Request
    <2>2. req' = [req EXCEPT ![r] = q]
      BY <1>3 DEF FinishRead
    <2> HIDE DEF q
    <2>3. RequestGood(r, q, log', Len(cache'), deleted')
      BY <1>1, <1>2, <2>1 DEF RequestGood, FinishRead
    <2>4. RequestsStep /\ NothingTold
      BY <1>1, <2>1, <2>2, <2>3, OneRequest
    <2> QED
      BY <2>4, DataSame, FlightsSame, RestSame, Facts DEF FinishRead, Effect
  <1>4. CASE cache = <<>>
    <2>1. RequestsStep /\ NothingTold
      BY <1>1, <1>4, SetBack DEF FinishRead, Retry
    <2> QED
      BY <2>1, DataSame, FlightsSame, RestSame, Facts DEF FinishRead, Effect
  <1> QED
    BY <1>3, <1>4

-----------------------------------------------------------------------------
(* The authority and the flights *)

LEMMA AuthorityEffect ==
  ASSUME LogInv, ForeignCommit \/ LateArrival \/ DeleteProject
  PROVE  Effect
  <1>1. DataStep
    <2>1. CASE ForeignCommit
      BY <2>1, Mutation DEF ForeignCommit, Keys
    <2>2. CASE LateArrival
      BY <2>2, Mutation, DataSame, Facts DEF LateArrival, Keys
    <2>3. CASE DeleteProject
      BY <2>3, Facts DEF DeleteProject, DataStep
    <2> QED
      BY <2>1, <2>2, <2>3
  <1>2. late' \subseteq Commands
    BY Facts DEF ForeignCommit, LateArrival, DeleteProject
  <1>3. UNCHANGED <<proc, endpoint, flight, req, faults>>
    BY DEF ForeignCommit, LateArrival, DeleteProject
  <1> QED
    BY <1>1, <1>2, <1>3, FlightsSame, RequestsSame, RestSame DEF Effect

LEMMA CoordinateEffect ==
  ASSUME LogInv, NEW p \in Procs, Coordinate(p)
  PROVE  Effect
  <1>1. NewFlight \in Flight /\ FlightGood(NewFlight, Len(log'), Len(cache'), deleted')
    BY NewFlightGood DEF Coordinate
  <1>2. FlightsStep
    BY <1>1, OneFlight DEF Coordinate
  <1> QED
    BY <1>2, DataSame, RequestsSame, RestSame, Facts DEF Coordinate, Effect

LEMMA FetchPageEffect ==
  ASSUME LogInv, NEW p \in Procs, FetchPage(p)
  PROVE  Effect
  <1> DEFINE f == [flight[p] EXCEPT !.stop = PageEnd(flight[p].at),
                                    !.more = ~deleted /\ PageEnd(flight[p].at) < Len(log)]
  <1>1. flight[p] \in Flight /\ FlightGood(flight[p], Len(log), Len(cache), deleted)
    BY Facts
  <1>2. /\ flight[p].phase = "READ" /\ flight[p].at \in Nat /\ flight[p].at <= Len(log)
        /\ flight[p].at <= Len(cache) /\ flight[p].begun \in Nat /\ flight[p].begun <= Len(log)
    BY <1>1, Facts DEF FetchPage, FlightGood, Flight
  <1>3. /\ PageEnd(flight[p].at) \in Nat /\ flight[p].at <= PageEnd(flight[p].at)
        /\ PageEnd(flight[p].at) <= Len(log)
    BY <1>2, LogAssumption, Facts DEF PageEnd
  <1>n. (~deleted /\ PageEnd(flight[p].at) < Len(log)) \in BOOLEAN
    OBVIOUS
  <1>4. /\ f \in Flight /\ f.phase = "READ" /\ f.at = flight[p].at /\ f.begun = flight[p].begun
        /\ f.stop = PageEnd(flight[p].at)
        /\ f.more = (~deleted /\ PageEnd(flight[p].at) < Len(log))
    BY <1>1, <1>2, <1>3, <1>n DEF Flight
  <1>5. flight' = [flight EXCEPT ![p] = f]
    BY DEF FetchPage
  <1> HIDE DEF f
  <1>6. FlightGood(f, Len(log), Len(cache), deleted)
    <2>1. CASE ~deleted /\ PageEnd(flight[p].at) < Len(log)
      BY <1>2, <1>3, <1>4, <2>1 DEF FlightGood, Covered
    <2>2. CASE deleted
      BY <1>2, <1>3, <1>4, <2>2 DEF FlightGood, Covered
    <2>3. CASE ~(PageEnd(flight[p].at) < Len(log))
      <3>1. flight[p].begun <= PageEnd(flight[p].at)
        BY <1>2, <1>3, <2>3, Facts
      <3> QED
        BY <1>2, <1>3, <1>4, <3>1 DEF FlightGood, Covered
    <2> QED
      BY <2>1, <2>2, <2>3
  <1>7. FlightsStep
    BY <1>4, <1>5, <1>6, OneFlight DEF FetchPage
  <1> QED
    BY <1>7, DataSame, RequestsSame, RestSame, Facts DEF FetchPage, Effect

LEMMA ApplyPageEffect ==
  ASSUME LogInv, NEW p \in Procs, ApplyPage(p)
  PROVE  Effect
  <1> DEFINE f == [flight[p] EXCEPT !.at = flight[p].at + 1]
  <1>1. flight[p] \in Flight /\ FlightGood(flight[p], Len(log), Len(cache), deleted)
    BY Facts
  <1>2. /\ flight[p].phase = "READ" /\ flight[p].at \in Nat /\ flight[p].stop \in Nat
        /\ flight[p].at + 1 <= flight[p].stop /\ flight[p].stop <= Len(log)
    BY <1>1 DEF ApplyPage, FlightGood, Flight
  <1>3. DataStep /\ flight[p].at + 1 <= Len(cache')
    BY <1>2, Application, Facts DEF ApplyPage
  <1>4. /\ f \in Flight /\ f.phase = "READ" /\ f.at = flight[p].at + 1 /\ f.stop = flight[p].stop
        /\ f.begun = flight[p].begun /\ f.more = flight[p].more
    BY <1>1, <1>2 DEF Flight
  <1>5. flight' = [flight EXCEPT ![p] = f]
    BY DEF ApplyPage
  <1> HIDE DEF f
  <1>6. FlightGood(f, Len(log'), Len(cache'), deleted')
    BY <1>1, <1>2, <1>3, <1>4 DEF FlightGood, Covered, ApplyPage
  <1>7. FlightsStep
    BY <1>4, <1>5, <1>6, OneFlight
  <1> QED
    BY <1>3, <1>7, RequestsSame, RestSame, Facts DEF ApplyPage, Effect

LEMMA DispatchCommandEffect ==
  ASSUME LogInv, NEW p \in Procs, DispatchCommand(p)
  PROVE  Effect
  <1> DEFINE f == [flight[p] EXCEPT !.phase = "NOTE", !.at = Len(log) + 1]
  <1>1. flight[p] \in Flight /\ FlightGood(flight[p], Len(log), Len(cache), deleted)
    BY Facts
  <1>2. PICK k \in Foreign : ~Committed(k) /\ Mutate(k)
    BY DEF DispatchCommand
  <1>3. DataStep /\ Len(log') = Len(log) + 1
    <2>1. k \in Keys
      BY DEF Keys
    <2>2. Len(Append(log, k)) = Len(log) + 1
      BY <2>1, Facts
    <2> QED
      BY <1>2, <2>1, <2>2, Mutation DEF Mutate, DispatchCommand
  <1>4. Len(log) + 1 \in Nat
    BY Facts
  <1>5. /\ f \in Flight /\ f.phase = "NOTE" /\ f.at = Len(log) + 1 /\ f.stop = flight[p].stop
        /\ f.begun = flight[p].begun /\ f.more = flight[p].more
    BY <1>1, <1>4 DEF Flight
  <1>6. flight' = [flight EXCEPT ![p] = f]
    BY DEF DispatchCommand
  <1> HIDE DEF f
  <1>7. FlightGood(f, Len(log'), Len(cache'), deleted')
    BY <1>1, <1>3, <1>4, <1>5, Facts DEF FlightGood, Covered, DispatchCommand, Loaded, Flight
  <1>8. FlightsStep
    BY <1>5, <1>6, <1>7, OneFlight
  <1> QED
    BY <1>3, <1>8, RequestsSame, RestSame, Facts DEF DispatchCommand, Effect

\* The end of a flight: what it reports is true of the cache.
LEMMA CloseEffect ==
  ASSUME LogInv, NEW p \in Procs, NEW ok \in BOOLEAN, Close(p, ok), UNCHANGED cache,
         ~ok \/ deleted \/ flight[p].begun <= Len(cache)
  PROVE  Effect
  <1>1. flight[p] \in Flight /\ FlightGood(flight[p], Len(log), Len(cache), deleted)
    BY Facts
  <1>2. flight[p].begun \in Nat
    BY <1>1 DEF Flight
  <1> DEFINE f == [NoFlight EXCEPT !.phase = "OVER", !.ok = ok, !.begun = flight[p].begun]
  <1>3. NoFlight \in Flight
    BY DEF NoFlight, Flight
  <1>4. f \in Flight /\ f.phase = "OVER" /\ f.ok = ok /\ f.begun = flight[p].begun
    BY <1>2, <1>3 DEF Flight
  <1>5. flight' = [flight EXCEPT ![p] = f] /\ UNCHANGED <<log, deleted, late, proc, endpoint, faults>>
    BY DEF Close
  <1> HIDE DEF f
  <1>6. FlightGood(f, Len(log'), Len(cache'), deleted')
    BY <1>1, <1>4, <1>5 DEF FlightGood
  <1>7. FlightsStep
    BY <1>4, <1>5, <1>6, OneFlight
  <1>8. ASSUME NEW r \in Requests
        PROVE  /\ req'[r] \in Request
               /\ \/ req'[r] = req[r]
                  \/ /\ RequestGood(r, req'[r], log', Len(cache'), deleted')
                     /\ Told(req'[r]) = Told(req[r])
    <2>1. req[r] \in Request
      BY Facts
    <2>2. CASE req[r].phase = "WAIT" /\ req[r].at = p
      <3> DEFINE q == [req[r] EXCEPT !.phase = "SYNCED", !.ok = ok, !.covers = flight[p].begun]
      <3>1. /\ q \in Request /\ q.phase = "SYNCED" /\ q.seq = req[r].seq /\ q.at = req[r].at
            /\ q.ok = ok /\ q.covers = flight[p].begun
        BY <1>2, <2>1 DEF Request
      <3>2. req'[r] = q
        BY <2>2 DEF Close
      <3> HIDE DEF q
      <3>3. RequestGood(r, q, log, Len(cache), deleted) /\ Told(q) = Told(req[r])
        BY <1>2, <2>2, <3>1, WaiterGood
      <3> QED
        BY <1>5, <3>1, <3>2, <3>3
    <2>3. CASE ~(req[r].phase = "WAIT" /\ req[r].at = p)
      BY <2>1, <2>3 DEF Close
    <2> QED
      BY <2>2, <2>3
  <1>9. RequestsStep
    <2>1. req' \in [Requests -> Request]
      BY <1>8 DEF Close
    <2> QED
      BY <1>8, <2>1 DEF RequestsStep
  <1>10. NothingTold
    BY <1>8 DEF NothingTold, Requests
  <1> QED
    BY <1>5, <1>7, <1>9, <1>10, DataSame, RestSame, Facts DEF Effect

LEMMA NoteAnswerEffect ==
  ASSUME LogInv, NEW p \in Procs, NoteAnswer(p)
  PROVE  Effect
  <1>1. flight[p] \in Flight /\ FlightGood(flight[p], Len(log), Len(cache), deleted)
    BY Facts
  <1>2. CASE /\ Apply(flight[p].at)
             /\ flight' = [flight EXCEPT ![p].phase = "READ", ![p].at = flight[p].stop]
             /\ UNCHANGED <<log, deleted, late, proc, endpoint, req, faults>>
    <2> DEFINE f == [flight[p] EXCEPT !.phase = "READ", !.at = flight[p].stop]
    <2>1. flight[p].at \in 1..Len(log) /\ flight[p].stop \in Nat /\ flight[p].stop <= Len(cache)
      BY <1>1 DEF FlightGood, NoteAnswer, Flight
    <2>2. DataStep /\ Len(cache) <= Len(cache') /\ Len(cache') \in Nat
      BY <1>2, <2>1, Application
    <2>3. /\ f \in Flight /\ f.phase = "READ" /\ f.at = flight[p].stop /\ f.stop = flight[p].stop
          /\ f.begun = flight[p].begun /\ f.more = flight[p].more
      BY <1>1, <2>1 DEF Flight
    <2>4. flight' = [flight EXCEPT ![p] = f]
      BY <1>2
    <2> HIDE DEF f
    <2>5. FlightGood(f, Len(log'), Len(cache'), deleted')
      BY <1>1, <1>2, <2>1, <2>2, <2>3, Facts DEF FlightGood, Covered, NoteAnswer
    <2>6. FlightsStep
      BY <2>3, <2>4, <2>5, OneFlight
    <2> QED
      BY <1>2, <2>2, <2>6, RequestsSame, RestSame, Facts DEF Effect
  <1>3. CASE Close(p, FALSE) /\ UNCHANGED cache
    BY <1>3, CloseEffect
  <1> QED
    BY <1>2, <1>3 DEF NoteAnswer

LEMMA FlightEndsEffect ==
  ASSUME LogInv, NEW p \in Procs, FlightEnds(p) \/ FlightFails(p)
  PROVE  Effect
  <1>1. flight[p] \in Flight /\ FlightGood(flight[p], Len(log), Len(cache), deleted)
    BY Facts
  <1>2. CASE FlightEnds(p)
    <2>1. deleted \/ flight[p].begun <= Len(cache)
      BY <1>1, <1>2, Facts DEF FlightEnds, Loaded, FlightGood, Covered, Flight
    <2> QED
      BY <1>2, <2>1, CloseEffect DEF FlightEnds
  <1>3. CASE FlightFails(p)
    BY <1>3, CloseEffect DEF FlightFails
  <1> QED
    BY <1>2, <1>3

LEMMA ForgetEffect ==
  ASSUME LogInv, NEW p \in Procs, Forget(p)
  PROVE  Effect
  <1>1. NoFlight \in Flight /\ FlightGood(NoFlight, Len(log'), Len(cache'), deleted')
    BY Facts DEF NoFlight, Flight, FlightGood, Forget
  <1>2. FlightsStep
    BY <1>1, OneFlight DEF Forget
  <1> QED
    BY <1>2, DataSame, RequestsSame, RestSame, Facts DEF Forget, Effect

-----------------------------------------------------------------------------
(* Processes *)

LEMMA StartEffect ==
  ASSUME LogInv, NEW p \in Procs, Probe(p) \/ Clear(p) \/ Bind(p) \/ Shutdown(p)
  PROVE  Effect
  <1>1. UNCHANGED <<log, deleted, late, cache, flight, req>>
    BY DEF Probe, Clear, Bind, Shutdown
  <1>2. /\ proc' \in [Procs -> {"OFF", "STARTING", "CLEARING", "BINDING", "SERVING", "STOPPING"}]
        /\ endpoint' \in Procs \cup {None}
    BY DEF Probe, Clear, Bind, Shutdown, LogInv, LogTypeOK
  <1>3. faults' \in 0..MaxFaults
    BY LogAssumption DEF Probe, Clear, Bind, Shutdown, LogInv, LogTypeOK
  <1>4. Rest
    BY <1>1, <1>2, <1>3, Facts DEF Rest
  <1> QED
    BY <1>1, <1>4, DataSame, FlightsSame, RequestsSame DEF Effect

\* When a process is gone, its synchronisation and its callers' requests are too.
LEMMA ExitEffect ==
  ASSUME LogInv, NEW p \in Procs, Kill(p) \/ Stop(p)
  PROVE  Effect
  <1>1. Exit(p) /\ endpoint' = endpoint
    BY DEF Kill, Stop
  <1>2. NoFlight \in Flight /\ FlightGood(NoFlight, Len(log'), Len(cache'), deleted')
    BY <1>1, Facts DEF NoFlight, Flight, FlightGood, Exit
  <1>3. FlightsStep
    BY <1>1, <1>2, OneFlight DEF Exit
  <1>4. ASSUME NEW r \in Requests
        PROVE  /\ req'[r] \in Request
               /\ \/ req'[r] = req[r]
                  \/ /\ RequestGood(r, req'[r], log', Len(cache'), deleted')
                     /\ Told(req'[r]) = Told(req[r])
    <2>1. req[r] \in Request /\ RequestGood(r, req[r], log, Len(cache), deleted)
      BY Facts
    <2>2. CASE req[r].at = p
      <3>1. req[r].phase # "DONE"
        BY <2>1, <2>2, LogAssumption DEF RequestGood
      <3>2. req'[r] = Retried(req[r])
        BY <1>1, <2>2 DEF Exit
      <3> QED
        BY <3>1, <3>2, RetriedIsIdle DEF Told
    <2>3. CASE req[r].at # p
      BY <1>1, <2>1, <2>3 DEF Exit
    <2> QED
      BY <2>2, <2>3
  <1>5. RequestsStep /\ NothingTold
    <2>1. req' \in [Requests -> Request]
      BY <1>1, <1>4 DEF Exit
    <2> QED
      BY <1>4, <2>1 DEF RequestsStep, NothingTold, Requests
  <1>6. Rest
    <2>1. late' \subseteq Commands
      BY <1>1, Facts DEF Exit
    <2>2. proc' \in [Procs -> {"OFF", "STARTING", "CLEARING", "BINDING", "SERVING", "STOPPING"}]
      BY <1>1 DEF Exit, LogInv, LogTypeOK
    <2>3. faults' \in 0..MaxFaults
      BY LogAssumption DEF Kill, Stop, LogInv, LogTypeOK
    <2> QED
      BY <1>1, <2>1, <2>2, <2>3, Facts DEF Rest
  <1>7. DataStep
    BY <1>1, DataSame DEF Exit
  <1> QED
    BY <1>3, <1>5, <1>6, <1>7 DEF Effect

-----------------------------------------------------------------------------
(* The theorems *)

LEMMA StepEffect ==
  ASSUME LogInv, Next
  PROVE  Effect
  <1>1. CASE ForeignCommit \/ LateArrival \/ DeleteProject
    BY <1>1, AuthorityEffect
  <1>2. CASE \E r \in Requests : Submit(r) \/ ClientStep(r) \/ GiveUp(r)
    <2>1. PICK r \in Requests : Submit(r) \/ ClientStep(r) \/ GiveUp(r)
      BY <1>2
    <2> QED
      BY <2>1, SubmitEffect, CallEffect, LaunchEffect, JoinSyncEffect, FinishCommandEffect,
         TimeOutEffect, FinishReadEffect, GiveUpEffect DEF ClientStep
  <1>3. CASE \E c \in Commands : AuthorityStep(c) \/ ApplyAnswer(c)
    <2>1. PICK c \in Commands : AuthorityStep(c) \/ ApplyAnswer(c)
      BY <1>3
    <2> QED
      BY <2>1, RelayEffect, RefusedEffect, UnansweredEffect, ApplyAnswerEffect DEF AuthorityStep
  <1>4. CASE \E p \in Procs :
          \/ Coordinate(p) \/ FetchPage(p) \/ ApplyPage(p) \/ DispatchCommand(p) \/ FlightFails(p)
          \/ FlightStep(p) \/ ProcStep(p) \/ Kill(p) \/ Shutdown(p)
    <2>1. PICK p \in Procs :
            \/ Coordinate(p) \/ FetchPage(p) \/ ApplyPage(p) \/ DispatchCommand(p) \/ FlightFails(p)
            \/ FlightStep(p) \/ ProcStep(p) \/ Kill(p) \/ Shutdown(p)
      BY <1>4
    <2>2. CASE Coordinate(p) \/ FetchPage(p) \/ ApplyPage(p) \/ DispatchCommand(p) \/ FlightFails(p)
      BY <2>2, CoordinateEffect, FetchPageEffect, ApplyPageEffect, DispatchCommandEffect, FlightEndsEffect
    <2>3. CASE FlightStep(p)
      BY <2>3, NoteAnswerEffect, FlightEndsEffect, ForgetEffect DEF FlightStep
    <2>4. CASE ProcStep(p) \/ Kill(p) \/ Shutdown(p)
      BY <2>4, StartEffect, ExitEffect DEF ProcStep
    <2> QED
      BY <2>1, <2>2, <2>3, <2>4
  <1> QED
    BY <1>1, <1>2, <1>3, <1>4 DEF Next

LEMMA InitKeepsInv ==
  ASSUME Init
  PROVE  LogInv
  <1>1. NoFlight \in Flight /\ NoFlight.phase = "NONE" /\ NoFlight.begun = 0
    BY DEF NoFlight, Flight
  <1>2. Asleep \in Request /\ Asleep.phase = "IDLE"
    BY LogAssumption DEF Asleep, Request
  <1>3. LogTypeOK
    <2>1. log \in Seq(Keys) /\ cache \in Seq(Keys)
      BY DEF Init
    <2>2. faults \in 0..MaxFaults
      BY LogAssumption DEF Init
    <2>3. flight \in [Procs -> Flight] /\ req \in [Requests -> Request]
      BY <1>1, <1>2 DEF Init
    <2> QED
      BY <2>1, <2>2, <2>3 DEF Init, LogTypeOK
  <1>4. Unique /\ Prefix
    BY DEF Init, Unique, Prefix
  <1>5. FlightsGood
    BY <1>1 DEF Init, FlightsGood, FlightGood
  <1>6. RequestsGood
    BY <1>2 DEF Init, RequestsGood, RequestGood
  <1> QED
    BY <1>3, <1>4, <1>5, <1>6 DEF LogInv

\* What strengthens the invariants is inductive: the log repeats no key, the cache
\* is a prefix of it, flights and requests know what they have seen of it.
THEOREM LogInvariance == Spec => []LogInv
  <1>1. Init => LogInv
    BY InitKeepsInv
  <1>2. LogInv /\ [Next]_vars => LogInv'
    <2> SUFFICES ASSUME LogInv, [Next]_vars PROVE LogInv'
      OBVIOUS
    <2>1. CASE Next
      BY <2>1, StepEffect, EffectKeepsInv
    <2>2. CASE UNCHANGED vars
      BY <2>2 DEF vars, LogInv, LogTypeOK, Unique, Prefix, FlightsGood, RequestsGood
    <2> QED
      BY <2>1, <2>2
  <1> QED
    BY <1>1, <1>2, PTL DEF Spec

\* Every record of clients, daemons and synchronisations keeps its shape.
THEOREM LogTypeCorrect == Spec => []LogTypeOK
  <1>1. LogInv => LogTypeOK
    BY DEF LogInv
  <1> QED
    BY <1>1, LogInvariance, PTL

\* No reader is told that a state is authoritative that lacks an event committed
\* before the synchronisation it rests on began (daemon.go, state and Sync).
THEOREM ReadsAreFresh == Spec => []FreshReads
  <1>1. LogInv => FreshReads
    <2> SUFFICES ASSUME LogInv, NEW r \in Reads, req[r].phase = "DONE", req[r].ok, ~deleted
                 PROVE  req[r].seq >= req[r].covers
      BY DEF FreshReads
    <2>1. r \in Requests /\ req[r] \in Request /\ RequestGood(r, req[r], log, Len(cache), deleted)
      BY Facts DEF Requests
    <2> QED
      BY <2>1 DEF RequestGood, Request
  <1> QED
    BY <1>1, LogInvariance, PTL

\* Clients, daemons and the cache implement SignedLog: commands take their places
\* once, the cache follows the log, and answers tell the truth.
THEOREM LogRefinement == Spec => ImplementsSignedLog
  <1> DEFINE answers == [k \in Keys |-> IF k \in Commands /\ req[k].phase = "DONE" THEN req[k].seq ELSE 0]
  <1>1. Init => Promise!Init
    <2> SUFFICES ASSUME Init PROVE answers = [k \in Keys |-> 0]
      BY DEF Init, Promise!Init
    <2>1. ASSUME NEW c \in Commands PROVE req[c].phase # "DONE"
      BY DEF Init, Asleep, Requests
    <2> QED
      BY <2>1
  <1>2. LogInv /\ [Next]_vars => [Promise!Next]_<<log, cache, answers>>
    <2> SUFFICES ASSUME LogInv, [Next]_vars PROVE [Promise!Next]_<<log, cache, answers>>
      OBVIOUS
    <2>1. CASE UNCHANGED vars
      BY <2>1 DEF vars
    <2>2. CASE Next
      <3>1. Effect
        BY <2>2, StepEffect
      <3>2. CASE NothingTold
        <4>1. \A c \in Commands : Told(req'[c]) = Told(req[c])
          BY <3>2 DEF NothingTold
        <4>2. answers' = answers
          BY <4>1 DEF Told
        <4>3. CASE log' = log /\ cache' = cache
          BY <4>2, <4>3
        <4>4. CASE Appended /\ cache' = cache
          <5>1. Promise!Commit
            BY <4>2, <4>4 DEF Appended, Committed, Promise!Commit
          <5> QED
            BY <5>1 DEF Promise!Next
        <4>5. CASE log' = log /\ Learnt
          <5>1. Promise!Learn
            BY <4>2, <4>5 DEF Learnt, Promise!Learn
          <5> QED
            BY <5>1 DEF Promise!Next
        <4> QED
          BY <3>1, <4>3, <4>4, <4>5 DEF Effect, DataStep
      <3>3. CASE \E c \in Commands : AnswerTold(c)
        <4>1. PICK c \in Commands : AnswerTold(c)
          BY <3>3
        <4>2. c \in Requests /\ c \in Keys
          BY DEF Requests, Keys
        <4>3. req[c].seq \in 1..Len(log) /\ log[req[c].seq] = c
          BY <4>1, <4>2, Facts DEF RequestGood, AnswerTold
        <4>4. answers[c] = 0
          BY <4>1, <4>2 DEF AnswerTold
        <4>5. answers' = [answers EXCEPT ![c] = req[c].seq]
          <5>1. \A k \in Commands \ {c} : Told(req'[k]) = Told(req[k])
            BY <4>1 DEF AnswerTold
          <5>2. Told(req'[c]) = req[c].seq
            BY <4>1 DEF AnswerTold
          <5> QED
            BY <4>2, <5>1, <5>2 DEF Told
        <4>6. Promise!Answer
          BY <4>1, <4>3, <4>4, <4>5 DEF AnswerTold, Promise!Answer
        <4> QED
          BY <4>6 DEF Promise!Next
      <3> QED
        BY <3>1, <3>2, <3>3 DEF Effect
    <2> QED
      BY <2>1, <2>2
  <1> QED
    BY <1>1, <1>2, LogInvariance, PTL DEF Spec, ImplementsSignedLog, Promise!Spec

=============================================================================
