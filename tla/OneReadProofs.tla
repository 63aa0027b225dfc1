----------------------------- MODULE OneReadProofs -----------------------------
(***************************************************************************)
(* What the engine does to one read, from start_read through the polls to  *)
(* its answer, keeps the read sound and in step with its torrent's probe.  *)
(* The inductive invariant of the engine is stated here; EngineReadsProofs *)
(* shows that every step of the loop and of its callers keeps it.          *)
(***************************************************************************)
EXTENDS EngineReads, FiniteSetTheorems, TLAPS

-----------------------------------------------------------------------------
(* The inductive invariant.                                                 *)

Commands ==
  [op : {"read"}, read : Reads] \cup [op : {"ensure", "remove"}, torrent : Torrents]
    \cup [op : {"shutdown"}]

NoRepeats(seq) == \A i, j \in 1..Len(seq) : seq[i] = seq[j] => i = j

\* A parked call is in pending_reads or in the pass, once.
QueuesInv ==
  /\ parked \in Seq(Reads) /\ todo \in Seq(Reads)
  /\ NoRepeats(parked) /\ NoRepeats(todo) /\ Range(parked) \cap Range(todo) = {}
  /\ Waiting = Range(parked) \cup Range(todo)
  /\ todo = <<>> <=> loop # "poll"
  /\ loop = "exited" => \A r \in Reads : caller[r] \notin {"sent", "parked"}

\* A call in the channel is in no other place.
InboxInv ==
  /\ inbox \in Seq(Commands)
  /\ \A i \in 1..Len(inbox) : inbox[i].op = "read" => caller[inbox[i].read] = "sent"
  /\ \A i, j \in 1..Len(inbox) :
       inbox[i].op = "read" /\ inbox[j].op = "read" /\ inbox[i].read = inbox[j].read => i = j

\* What a read may have waited before its phase, and the phase's own window; in
\* the first phase a read is failed when it is past the window.
Before(rec) ==
  CASE rec.phase = "WaitState" -> 0
    [] rec.phase = "Recheck" -> ReadTimeout
    [] rec.phase = "PeerWait" -> ReadTimeout + recheck_window_secs
    [] rec.phase = "PieceWait" ->
         ReadTimeout + recheck_window_secs + peer_discovery_window_secs
           + IF rec.has_seeder THEN no_seeder_window_secs ELSE 0

Window(rec) ==
  CASE rec.phase = "WaitState" -> ReadTimeout + 1
    [] rec.phase = "Recheck" -> recheck_window_secs
    [] rec.phase = "PeerWait" -> peer_discovery_window_secs
    [] rec.phase = "PieceWait" -> IF rec.has_seeder THEN ReadTimeout ELSE no_seeder_window_secs

\* What holds of a parked read by itself.
Sound(r, rec, registered) ==
  /\ rec \in PendingRead
  /\ rec.current \in FirstOf[r]..LastOf[r]
  /\ ~rec.rewaits => rec.age <= Before(rec) + rec.spent
  /\ rec.spent <= Window(rec)
  /\ ~rec.reader => rec.phase \in {"WaitState", "Recheck"} /\ ~rec.has_seeder
  /\ rec.reader => registered

InStep(rec, flight) == rec.phase = "PeerWait" /\ flight # None => rec.spent >= flight.age

\* A read loses its registration only with its torrent's handle, and a failing
\* handle may not have taken it.
Registered(r) == TorrentOf[r] \in handles \ broken => r \in readers

WaitersInv ==
  /\ \A r \in Waiting : Sound(r, rd[r], Registered(r)) /\ InStep(rd[r], cold[TorrentOf[r]])
  /\ readers \subseteq Waiting
  /\ \A r \in readers : TorrentOf[r] \in handles

\* A read that was polled in the last pass has time left and a handle.
PolledInv ==
  \A r \in Range(parked) : rd[r].spent < Window(rd[r]) /\ TorrentOf[r] \in handles

\* A flight that has not announced again has announced once.
AnnouncedOnce ==
  \A t \in Torrents : cold[t] # None /\ ~cold[t].reannounced => cold[t].announces = 1

EngineInv ==
  /\ EngineTypeOK /\ AnnouncedOnce /\ swarm \in [Torrents -> {"empty", "leechers", "seeds"}]
  /\ QueuesInv /\ InboxInv
  /\ WaitersInv /\ PolledInv

-----------------------------------------------------------------------------
(* The windows.                                                             *)

LEMMA SmallestExists ==
  ASSUME NEW S \in SUBSET Nat, S # {}
  PROVE  \E m \in S : \A x \in S : m <= x
<1> DEFINE Below == {0..n : n \in S}
<1>1. \A n \in Nat : 0..n \in FiniteSubsetsOf(Nat)
  <2>1. \A n \in Nat : IsFiniteSet(0..n)
    BY FS_Interval
  <2>2. QED
    BY <2>1 DEF FiniteSubsetsOf
<1>2. PICK B \in Below : \A C \in Below : ~(<<C, B>> \in StrictSubsetOrdering(Nat))
  <2>1. Below \subseteq FiniteSubsetsOf(Nat) /\ Below # {}
    BY <1>1, Zenon
  <2> HIDE DEF Below
  <2>2. QED
    BY <2>1, FS_StrictSubsetOrderingWellFounded, WFMin
<1>3. PICK m \in S : B = 0..m
  OBVIOUS
<1>4. ASSUME NEW x \in S, x < m PROVE FALSE
  <2>1. 0..x \subseteq 0..m /\ 0..x # 0..m
    BY <1>4
  <2>2. <<0..x, 0..m>> \in StrictSubsetOrdering(Nat)
    BY <1>1, <2>1 DEF StrictSubsetOrdering, FiniteSubsetsOf
  <2>3. QED
    BY <1>2, <1>3, <2>2, Zenon
<1>5. QED
  BY <1>4

LEMMA MinIsLeast ==
  ASSUME NEW S \in SUBSET Nat, S # {}
  PROVE  Min(S) \in S /\ Min(S) \in Nat /\ \A x \in S : Min(S) <= x
<1>1. Min(S) \in S /\ \A x \in S : Min(S) =< x
  BY SmallestExists, Zenon DEF Min
<1>2. QED
  BY <1>1, Zenon

LEMMA ResolvedIsPositive ==
  ASSUME NEW setting, IsOption(setting), NEW default \in Nat, default > 0
  PROVE  Resolved(setting, default) \in Nat /\ Resolved(setting, default) > 0
<1>1. CASE Positive(setting) = {}
  BY <1>1 DEF Resolved
<1>2. CASE Positive(setting) # {}
  <2>1. PICK v \in setting : v > 0
    BY <1>2 DEF Positive
  <2>2. v \in Nat /\ \A w \in setting : w = v
    BY <2>1 DEF IsOption
  <2>3. Resolved(setting, default) = v
    BY <1>2, <2>1, <2>2 DEF Resolved
  <2>4. QED
    BY <2>1, <2>2, <2>3
<1>3. QED
  BY <1>1, <1>2

LEMMA WindowFacts ==
  /\ ReadTimeout \in Nat /\ recheck_window_secs \in Nat
  /\ peer_discovery_window_secs \in Nat /\ no_seeder_window_secs \in Nat
  /\ recheck_window_secs > 0 /\ peer_discovery_window_secs > 0 /\ no_seeder_window_secs > 0
  /\ recheck_window_secs <= ReadTimeout /\ peer_discovery_window_secs <= ReadTimeout
  /\ no_seeder_window_secs <= ReadTimeout
  /\ Overdue \in Nat
  /\ Overdue > ReadTimeout + recheck_window_secs + peer_discovery_window_secs
                 + no_seeder_window_secs + ReadTimeout
<1>1. /\ DEFAULT_READ_TIMEOUT_SECS \in Nat /\ DEFAULT_READ_TIMEOUT_SECS > 0
      /\ DEFAULT_PEER_DISCOVERY_WAIT_SECS \in Nat /\ DEFAULT_PEER_DISCOVERY_WAIT_SECS > 0
      /\ DEFAULT_NO_SEEDER_READ_TIMEOUT_SECS \in Nat /\ DEFAULT_NO_SEEDER_READ_TIMEOUT_SECS > 0
      /\ RECHECK_WAIT_CAP \in Nat /\ RECHECK_WAIT_CAP > 0 /\ READ_DEADLINE_MARGIN \in Nat
  BY EngineAssumption
<1>2. ReadTimeout \in Nat /\ ReadTimeout > 0
  BY <1>1, EngineAssumption, ResolvedIsPositive DEF ReadTimeout
<1>3. DiscoveryWait \in Nat /\ DiscoveryWait > 0
  BY <1>1, EngineAssumption, ResolvedIsPositive DEF DiscoveryWait
<1>4. NoSeederTimeout \in Nat /\ NoSeederTimeout > 0
  BY <1>1, EngineAssumption, ResolvedIsPositive DEF NoSeederTimeout
<1>5. /\ recheck_window_secs \in Nat /\ recheck_window_secs > 0
      /\ recheck_window_secs <= ReadTimeout
  <2> DEFINE S == {ReadTimeout, RECHECK_WAIT_CAP}
  <2>1. S \in SUBSET Nat /\ S # {}
    BY <1>1, <1>2
  <2>2. Min(S) \in S /\ Min(S) <= ReadTimeout
    BY <2>1, MinIsLeast
  <2>3. QED
    BY <1>1, <1>2, <2>2 DEF recheck_window_secs
<1>6. /\ no_seeder_window_secs \in Nat /\ no_seeder_window_secs > 0
      /\ no_seeder_window_secs <= ReadTimeout
  <2> DEFINE S == {ReadTimeout, NoSeederTimeout}
  <2>1. S \in SUBSET Nat /\ S # {}
    BY <1>2, <1>4
  <2>2. Min(S) \in S /\ Min(S) <= ReadTimeout
    BY <2>1, MinIsLeast
  <2>3. QED
    BY <1>2, <1>4, <2>2 DEF no_seeder_window_secs
<1>7. /\ peer_discovery_window_secs \in Nat /\ peer_discovery_window_secs > 0
      /\ peer_discovery_window_secs <= ReadTimeout
  <2> DEFINE S == {ReadTimeout, DiscoveryWait} \cup PeerWaitCap
  <2>1. \A v \in PeerWaitCap : v \in Nat /\ v > 0
    BY EngineAssumption DEF PeerWaitCap, Positive, IsOption
  <2>2. S \in SUBSET Nat /\ S # {} /\ ReadTimeout \in S /\ \A v \in S : v > 0
    BY <1>2, <1>3, <2>1
  <2>3. Min(S) \in S /\ Min(S) \in Nat /\ Min(S) <= ReadTimeout
    <3> HIDE DEF S
    <3>1. QED
      BY <2>2, MinIsLeast
  <2>4. QED
    BY <2>2, <2>3 DEF peer_discovery_window_secs
<1>8. QED
  BY <1>1, <1>2, <1>5, <1>6, <1>7 DEF Overdue, read_wait_budget_secs

-----------------------------------------------------------------------------
(* A read's record.                                                         *)

LEMMA RecordFields ==
  ASSUME NEW rec \in PendingRead
  PROVE  /\ rec.phase \in {"WaitState", "Recheck", "PeerWait", "PieceWait"}
         /\ rec.spent \in Nat /\ rec.spent <= ReadTimeout + 1
         /\ rec.age \in Nat /\ rec.age <= Overdue /\ rec.current \in Nat
         /\ rec.seen \in {"empty", "leechers", "seeds"}
         /\ rec.exhausted \in BOOLEAN /\ rec.has_seeder \in BOOLEAN
         /\ rec.saw_checking \in BOOLEAN /\ rec.rewaits \in BOOLEAN /\ rec.reader \in BOOLEAN
         /\ rec.blockers \subseteq Pieces
<1>1. /\ rec.phase \in {"WaitState", "Recheck", "PeerWait", "PieceWait"}
      /\ rec.spent \in 0..(ReadTimeout + 1) /\ rec.age \in 0..Overdue /\ rec.current \in Nat
      /\ rec.seen \in {"empty", "leechers", "seeds"}
      /\ rec.exhausted \in BOOLEAN /\ rec.has_seeder \in BOOLEAN
      /\ rec.saw_checking \in BOOLEAN /\ rec.rewaits \in BOOLEAN /\ rec.reader \in BOOLEAN
      /\ rec.blockers \in SUBSET Pieces
  BY DEF PendingRead
<1>2. QED
  BY <1>1, WindowFacts

LEMMA BudgetFacts ==
  ASSUME NEW rec \in PendingRead
  PROVE  /\ Before(rec) \in Nat /\ Window(rec) \in Nat
         /\ Window(rec) > 0 /\ Window(rec) <= ReadTimeout + 1
         /\ Before(rec) + Window(rec) < Overdue
BY RecordFields, WindowFacts DEF Before, Window

LEMMA RangeFacts ==
  ASSUME NEW r \in Reads
  PROVE  /\ TorrentOf[r] \in Torrents
         /\ FirstOf[r] \in Nat /\ LastOf[r] \in Nat /\ FirstOf[r] <= LastOf[r]
         /\ FirstOf[r]..LastOf[r] \subseteq Pieces
BY EngineAssumption, Zenon

LEMMA FirstMissingFacts ==
  ASSUME NEW r \in Reads, NEW p \in FirstOf[r]..LastOf[r]
  PROVE  FirstMissing(r, p) \in p..(LastOf[r] + 1)
<1> DEFINE S == {q \in p..(LastOf[r] + 1) : q = LastOf[r] + 1 \/ ~Local(r, q)}
<1>1. FirstOf[r] \in Nat /\ LastOf[r] \in Nat
  BY RangeFacts
<1>2. p \in Nat /\ p <= LastOf[r]
  BY <1>1
<1>3. S \in SUBSET Nat /\ LastOf[r] + 1 \in S
  BY <1>1, <1>2
<1> HIDE DEF S
<1>4. Min(S) \in S
  BY <1>3, MinIsLeast
<1>5. QED
  BY <1>4 DEF FirstMissing, S

LEMMA AnswerFacts ==
  ASSUME NEW r, NEW rec, NEW s
  PROVE  /\ \A last : \A answer \in Answers : read_from_disk(r, last, answer) \in {answer, "error"}
         /\ read_timed_out(r, rec, s) \in Answers
         /\ rec.exhausted /\ ~rec.has_seeder /\ s = "empty" =>
              read_timed_out(r, rec, s) \notin {"no seeder", "slow swarm"}
BY DEF read_from_disk, read_timed_out, classify_read_stall, no_seeder_wait, Answers

\* The record a read has before it starts and after it is answered.
LEMMA FreshFacts ==
  ASSUME NEW r \in Reads, swarm \in [Torrents -> {"empty", "leechers", "seeds"}]
  PROVE  /\ Fresh(r) \in PendingRead /\ Unused(r) \in PendingRead
         /\ Fresh(r).spent = 0 /\ Fresh(r).age = 0 /\ Fresh(r).current = FirstOf[r]
         /\ ~Fresh(r).has_seeder /\ ~Fresh(r).rewaits /\ ~Fresh(r).reader
<1>1. /\ FirstOf[r] \in Nat /\ 0 \in 0..(ReadTimeout + 1) /\ 0 \in 0..Overdue
      /\ swarm[TorrentOf[r]] \in {"empty", "leechers", "seeds"}
  BY RangeFacts, WindowFacts
<1>2. Fresh(r) \in PendingRead
  BY <1>1, Zenon DEF Fresh, PendingRead
<1>3. Unused(r) = [Fresh(r) EXCEPT !.seen = "empty"]
  BY DEF Unused
<1>4. Unused(r) \in PendingRead
  BY <1>2, <1>3 DEF PendingRead
<1>5. QED
  BY <1>2, <1>4 DEF Fresh

LEMMA InPieceWaitFacts ==
  ASSUME NEW rec \in PendingRead
  PROVE  LET now == InPieceWait(rec)
         IN /\ now \in PendingRead /\ now.phase = "PieceWait" /\ now.spent = 0
            /\ now.age = rec.age /\ now.current = rec.current /\ now.rewaits = rec.rewaits
            /\ now.reader = rec.reader
<1>1. 0 \in 0..(ReadTimeout + 1)
  BY WindowFacts
<1> DEFINE seeds == rec.seen = "seeds"
<1>2. seeds \in BOOLEAN
  OBVIOUS
<1>3. InPieceWait(rec) = [rec EXCEPT !.phase = "PieceWait", !.spent = 0, !.saw_checking = FALSE,
                                      !.has_seeder = seeds]
  BY DEF InPieceWait
<1> HIDE DEF seeds
<1>4. QED
  BY <1>1, <1>2, <1>3, ZenonT(60) DEF PendingRead

-----------------------------------------------------------------------------
(* What a step of one read leaves.                                          *)

Typed ==
  /\ EngineTypeOK /\ AnnouncedOnce /\ swarm \in [Torrents -> {"empty", "leechers", "seeds"}]
  /\ \A r \in readers : TorrentOf[r] \in handles

CallTypes ==
  /\ caller' \in [Reads -> {"idle", "sent", "parked"} \cup Answers]
  /\ rd' \in [Reads -> PendingRead]
  /\ readers' \subseteq Reads

ProbeTypes ==
  cold' \in [Torrents -> Flights] /\ AnnouncedOnce' /\ sourceless' \in [Torrents -> Verdicts]

Others(r) ==
  \A q \in Reads \ {r} :
    caller'[q] = caller[q] /\ rd'[q] = rd[q] /\ (q \in readers' <=> q \in readers)

ColdKept ==
  \A t \in Torrents : cold'[t] # None =>
    cold'[t].age = 0 \/ (cold[t] # None /\ cold'[t].age = cold[t].age)

\* A scheduler with the readers S knows the read, or its handle fails.
Known(r, S) == TorrentOf[r] \in broken \/ r \in S

IsParked(r) ==
  /\ caller'[r] = "parked"
  /\ Sound(r, rd'[r], Known(r, readers'))
  /\ rd'[r].spent < Window(rd'[r])
  /\ InStep(rd'[r], cold'[TorrentOf[r]])

Result(r) == (caller'[r] \in Answers /\ r \notin readers') \/ IsParked(r)

\* VerdictSpeaksForSwarm, of one read.
Spoken(r) ==
  ~rd[r].reader /\ caller'[r] \in {"discovery window", "no seeder", "slow swarm"} =>
    /\ caller'[r] = "discovery window"
    /\ swarm[TorrentOf[r]] = "empty"
    /\ sourceless[TorrentOf[r]] # None
    /\ sourceless[TorrentOf[r]].age < peer_discovery_window_secs

OneRead(r) == CallTypes /\ ProbeTypes /\ Others(r) /\ ColdKept /\ Result(r) /\ Spoken(r)

LEMMA ResolveKeeps ==
  ASSUME Typed, NEW r \in Reads, NEW answer \in Answers, Resolve(r, answer)
  PROVE  CallTypes /\ Others(r) /\ Result(r) /\ caller'[r] = answer
<1>1. /\ caller \in [Reads -> {"idle", "sent", "parked"} \cup Answers]
      /\ rd \in [Reads -> PendingRead] /\ readers \subseteq Reads
  BY DEF Typed, EngineTypeOK
<1>2. Unused(r) \in PendingRead
  BY FreshFacts DEF Typed
<1>3. caller' = [caller EXCEPT ![r] = answer] /\ rd' = [rd EXCEPT ![r] = Unused(r)]
  BY DEF Resolve
<1>4. readers' = readers \ {r}
  BY DEF Resolve, Typed
<1>5. CallTypes
  BY <1>1, <1>2, <1>3, <1>4 DEF CallTypes
<1>6. Others(r) /\ caller'[r] = answer
  BY <1>1, <1>3, <1>4 DEF Others
<1>7. QED
  BY <1>4, <1>5, <1>6 DEF Result

LEMMA ParkKeeps ==
  ASSUME Typed, NEW r \in Reads, NEW rec \in PendingRead, Park(r, rec),
         readers' \in {readers, readers \cup {r}}
  PROVE  CallTypes /\ Others(r) /\ caller'[r] = "parked" /\ rd'[r] = rec
<1>1. /\ caller \in [Reads -> {"idle", "sent", "parked"} \cup Answers]
      /\ rd \in [Reads -> PendingRead] /\ readers \subseteq Reads
  BY DEF Typed, EngineTypeOK
<1>2. caller' = [caller EXCEPT ![r] = "parked"] /\ rd' = [rd EXCEPT ![r] = rec]
  BY DEF Park
<1>3. QED
  BY <1>1, <1>2 DEF CallTypes, Others

LEMMA SameProbe ==
  ASSUME Typed, UNCHANGED <<cold, sourceless>>
  PROVE  ProbeTypes /\ ColdKept
BY DEF Typed, EngineTypeOK, ProbeTypes, ColdKept, AnnouncedOnce

\* An answer that is no verdict on the swarm, or comes to a reader.
LEMMA AnswerKeeps ==
  ASSUME Typed, NEW r \in Reads, NEW answer \in Answers, Resolve(r, answer),
         UNCHANGED <<cold, sourceless>>,
         rd[r].reader \/ answer \notin {"discovery window", "no seeder", "slow swarm"}
  PROVE  OneRead(r)
<1>1. CallTypes /\ Others(r) /\ Result(r) /\ caller'[r] = answer
  BY ResolveKeeps, Zenon
<1>2. ProbeTypes /\ ColdKept
  BY SameProbe, Zenon
<1>3. Spoken(r)
  BY <1>1, Zenon DEF Spoken
<1>4. QED
  BY <1>1, <1>2, <1>3, Zenon DEF OneRead

\* A read stays parked, or is parked anew.
LEMMA ParkedKeeps ==
  ASSUME Typed, NEW r \in Reads, NEW rec, Park(r, rec),
         readers' \in {readers, readers \cup {r}}, ProbeTypes, ColdKept,
         Sound(r, rec, Known(r, readers')), rec.spent < Window(rec), InStep(rec, cold'[TorrentOf[r]])
  PROVE  OneRead(r)
<1>1. rec \in PendingRead
  BY DEF Sound
<1>2. CallTypes /\ Others(r) /\ caller'[r] = "parked" /\ rd'[r] = rec
  BY <1>1, ParkKeeps
<1>3. IsParked(r)
  BY <1>2 DEF IsParked
<1>4. Spoken(r)
  BY <1>2 DEF Spoken
<1>5. QED
  BY <1>2, <1>3, <1>4 DEF OneRead, Result

LEMMA StartRecheckKeeps ==
  ASSUME Typed, NEW r \in Reads, NEW rec \in PendingRead, start_recheck(r, rec),
         rec.current \in FirstOf[r]..LastOf[r], ~rec.rewaits => rec.age <= ReadTimeout,
         ~rec.reader => ~rec.has_seeder, rec.reader => Known(r, readers)
  PROVE  OneRead(r)
<1> DEFINE now == [rec EXCEPT !.phase = "Recheck", !.spent = 0, !.saw_checking = FALSE]
<1>1. Park(r, now) /\ UNCHANGED <<readers, cold, sourceless>>
  BY DEF start_recheck
<1>2. 0 \in 0..(ReadTimeout + 1)
  BY WindowFacts
<1>3. /\ now \in PendingRead /\ now.phase = "Recheck" /\ now.spent = 0 /\ now.age = rec.age
      /\ now.current = rec.current /\ now.rewaits = rec.rewaits /\ now.has_seeder = rec.has_seeder
      /\ now.reader = rec.reader
  BY <1>2, ZenonT(60) DEF PendingRead
<1> HIDE DEF now
<1>4. Before(now) = ReadTimeout /\ Window(now) = recheck_window_secs
  BY <1>3 DEF Before, Window
<1>5. now.spent < Window(now) /\ now.spent <= Window(now)
  BY <1>3, <1>4, WindowFacts
<1>6. ~now.rewaits => now.age <= Before(now) + now.spent
  BY <1>3, <1>4, WindowFacts, RecordFields
<1>7. Sound(r, now, Known(r, readers')) /\ InStep(now, cold'[TorrentOf[r]])
  BY <1>1, <1>3, <1>5, <1>6 DEF Sound, InStep
<1>8. QED
  BY <1>1, <1>5, <1>7, SameProbe, ParkedKeeps

LEMMA FlightFacts ==
  /\ Flight \in Flights /\ Flight # None /\ Flight.age = 0 /\ Flight.announces = 1
  /\ \A flight \in Flights : flight # None =>
       flight.age \in 0..peer_discovery_window_secs
  /\ \A verdict \in Verdicts : verdict # None =>
       /\ verdict.age \in 0..peer_discovery_window_secs
       /\ verdict.announced \in 0..peer_discovery_window_secs
       /\ verdict \in [age : 0..peer_discovery_window_secs, announced : 0..peer_discovery_window_secs]
<1>1. 0 \in 0..peer_discovery_window_secs /\ 1 \in 1..2
  BY WindowFacts
<1>2. Flight.age = 0 /\ None.age = -1 /\ Flight.announces = 1
  BY DEF Flight, None
<1>3. Flight \in Flights
  BY <1>1, Zenon DEF Flight, Flights
<1>4. QED
  BY <1>2, <1>3 DEF Flights, Verdicts

LEMMA WaitForSwarmKeeps ==
  ASSUME Typed, NEW r \in Reads, NEW rec \in PendingRead, WaitForSwarm(r, rec),
         rec.current \in FirstOf[r]..LastOf[r],
         ~rec.rewaits => rec.age <= ReadTimeout + recheck_window_secs
  PROVE  OneRead(r)
<1> DEFINE t == TorrentOf[r]
           known == [rec EXCEPT !.reader = TRUE]
<1>1. /\ t \in Torrents /\ cold \in [Torrents -> Flights] /\ sourceless \in [Torrents -> Verdicts]
  BY RangeFacts DEF Typed, EngineTypeOK
<1>2. /\ sourceless' = [sourceless EXCEPT ![t] = None] /\ readers' \in {readers, readers \cup {r}}
      /\ Known(r, readers')
  BY DEF WaitForSwarm, Known
<1>3. sourceless' \in [Torrents -> Verdicts]
  BY <1>1, <1>2 DEF Verdicts
<1>4. enter_peer_wait(r, known) \/ (Park(r, InPieceWait(known)) /\ cold' = cold)
  BY DEF WaitForSwarm
<1>5. /\ known \in PendingRead /\ known.reader = TRUE
      /\ known.age = rec.age /\ known.current = rec.current /\ known.rewaits = rec.rewaits
  BY ZenonT(60) DEF PendingRead
<1> HIDE DEF known
<1>6. CASE enter_peer_wait(r, known)
  <2> DEFINE flight == IF cold[t] = None \/ is_expired(cold[t]) THEN Flight ELSE cold[t]
             now == [known EXCEPT !.phase = "PeerWait", !.spent = flight.age]
  <2>1. cold' = [cold EXCEPT ![t] = flight] /\ Park(r, now)
    BY <1>6 DEF enter_peer_wait
  <2>2. /\ flight \in Flights /\ flight # None
        /\ flight.age \in Nat /\ flight.age < peer_discovery_window_secs
        /\ flight.age = 0 \/ (cold[t] # None /\ flight = cold[t])
        /\ ~flight.reannounced => flight.announces = 1
    BY <1>1, FlightFacts, WindowFacts DEF is_expired, Typed, AnnouncedOnce
  <2> HIDE DEF flight
  <2>3. flight.age \in 0..(ReadTimeout + 1)
    BY <2>2, WindowFacts
  <2>4. /\ now \in PendingRead /\ now.phase = "PeerWait" /\ now.spent = flight.age
        /\ now.age = rec.age /\ now.current = rec.current /\ now.rewaits = rec.rewaits
        /\ now.reader = TRUE
    BY <1>5, <2>3, ZenonT(60) DEF PendingRead
  <2> HIDE DEF now
  <2>5. ProbeTypes /\ ColdKept /\ cold'[t] = flight
    BY <1>1, <1>3, <2>1, <2>2 DEF ProbeTypes, ColdKept, Typed, AnnouncedOnce
  <2>6. /\ Before(now) = ReadTimeout + recheck_window_secs
        /\ Window(now) = peer_discovery_window_secs
    BY <2>4 DEF Before, Window
  <2>7. /\ now.spent < Window(now) /\ now.spent <= Window(now)
        /\ ~now.rewaits => now.age <= Before(now) + now.spent
    BY <2>2, <2>4, <2>6, WindowFacts, RecordFields
  <2>8. Sound(r, now, Known(r, readers')) /\ InStep(now, cold'[t])
    BY <1>2, <2>2, <2>4, <2>5, <2>7 DEF Sound, InStep
  <2>9. QED
    BY <1>2, <2>1, <2>5, <2>7, <2>8, ParkedKeeps
<1>7. CASE Park(r, InPieceWait(known)) /\ cold' = cold
  <2> DEFINE now == InPieceWait(known)
  <2>1. /\ now \in PendingRead /\ now.phase = "PieceWait" /\ now.spent = 0
        /\ now.age = rec.age /\ now.current = rec.current /\ now.rewaits = rec.rewaits
        /\ now.reader = TRUE
    BY <1>5, InPieceWaitFacts
  <2>2. Park(r, now)
    BY <1>7
  <2> HIDE DEF now
  <2>3. Before(now) >= ReadTimeout + recheck_window_secs /\ Before(now) \in Nat
    BY <2>1, WindowFacts, RecordFields DEF Before
  <2>4. /\ now.spent < Window(now) /\ now.spent <= Window(now)
        /\ ~now.rewaits => now.age <= Before(now) + now.spent
    BY <2>1, <2>3, BudgetFacts, WindowFacts, RecordFields
  <2>5. Sound(r, now, Known(r, readers')) /\ InStep(now, cold'[t])
    BY <1>2, <2>1, <2>4 DEF Sound, InStep
  <2>6. ProbeTypes /\ ColdKept
    BY <1>1, <1>3, <1>7 DEF ProbeTypes, ColdKept, Typed, AnnouncedOnce
  <2>7. QED
    BY <1>2, <2>2, <2>4, <2>5, <2>6, ParkedKeeps
<1>8. QED
  BY <1>4, <1>6, <1>7

LEMMA InheritKeeps ==
  ASSUME Typed, NEW r \in Reads, NEW rec \in PendingRead, Inherit(r, rec),
         ~rd[r].reader => ~rec.has_seeder,
         swarm[TorrentOf[r]] = "empty", is_live(sourceless[TorrentOf[r]])
  PROVE  OneRead(r)
<1> DEFINE t == TorrentOf[r]
           due == 2 * sourceless[t].announced >= peer_discovery_window_secs
           announced == IF due THEN 0 ELSE sourceless[t].announced
           now == [rec EXCEPT !.current = FirstMissing(r, @), !.exhausted = TRUE]
           answer == read_timed_out(r, now, "empty")
<1>1. t \in Torrents /\ sourceless \in [Torrents -> Verdicts] /\ cold \in [Torrents -> Flights]
  BY RangeFacts DEF Typed, EngineTypeOK
<1>2. sourceless[t] # None /\ sourceless[t].age < peer_discovery_window_secs
  BY DEF is_live
<1>3. /\ sourceless' = [sourceless EXCEPT ![t].announced = announced]
      /\ Resolve(r, answer) /\ cold' = cold
  BY <1>1 DEF Inherit
<1>4. announced \in 0..peer_discovery_window_secs
  BY <1>1, <1>2, FlightFacts, WindowFacts
<1> HIDE DEF announced
<1>5. sourceless' \in [Torrents -> Verdicts]
  <2>1. [sourceless[t] EXCEPT !.announced = announced] \in Verdicts
    BY <1>1, <1>2, <1>4, FlightFacts DEF Verdicts
  <2>2. sourceless' = [sourceless EXCEPT ![t] = [sourceless[t] EXCEPT !.announced = announced]]
    BY <1>1, <1>3
  <2>3. QED
    BY <1>1, <2>1, <2>2
<1>6. ProbeTypes /\ ColdKept
  BY <1>1, <1>3, <1>5 DEF ProbeTypes, ColdKept, Typed, AnnouncedOnce
<1>7. now.exhausted /\ now.has_seeder = rec.has_seeder
  BY DEF PendingRead
<1> HIDE DEF now
<1>8. answer \in Answers /\ (~rd[r].reader => answer \notin {"no seeder", "slow swarm"})
  BY <1>7, AnswerFacts, Zenon
<1> HIDE DEF answer
<1>9. CallTypes /\ Others(r) /\ Result(r) /\ caller'[r] = answer
  BY <1>3, <1>8, ResolveKeeps, Zenon
<1>10. Spoken(r)
  BY <1>2, <1>8, <1>9, Zenon DEF Spoken
<1>11. QED
  BY <1>6, <1>9, <1>10 DEF OneRead

LEMMA BeginWaitingKeeps ==
  ASSUME Typed, NEW r \in Reads, NEW rec \in PendingRead, begin_waiting(r, rec),
         rec.current \in FirstOf[r]..LastOf[r], ~rd[r].reader => ~rec.has_seeder,
         ~rec.rewaits => rec.age <= ReadTimeout + recheck_window_secs
  PROVE  OneRead(r)
<1> DEFINE t == TorrentOf[r]
           s == Status(t)
           now == [rec EXCEPT !.seen = IF s = "unknown" THEN @ ELSE s]
<1>1. CASE Resolve(r, read_from_disk(r, LastOf[r], "data")) /\ UNCHANGED <<cold, sourceless>>
  <2> DEFINE answer == read_from_disk(r, LastOf[r], "data")
  <2>1. answer \in {"data", "error"}
    BY AnswerFacts, Zenon DEF Answers
  <2> HIDE DEF answer
  <2>2. answer \in Answers /\ answer \notin {"discovery window", "no seeder", "slow swarm"}
    BY <2>1, ZenonT(60) DEF Answers
  <2>3. QED
    BY <1>1, <2>2, AnswerKeeps, ZenonT(60) DEF answer
<1>2. CASE WaitForSwarm(r, rec)
  BY <1>2, WaitForSwarmKeeps
<1>3. CASE IF s = "empty" /\ is_live(sourceless[t]) THEN Inherit(r, now) ELSE WaitForSwarm(r, now)
  <2>1. swarm[t] \in {"empty", "leechers", "seeds"}
    BY RangeFacts DEF Typed
  <2>2. s \in {"unknown", "empty", "leechers", "seeds"} /\ (s = "empty" => swarm[t] = "empty")
    BY <2>1 DEF Status
  <2> HIDE DEF s
  <2>3. /\ now \in PendingRead /\ now.current = rec.current /\ now.has_seeder = rec.has_seeder
        /\ now.age = rec.age /\ now.rewaits = rec.rewaits
    BY <2>2 DEF PendingRead
  <2> HIDE DEF now
  <2>4. CASE s = "empty" /\ is_live(sourceless[t]) /\ Inherit(r, now)
    BY <2>2, <2>3, <2>4, InheritKeeps
  <2>5. CASE WaitForSwarm(r, now)
    BY <2>3, <2>5, WaitForSwarmKeeps
  <2>6. QED
    BY <1>3, <2>4, <2>5
<1>4. QED
  BY <1>1, <1>2, <1>3 DEF begin_waiting

LEMMA AfterSettlingKeeps ==
  ASSUME Typed, NEW r \in Reads, NEW rec \in PendingRead, after_settling(r, rec),
         rec.current \in FirstOf[r]..LastOf[r], ~rd[r].reader => ~rec.has_seeder,
         ~rec.reader => ~rec.has_seeder, rec.reader => Known(r, readers),
         ~rec.rewaits => rec.age <= ReadTimeout
  PROVE  OneRead(r)
<1> DEFINE stale == stale_pieces_in_range(r)
           noted == [rec EXCEPT !.blockers = @ \cup stale]
<1>1. stale \subseteq Pieces
  BY RangeFacts DEF stale_pieces_in_range
<1>2. start_recheck(r, noted) \/ begin_waiting(r, noted)
  BY DEF after_settling
<1> HIDE DEF stale
<1>3. /\ noted \in PendingRead /\ noted.current = rec.current
      /\ noted.has_seeder = rec.has_seeder /\ noted.age = rec.age /\ noted.rewaits = rec.rewaits
      /\ noted.reader = rec.reader
  BY <1>1 DEF PendingRead
<1> HIDE DEF noted
<1>4. ~noted.rewaits => noted.age <= ReadTimeout /\ noted.age <= ReadTimeout + recheck_window_secs
  BY <1>3, WindowFacts, RecordFields
<1>5. QED
  BY <1>2, <1>3, <1>4, StartRecheckKeeps, BeginWaitingKeeps

-----------------------------------------------------------------------------
(* The polls.                                                               *)

\* A record that differs in nothing its budget depends on.
LEMMA SameBudget ==
  ASSUME NEW r, NEW rec, NEW registered, Sound(r, rec, registered), NEW now \in PendingRead,
         now.phase = rec.phase, now.spent = rec.spent, now.age = rec.age,
         now.current = rec.current, now.rewaits = rec.rewaits, now.has_seeder = rec.has_seeder,
         now.reader = rec.reader
  PROVE  /\ Sound(r, now, registered) /\ Before(now) = Before(rec) /\ Window(now) = Window(rec)
         /\ \A flight : InStep(rec, flight) => InStep(now, flight)
<1>1. Before(now) = Before(rec) /\ Window(now) = Window(rec)
  BY DEF Before, Window
<1>2. QED
  BY <1>1 DEF Sound, InStep

LEMMA PollWaitStateKeeps ==
  ASSUME Typed, NEW r \in Reads, Sound(r, rd[r], Known(r, readers)), rd[r].phase = "WaitState",
         poll_wait_state(r)
  PROVE  OneRead(r)
<1> DEFINE rec == rd[r]
           t == TorrentOf[r]
           now == [rec EXCEPT !.seen = IF t \in broken THEN @ ELSE swarm[t]]
<1>1. /\ rec \in PendingRead /\ swarm[t] \in {"empty", "leechers", "seeds"}
  BY RangeFacts DEF Typed, EngineTypeOK
<1>2. /\ now \in PendingRead /\ now.phase = rec.phase /\ now.spent = rec.spent
      /\ now.age = rec.age /\ now.current = rec.current /\ now.rewaits = rec.rewaits
      /\ now.has_seeder = rec.has_seeder /\ now.reader = rec.reader
  BY <1>1 DEF PendingRead
<1>3. \/ Resolve(r, "error") /\ UNCHANGED <<cold, sourceless>>
      \/ rec.spent <= ReadTimeout /\ Park(r, now) /\ UNCHANGED <<readers, cold, sourceless>>
      \/ rec.spent <= ReadTimeout /\ after_settling(r, now)
  BY DEF poll_wait_state
<1> HIDE DEF now
<1>4. CASE Resolve(r, "error") /\ UNCHANGED <<cold, sourceless>>
  BY <1>4, AnswerKeeps, ZenonT(60) DEF Answers
<1>5. CASE rec.spent <= ReadTimeout /\ Park(r, now) /\ UNCHANGED <<readers, cold, sourceless>>
  <2>1. Sound(r, now, Known(r, readers'))
    BY <1>2, <1>5, SameBudget
  <2>2. now.spent < Window(now) /\ InStep(now, cold'[t])
    BY <1>1, <1>2, <1>5, WindowFacts, RecordFields DEF Window, InStep
  <2>3. QED
    BY <1>5, <2>1, <2>2, SameProbe, ParkedKeeps
<1>6. CASE rec.spent <= ReadTimeout /\ after_settling(r, now)
  <2>1. ~now.rewaits => now.age <= ReadTimeout
    BY <1>1, <1>2, <1>6, WindowFacts, RecordFields DEF Sound, Before
  <2>2. /\ now.current \in FirstOf[r]..LastOf[r] /\ (~rd[r].reader => ~now.has_seeder)
        /\ (~now.reader => ~now.has_seeder) /\ (now.reader => Known(r, readers))
    BY <1>2 DEF Sound
  <2>3. QED
    BY <1>2, <1>6, <2>1, <2>2, AfterSettlingKeeps
<1>7. QED
  BY <1>3, <1>4, <1>5, <1>6

\* A registered read goes on to wait for pieces.
LEMMA ToPieceWaitKeeps ==
  ASSUME Typed, NEW r \in Reads, Known(r, readers), readers' = readers, ProbeTypes, ColdKept,
         NEW rec \in PendingRead, rec.reader, rec.current \in FirstOf[r]..LastOf[r],
         ~rec.rewaits => rec.age <= ReadTimeout + recheck_window_secs + peer_discovery_window_secs,
         Park(r, InPieceWait(rec))
  PROVE  OneRead(r)
<1> DEFINE now == InPieceWait(rec)
<1>1. /\ now \in PendingRead /\ now.phase = "PieceWait" /\ now.spent = 0
      /\ now.age = rec.age /\ now.current = rec.current /\ now.rewaits = rec.rewaits
      /\ now.reader = rec.reader
  BY InPieceWaitFacts
<1>2. Park(r, now)
  OBVIOUS
<1> HIDE DEF now
<1>3. /\ Before(now) >= ReadTimeout + recheck_window_secs + peer_discovery_window_secs
      /\ Before(now) \in Nat
  BY <1>1, WindowFacts, RecordFields DEF Before
<1>4. /\ now.spent < Window(now) /\ now.spent <= Window(now)
      /\ ~now.rewaits => now.age <= Before(now) + now.spent
  BY <1>1, <1>3, BudgetFacts, WindowFacts, RecordFields
<1>5. Sound(r, now, Known(r, readers')) /\ InStep(now, cold'[TorrentOf[r]])
  BY <1>1, <1>4 DEF Sound, InStep
<1>6. QED
  BY <1>2, <1>4, <1>5, ParkedKeeps

LEMMA PollRecheckKeeps ==
  ASSUME Typed, NEW r \in Reads, Sound(r, rd[r], Known(r, readers)), rd[r].phase = "Recheck",
         poll_recheck(r)
  PROVE  OneRead(r)
<1> DEFINE rec == rd[r]
           t == TorrentOf[r]
           saw == rec.saw_checking \/ t \in settling
           now == [rec EXCEPT !.saw_checking = saw]
<1>1. rec \in PendingRead /\ rec.current \in FirstOf[r]..LastOf[r]
  BY DEF Sound
<1>2. /\ ~rec.rewaits => rec.age <= ReadTimeout + recheck_window_secs
      /\ ~rec.rewaits => rec.age <= ReadTimeout + recheck_window_secs + peer_discovery_window_secs
      /\ Window(rec) = recheck_window_secs
  BY <1>1, WindowFacts, RecordFields DEF Sound, Before, Window
<1>3. CASE rec.reader /\ Park(r, InPieceWait(rd[r])) /\ UNCHANGED <<readers, cold, sourceless>>
  <2>1. Known(r, readers)
    BY <1>3 DEF Sound
  <2>2. QED
    BY <1>1, <1>2, <1>3, <2>1, SameProbe, ToPieceWaitKeeps
<1>4. CASE ~rec.reader /\ begin_waiting(r, rd[r])
  <2>1. ~rec.has_seeder
    BY <1>4 DEF Sound
  <2>2. QED
    BY <1>1, <1>2, <1>4, <2>1, BeginWaitingKeeps
<1>5. CASE /\ rec.spent < recheck_window_secs /\ Park(r, now)
           /\ UNCHANGED <<readers, cold, sourceless>>
  <2>1. saw \in BOOLEAN
    OBVIOUS
  <2> HIDE DEF saw
  <2>2. /\ now \in PendingRead /\ now.phase = rec.phase /\ now.spent = rec.spent
        /\ now.age = rec.age /\ now.current = rec.current /\ now.rewaits = rec.rewaits
        /\ now.has_seeder = rec.has_seeder /\ now.reader = rec.reader
    BY <1>1, <2>1 DEF PendingRead
  <2>3. Park(r, now)
    BY <1>5
  <2> HIDE DEF now
  <2>4. Sound(r, now, Known(r, readers')) /\ Window(now) = Window(rec)
    BY <1>5, <2>2, SameBudget
  <2>5. now.spent < Window(now) /\ InStep(now, cold'[t])
    BY <1>2, <1>5, <2>2, <2>4 DEF InStep
  <2>6. QED
    BY <1>5, <2>3, <2>4, <2>5, SameProbe, ParkedKeeps
<1>6. rec.spent >= recheck_window_secs \/ rec.spent < recheck_window_secs
  BY <1>1, WindowFacts, RecordFields
<1>7. QED
  BY <1>3, <1>4, <1>5, <1>6 DEF poll_recheck, finish_recheck

LEMMA ReannounceFacts ==
  ASSUME NEW flight \in Flights, flight # None /\ ~flight.reannounced => flight.announces = 1
  PROVE  LET next == take_reannounce(flight)
         IN /\ next \in Flights /\ (next # None <=> flight # None)
            /\ flight # None => next.age = flight.age
            /\ next # None /\ ~next.reannounced => next.announces = 1
<1> DEFINE next == take_reannounce(flight)
<1>1. CASE next = flight
  BY <1>1
<1>2. CASE /\ flight # None /\ ~flight.reannounced
           /\ next = [flight EXCEPT !.reannounced = TRUE, !.announces = @ + 1]
  <2>1. flight \in [age : 0..peer_discovery_window_secs, reannounced : BOOLEAN, announces : 1..2]
    BY <1>2 DEF Flights
  <2> DEFINE two == flight.announces + 1
  <2>2. next = [flight EXCEPT !.reannounced = TRUE, !.announces = two]
    BY <1>2
  <2>3. two \in 1..2
    BY <1>2
  <2> HIDE DEF two, next
  <2>4. /\ next \in [age : 0..peer_discovery_window_secs, reannounced : BOOLEAN, announces : 1..2]
        /\ next.age = flight.age /\ next.reannounced = TRUE
    BY <2>1, <2>2, <2>3, Zenon
  <2>5. next.age \in 0..peer_discovery_window_secs /\ None.age = -1
    BY <2>4 DEF None
  <2>6. next # None
    BY <2>5, WindowFacts
  <2>7. QED
    BY <1>2, <2>4, <2>6 DEF Flights, next
<1>3. QED
  BY <1>1, <1>2 DEF take_reannounce

LEMMA PollPeerWaitKeeps ==
  ASSUME Typed, NEW r \in Reads, Sound(r, rd[r], Known(r, readers)), rd[r].phase = "PeerWait",
         InStep(rd[r], cold[TorrentOf[r]]), poll_peer_wait(r)
  PROVE  OneRead(r)
<1> DEFINE rec == rd[r]
           t == TorrentOf[r]
           s == swarm[t]
<1>1. /\ rec \in PendingRead /\ rec.current \in FirstOf[r]..LastOf[r]
      /\ rec.reader /\ Known(r, readers)
      /\ t \in Torrents /\ s \in {"empty", "leechers", "seeds"}
      /\ cold \in [Torrents -> Flights] /\ sourceless \in [Torrents -> Verdicts]
  BY RangeFacts DEF Sound, Typed, EngineTypeOK
<1>2. /\ ~rec.rewaits => rec.age <= ReadTimeout + recheck_window_secs + peer_discovery_window_secs
      /\ Window(rec) = peer_discovery_window_secs
  BY <1>1, WindowFacts, RecordFields DEF Sound, Before, Window
<1>3. ASSUME NEW seen \in {rec.exhausted, s = "empty"}, NEW verdict \in Verdicts,
             cold' = [cold EXCEPT ![t] = None], readers' = readers,
             sourceless' = [sourceless EXCEPT ![t] = verdict],
             Park(r, InPieceWait([rec EXCEPT !.exhausted = seen, !.seen = s]))
      PROVE  OneRead(r)
  <2> DEFINE now == [rec EXCEPT !.exhausted = seen, !.seen = s]
  <2>1. seen \in BOOLEAN
    BY <1>1, <1>3, RecordFields, Zenon
  <2> HIDE DEF s
  <2>2. /\ now \in PendingRead /\ now.current = rec.current /\ now.age = rec.age
        /\ now.rewaits = rec.rewaits /\ now.reader = rec.reader
    BY <1>1, <2>1, ZenonT(60) DEF PendingRead
  <2>3. Park(r, InPieceWait(now))
    BY <1>3
  <2> HIDE DEF now
  <2>4. ProbeTypes /\ ColdKept
    BY <1>1, <1>3 DEF ProbeTypes, ColdKept, Flights, Typed, AnnouncedOnce
  <2>5. QED
    BY <1>1, <1>2, <1>3, <2>2, <2>3, <2>4, ToPieceWaitKeeps
<1>4. CASE Resolve(r, "error") /\ UNCHANGED <<cold, sourceless>>
  BY <1>4, AnswerKeeps, Zenon DEF Answers
<1>5. CASE ProbeEnds(r, s) /\ readers' = readers
  <2> DEFINE verdict == IF s = "empty" THEN [age |-> 0, announced |-> 0] ELSE None
  <2>1. verdict \in Verdicts
    BY WindowFacts DEF Verdicts
  <2>2. /\ cold' = [cold EXCEPT ![t] = None] /\ sourceless' = [sourceless EXCEPT ![t] = verdict]
        /\ Park(r, InPieceWait([rec EXCEPT !.exhausted = (s = "empty"), !.seen = s]))
    BY <1>5 DEF ProbeEnds
  <2> HIDE DEF verdict
  <2>3. QED
    BY <1>3, <1>5, <2>1, <2>2, Zenon
<1>6. CASE /\ cold' = [cold EXCEPT ![t] = None] /\ sourceless' = [sourceless EXCEPT ![t] = None]
           /\ Park(r, InPieceWait([rd[r] EXCEPT !.seen = s])) /\ readers' = readers
  <2>1. [rec EXCEPT !.seen = s] = [rec EXCEPT !.exhausted = rec.exhausted, !.seen = s]
    BY <1>1, Zenon DEF PendingRead
  <2>2. None \in Verdicts
    BY DEF Verdicts
  <2>3. Park(r, InPieceWait([rec EXCEPT !.exhausted = rec.exhausted, !.seen = s]))
    BY <1>6, <2>1
  <2>4. QED
    BY <1>3, <1>6, <2>2, <2>3, Zenon
<1>7. CASE /\ rec.spent < peer_discovery_window_secs
           /\ cold' = [cold EXCEPT ![t] = take_reannounce(@)]
           /\ Park(r, [rd[r] EXCEPT !.seen = s]) /\ UNCHANGED <<readers, sourceless>>
  <2> DEFINE now == [rec EXCEPT !.seen = s]
             next == take_reannounce(cold[t])
  <2>1. /\ next \in Flights /\ (next # None <=> cold[t] # None)
        /\ cold[t] # None => next.age = cold[t].age
        /\ next # None /\ ~next.reannounced => next.announces = 1
    BY <1>1, ReannounceFacts DEF Typed, AnnouncedOnce
  <2>2. cold' = [cold EXCEPT ![t] = next] /\ Park(r, now)
    BY <1>7
  <2> HIDE DEF next
  <2>3. /\ now \in PendingRead /\ now.phase = rec.phase /\ now.spent = rec.spent
        /\ now.age = rec.age /\ now.current = rec.current /\ now.rewaits = rec.rewaits
        /\ now.has_seeder = rec.has_seeder /\ now.reader = rec.reader
    BY <1>1 DEF PendingRead
  <2> HIDE DEF now
  <2>4. Sound(r, now, Known(r, readers')) /\ Window(now) = Window(rec)
    BY <1>7, <2>3, SameBudget
  <2>5. ProbeTypes /\ ColdKept /\ cold'[t] = next
    BY <1>1, <1>7, <2>1, <2>2 DEF ProbeTypes, ColdKept, Typed, AnnouncedOnce
  <2>6. now.spent < Window(now) /\ InStep(now, cold'[t])
    BY <1>2, <1>7, <2>1, <2>3, <2>4, <2>5 DEF InStep
  <2>7. QED
    BY <1>7, <2>2, <2>4, <2>5, <2>6, ParkedKeeps
<1>8. rec.spent >= peer_discovery_window_secs \/ rec.spent < peer_discovery_window_secs
  BY <1>1, WindowFacts, RecordFields
<1>9. QED
  BY <1>4, <1>5, <1>6, <1>7, <1>8 DEF poll_peer_wait

\* A seeder noticed late: the read waited at most no_seeder_window_secs so far.
LEMMA NoticeSeederKeeps ==
  ASSUME NEW r, NEW rec, Sound(r, rec, TRUE), rec.phase = "PieceWait",
         NEW s \in {"unknown", "empty", "leechers", "seeds"}
  PROVE  LET now == NoticeSeeder(rec, s)
         IN /\ Sound(r, now, TRUE) /\ now.phase = "PieceWait"
            /\ piece_wait_window_secs(now) <= Window(now) /\ piece_wait_window_secs(now) \in Nat
<1> DEFINE now == NoticeSeeder(rec, s)
<1>1. rec \in PendingRead
  BY DEF Sound
<1> SUFFICES /\ Sound(r, now, TRUE) /\ now.phase = "PieceWait"
             /\ piece_wait_window_secs(now) <= Window(now) /\ piece_wait_window_secs(now) \in Nat
  BY Zenon
<1>2. CASE now = rec
  <2> HIDE DEF now
  <2>1. /\ piece_wait_window_secs(rec) <= Window(rec) /\ piece_wait_window_secs(rec) \in Nat
    BY <1>1, WindowFacts, RecordFields DEF piece_wait_window_secs, Window
  <2>2. QED
    BY <1>2, <2>1, Zenon
<1>3. CASE /\ ~rec.has_seeder /\ s = "seeds"
           /\ now = [rec EXCEPT !.has_seeder = TRUE, !.spent = 0, !.seen = s]
  <2>1. 0 \in 0..(ReadTimeout + 1)
    BY WindowFacts
  <2>2. /\ now \in PendingRead /\ now.phase = "PieceWait" /\ now.spent = 0 /\ now.has_seeder = TRUE
        /\ now.age = rec.age /\ now.current = rec.current /\ now.rewaits = rec.rewaits
        /\ now.reader = rec.reader
    BY <1>1, <1>3, <2>1, ZenonT(60) DEF PendingRead
  <2> HIDE DEF now
  <2>3. /\ Before(rec) = ReadTimeout + recheck_window_secs + peer_discovery_window_secs
        /\ Window(rec) = no_seeder_window_secs
        /\ Before(now) = ReadTimeout + recheck_window_secs + peer_discovery_window_secs
                           + no_seeder_window_secs
        /\ Window(now) = ReadTimeout
    BY <1>3, <2>2, WindowFacts DEF Before, Window
  <2>4. ~now.rewaits => now.age <= Before(now) + now.spent
    BY <1>1, <2>2, <2>3, WindowFacts, RecordFields DEF Sound
  <2>5. Sound(r, now, TRUE)
    BY <2>2, <2>3, <2>4, WindowFacts DEF Sound
  <2>6. piece_wait_window_secs(now) = ReadTimeout
    BY <2>2 DEF piece_wait_window_secs
  <2>7. piece_wait_window_secs(now) <= Window(now) /\ piece_wait_window_secs(now) \in Nat
    BY <2>3, <2>6, WindowFacts
  <2>8. now.phase = "PieceWait"
    BY <2>2
  <2>9. QED
    BY <2>5, <2>7, <2>8, Zenon
<1>4. QED
  BY <1>2, <1>3, Zenon DEF NoticeSeeder

LEMMA PollPieceWaitKeeps ==
  ASSUME Typed, NEW r \in Reads, Sound(r, rd[r], Known(r, readers)), rd[r].phase = "PieceWait",
         poll_piece_wait(r)
  PROVE  OneRead(r)
<1> DEFINE t == TorrentOf[r]
           next == FirstMissing(r, rd[r].current)
           rec == [rd[r] EXCEPT !.current = next]
           stale == next <= LastOf[r] /\ data[t][next] = "stale"
           noted == IF stale THEN [rec EXCEPT !.blockers = @ \cup {next}] ELSE rec
           now == NoticeSeeder(noted, Status(t))
           again == [noted EXCEPT !.rewaits = TRUE]
           answer == read_timed_out(r, now, Status(t))
<1>1. /\ rd[r] \in PendingRead /\ rd[r].current \in FirstOf[r]..LastOf[r]
      /\ rd[r].reader /\ Known(r, readers)
      /\ swarm[t] \in {"empty", "leechers", "seeds"}
  BY RangeFacts DEF Sound, Typed, EngineTypeOK
<1>2. FirstOf[r] \in Nat /\ LastOf[r] \in Nat /\ FirstOf[r]..LastOf[r] \subseteq Pieces
  BY RangeFacts
<1>3. next \in FirstOf[r]..(LastOf[r] + 1) /\ next \in Nat
  BY <1>1, <1>2, FirstMissingFacts
<1>4. \/ /\ Resolve(r, read_from_disk(r, LastOf[r], "data")) /\ UNCHANGED <<cold, sourceless>>
      \/ stale /\ start_recheck(r, again)
      \/ /\ next <= LastOf[r] /\ UNCHANGED <<cold, sourceless>>
         /\ IF now.spent >= piece_wait_window_secs(now)
            THEN Resolve(r, answer)
            ELSE Park(r, now) /\ readers' = readers
  BY ZenonT(60) DEF poll_piece_wait
<1>5. CASE Resolve(r, read_from_disk(r, LastOf[r], "data")) /\ UNCHANGED <<cold, sourceless>>
  <2>1. read_from_disk(r, LastOf[r], "data") \in Answers
    BY AnswerFacts, ZenonT(60) DEF Answers
  <2>2. QED
    BY <1>1, <1>5, <2>1, AnswerKeeps, ZenonT(60)
<1> HIDE DEF next
<1>6. ASSUME next <= LastOf[r]
      PROVE  /\ noted \in PendingRead /\ noted.current = next /\ next \in FirstOf[r]..LastOf[r]
             /\ noted.phase = "PieceWait" /\ noted.spent = rd[r].spent /\ noted.age = rd[r].age
             /\ noted.rewaits = rd[r].rewaits /\ noted.has_seeder = rd[r].has_seeder
             /\ noted.reader = rd[r].reader
  <2>1. next \in FirstOf[r]..LastOf[r] /\ next \in Pieces
    BY <1>2, <1>3, <1>6
  <2>2. /\ rec \in PendingRead /\ rec.current = next /\ rec.phase = "PieceWait"
        /\ rec.spent = rd[r].spent /\ rec.age = rd[r].age /\ rec.rewaits = rd[r].rewaits
        /\ rec.has_seeder = rd[r].has_seeder /\ rec.reader = rd[r].reader
    BY <1>1, <1>3 DEF PendingRead
  <2> HIDE DEF rec
  <2>3. QED
    BY <2>1, <2>2 DEF PendingRead
<1>7. CASE stale /\ start_recheck(r, again)
  <2>1. noted \in PendingRead /\ noted.current \in FirstOf[r]..LastOf[r] /\ noted.reader
    BY <1>1, <1>6, <1>7
  <2>2. start_recheck(r, again)
    BY <1>7
  <2> HIDE DEF noted
  <2>3. /\ again \in PendingRead /\ again.current = noted.current /\ again.rewaits = TRUE
        /\ again.reader = noted.reader
    BY <2>1, ZenonT(60) DEF PendingRead
  <2> HIDE DEF again
  <2>4. QED
    BY <1>1, <2>1, <2>2, <2>3, StartRecheckKeeps
<1>8. CASE /\ next <= LastOf[r] /\ UNCHANGED <<cold, sourceless>>
           /\ IF now.spent >= piece_wait_window_secs(now)
              THEN Resolve(r, answer)
              ELSE Park(r, now) /\ readers' = readers
  <2>1. /\ noted \in PendingRead /\ noted.current \in FirstOf[r]..LastOf[r]
        /\ noted.phase = "PieceWait" /\ noted.spent = rd[r].spent /\ noted.age = rd[r].age
        /\ noted.rewaits = rd[r].rewaits /\ noted.has_seeder = rd[r].has_seeder
        /\ noted.reader = rd[r].reader
    BY <1>6, <1>8
  <2>2. Status(t) \in {"unknown", "empty", "leechers", "seeds"}
    BY <1>1 DEF Status
  <2> HIDE DEF noted
  <2>3. Before(noted) = Before(rd[r]) /\ Window(noted) = Window(rd[r])
    BY <2>1 DEF Before, Window
  <2>4. Sound(r, noted, TRUE)
    BY <2>1, <2>3 DEF Sound
  <2>5. /\ Sound(r, now, TRUE) /\ now.phase = "PieceWait"
        /\ piece_wait_window_secs(now) <= Window(now) /\ piece_wait_window_secs(now) \in Nat
    BY <2>1, <2>2, <2>4, NoticeSeederKeeps, ZenonT(60)
  <2>6. now \in PendingRead
    BY <2>5 DEF Sound
  <2>7. CASE Resolve(r, answer)
    <3>1. answer \in Answers
      BY AnswerFacts, ZenonT(60)
    <3> HIDE DEF answer
    <3>2. QED
      BY <1>1, <1>8, <2>7, <3>1, AnswerKeeps, ZenonT(60)
  <2>8. CASE ~(now.spent >= piece_wait_window_secs(now)) /\ Park(r, now) /\ readers' = readers
    <3>1. Park(r, now)
      BY <2>8
    <3> HIDE DEF now
    <3>2. now.spent < Window(now)
      BY <2>5, <2>6, <2>8, RecordFields, BudgetFacts
    <3>3. Sound(r, now, Known(r, readers')) /\ InStep(now, cold'[t])
      BY <1>1, <2>5, <2>8 DEF Sound, InStep
    <3>4. QED
      BY <1>8, <2>8, <3>1, <3>2, <3>3, SameProbe, ParkedKeeps, ZenonT(60)
  <2>9. QED
    BY <1>8, <2>7, <2>8
<1>9. QED
  BY <1>4, <1>5, <1>7, <1>8

LEMMA PollReadKeeps ==
  ASSUME Typed, NEW r \in Reads, Sound(r, rd[r], Registered(r)),
         InStep(rd[r], cold[TorrentOf[r]]), poll_read(r)
  PROVE  OneRead(r) /\ (caller'[r] = "parked" => TorrentOf[r] \in handles)
<1>1. CASE TorrentOf[r] \notin handles \/ stopping
  <2>1. Resolve(r, "error") /\ UNCHANGED <<cold, sourceless>>
    BY <1>1, ZenonT(60) DEF poll_read
  <2>2. "error" \in Answers
    BY DEF Answers
  <2>3. caller'[r] = "error"
    BY <2>1, <2>2, ResolveKeeps
  <2>4. QED
    BY <2>1, <2>2, <2>3, AnswerKeeps, Zenon
<1>2. CASE TorrentOf[r] \in handles /\ ~stopping
  <2>1. Sound(r, rd[r], Known(r, readers))
    BY <1>2 DEF Sound, Registered, Known
  <2>2. rd[r].phase \in {"WaitState", "Recheck", "PeerWait", "PieceWait"}
    BY RecordFields DEF Sound
  <2>3. \/ rd[r].phase = "WaitState" /\ poll_wait_state(r)
        \/ rd[r].phase = "Recheck" /\ poll_recheck(r)
        \/ rd[r].phase = "PeerWait" /\ poll_peer_wait(r)
        \/ rd[r].phase = "PieceWait" /\ poll_piece_wait(r)
    BY <1>2, <2>2, ZenonT(60) DEF poll_read
  <2>4. QED
    BY <1>2, <2>1, <2>3, PollWaitStateKeeps, PollRecheckKeeps, PollPeerWaitKeeps, PollPieceWaitKeeps
<1>3. QED
  BY <1>1, <1>2

-----------------------------------------------------------------------------
(* A read starts.                                                           *)

LEMMA HandleTypes ==
  ASSUME Typed, NEW t \in Torrents, ensure_handle(t)
  PROVE  /\ handles' = handles \cup {t}
         /\ data' \in [Torrents -> [Pieces -> {"missing", "local", "stale"}]]
<1>1. data \in [Torrents -> [Pieces -> {"missing", "local", "stale"}]]
  BY DEF Typed, EngineTypeOK
<1>2. QED
  BY <1>1 DEF ensure_handle

LEMMA StartReadKeeps ==
  ASSUME Typed, NEW r \in Reads, r \notin readers, start_read(r)
  PROVE  /\ OneRead(r)
         /\ caller'[r] = "parked" => TorrentOf[r] \in handles'
         /\ handles \subseteq handles' /\ handles' \subseteq Torrents
         /\ data' \in [Torrents -> [Pieces -> {"missing", "local", "stale"}]]
         /\ StartPass(IF caller'[r] = "parked" THEN Append(parked, r) ELSE parked)
<1> DEFINE t == TorrentOf[r]
           rec == Fresh(r)
           now == [rec EXCEPT !.phase = "WaitState"]
<1>1. /\ t \in Torrents /\ handles \subseteq Torrents /\ cold \in [Torrents -> Flights]
      /\ data \in [Torrents -> [Pieces -> {"missing", "local", "stale"}]]
      /\ sourceless \in [Torrents -> Verdicts]
      /\ swarm \in [Torrents -> {"empty", "leechers", "seeds"}]
  BY RangeFacts DEF Typed, EngineTypeOK
<1>2. /\ rec \in PendingRead /\ rec.spent = 0 /\ rec.age = 0 /\ rec.current = FirstOf[r]
      /\ ~rec.has_seeder /\ ~rec.rewaits /\ ~rec.reader
  BY <1>1, FreshFacts
<1>3. FirstOf[r] \in FirstOf[r]..LastOf[r]
  BY RangeFacts
<1> HIDE DEF rec
<1>4. /\ now \in PendingRead /\ now.phase = "WaitState" /\ now.spent = 0 /\ now.age = 0
      /\ now.current = FirstOf[r] /\ now.has_seeder = rec.has_seeder
      /\ now.reader = rec.reader
  BY <1>2 DEF PendingRead
<1> HIDE DEF now
<1>5. Before(now) = 0 /\ Window(now) = ReadTimeout + 1
  BY <1>4 DEF Before, Window
<1>6. /\ now.spent < Window(now) /\ Sound(r, now, Known(r, readers))
      /\ \A flight : InStep(now, flight)
  BY <1>2, <1>3, <1>4, <1>5, WindowFacts DEF Sound, InStep
<1>7. CASE Refused(r, "error")
  <2>1. /\ Resolve(r, "error") /\ UNCHANGED <<cold, sourceless, handles, data>> /\ StartPass(parked)
    BY <1>7 DEF Refused
  <2>2. "error" \in Answers
    BY DEF Answers
  <2>3. OneRead(r)
    BY <2>1, <2>2, AnswerKeeps, Zenon
  <2>4. caller'[r] = "error"
    BY <2>1, <2>2, ResolveKeeps
  <2>5. QED
    BY <1>1, <2>1, <2>3, <2>4
<1>8. CASE StartOnNewHandle(r)
  <2>1. /\ ensure_handle(t) /\ sourceless' = [sourceless EXCEPT ![t] = None]
        /\ Park(r, now) /\ StartPass(Append(parked, r)) /\ UNCHANGED <<readers, cold>>
    BY <1>8 DEF StartOnNewHandle, now, rec
  <2>2. /\ handles' = handles \cup {t}
        /\ data' \in [Torrents -> [Pieces -> {"missing", "local", "stale"}]]
    BY <1>1, <2>1, HandleTypes
  <2>3. ProbeTypes /\ ColdKept
    BY <1>1, <2>1 DEF ProbeTypes, ColdKept, Verdicts, Typed, AnnouncedOnce
  <2>4. Sound(r, now, Known(r, readers'))
    BY <1>6, <2>1
  <2>5. OneRead(r)
    BY <1>6, <2>1, <2>3, <2>4, ParkedKeeps
  <2>6. caller'[r] = "parked"
    BY <1>4, <2>1, ParkKeeps
  <2>7. QED
    BY <1>1, <2>1, <2>2, <2>5, <2>6, Zenon
<1>9. CASE StartOnHandle(r)
  <2>1. /\ t \in handles /\ UNCHANGED <<handles, data>>
        /\ StartPass(IF caller'[r] = "parked" THEN Append(parked, r) ELSE parked)
        /\ \/ Park(r, now) /\ UNCHANGED <<readers, cold, sourceless>>
           \/ after_settling(r, rec)
    BY <1>9 DEF StartOnHandle, now, rec
  <2>2. CASE Park(r, now) /\ UNCHANGED <<readers, cold, sourceless>>
    <3>1. Sound(r, now, Known(r, readers'))
      BY <1>6, <2>2
    <3>2. OneRead(r)
      BY <1>6, <2>2, <3>1, SameProbe, ParkedKeeps
    <3>3. QED
      BY <1>1, <2>1, <3>2
  <2>3. CASE after_settling(r, rec)
    <3>1. rec.current \in FirstOf[r]..LastOf[r] /\ rec.age <= ReadTimeout
      BY <1>2, <1>3, WindowFacts
    <3>2. OneRead(r)
      BY <1>2, <2>3, <3>1, AfterSettlingKeeps
    <3>3. QED
      BY <1>1, <2>1, <3>2
  <2>4. QED
    BY <2>1, <2>2, <2>3
<1>10. QED
  BY <1>7, <1>8, <1>9 DEF start_read

-----------------------------------------------------------------------------
(* The queues.                                                              *)

LEMMA TailFacts ==
  ASSUME NEW S, NEW seq \in Seq(S), seq # <<>>, NoRepeats(seq)
  PROVE  /\ Head(seq) \in S /\ Head(seq) \in Range(seq)
         /\ Tail(seq) \in Seq(S) /\ NoRepeats(Tail(seq))
         /\ Range(Tail(seq)) = Range(seq) \ {Head(seq)}
<1>1. /\ Head(seq) \in S /\ Head(seq) = seq[1] /\ Len(seq) \in Nat /\ Len(seq) >= 1
      /\ Tail(seq) \in Seq(S) /\ Len(Tail(seq)) = Len(seq) - 1
      /\ \A i \in 1..(Len(seq) - 1) : Tail(seq)[i] = seq[i + 1]
      /\ DOMAIN seq = 1..Len(seq) /\ DOMAIN Tail(seq) = 1..(Len(seq) - 1)
  OBVIOUS
<1>2. Head(seq) \in Range(seq)
  BY <1>1 DEF Range
<1>3. NoRepeats(Tail(seq))
  <2> SUFFICES ASSUME NEW i \in 1..(Len(seq) - 1), NEW j \in 1..(Len(seq) - 1),
                      seq[i + 1] = seq[j + 1]
               PROVE  i = j
    BY <1>1 DEF NoRepeats
  <2>1. i + 1 \in 1..Len(seq) /\ j + 1 \in 1..Len(seq)
    BY <1>1
  <2>2. i + 1 = j + 1
    BY <2>1 DEF NoRepeats
  <2>3. QED
    BY <1>1, <2>2
<1>4. ASSUME NEW x \in Range(Tail(seq)) PROVE x \in Range(seq) /\ x # Head(seq)
  <2>1. PICK i \in 1..(Len(seq) - 1) : x = Tail(seq)[i]
    BY <1>1 DEF Range
  <2>2. x = seq[i + 1] /\ i + 1 \in 1..Len(seq) /\ 1 \in 1..Len(seq) /\ i + 1 # 1
    BY <1>1, <2>1
  <2>3. QED
    BY <1>1, <2>2 DEF Range, NoRepeats
<1>5. ASSUME NEW x \in Range(seq), x # Head(seq) PROVE x \in Range(Tail(seq))
  <2>1. PICK i \in 1..Len(seq) : x = seq[i]
    BY <1>1 DEF Range
  <2>2. i # 1
    BY <1>1, <1>5, <2>1
  <2>3. i - 1 \in 1..(Len(seq) - 1) /\ (i - 1) + 1 = i
    BY <1>1, <2>2
  <2>4. Tail(seq)[i - 1] = x
    BY <1>1, <2>1, <2>3
  <2>5. QED
    BY <1>1, <2>3, <2>4, ZenonT(60) DEF Range
<1>6. QED
  BY <1>1, <1>2, <1>3, <1>4, <1>5

LEMMA AppendFacts ==
  ASSUME NEW S, NEW seq \in Seq(S), NEW x \in S, NoRepeats(seq), x \notin Range(seq)
  PROVE  /\ Append(seq, x) \in Seq(S) /\ Append(seq, x) # <<>> /\ NoRepeats(Append(seq, x))
         /\ Range(Append(seq, x)) = Range(seq) \cup {x}
<1> DEFINE new == Append(seq, x)
<1>1. /\ new \in Seq(S) /\ new # <<>> /\ Len(new) = Len(seq) + 1 /\ Len(seq) \in Nat
      /\ new[Len(seq) + 1] = x /\ \A i \in 1..Len(seq) : new[i] = seq[i]
      /\ DOMAIN seq = 1..Len(seq) /\ DOMAIN new = 1..(Len(seq) + 1)
  OBVIOUS
<1> HIDE DEF new
<1>2. \A i \in 1..Len(seq) : seq[i] # x
  BY <1>1 DEF Range
<1>3. NoRepeats(new)
  <2> SUFFICES ASSUME NEW i \in 1..(Len(seq) + 1), NEW j \in 1..(Len(seq) + 1), new[i] = new[j]
               PROVE  i = j
    BY <1>1 DEF NoRepeats
  <2>1. (i \in 1..Len(seq) \/ i = Len(seq) + 1) /\ (j \in 1..Len(seq) \/ j = Len(seq) + 1)
    BY <1>1
  <2>2. QED
    BY <1>1, <1>2, <2>1 DEF NoRepeats
<1>4. Range(new) = Range(seq) \cup {x}
  <2>1. \A i \in 1..(Len(seq) + 1) : i \in 1..Len(seq) \/ i = Len(seq) + 1
    BY <1>1
  <2>2. \A i \in 1..Len(seq) : i \in 1..(Len(seq) + 1)
    BY <1>1
  <2>3. Len(seq) + 1 \in 1..(Len(seq) + 1)
    BY <1>1
  <2>4. QED
    BY <1>1, <2>1, <2>2, <2>3 DEF Range
<1>5. QED
  BY <1>1, <1>3, <1>4 DEF new

LEMMA EmptyFacts ==
  /\ \A S : <<>> \in Seq(S)
  /\ NoRepeats(<<>>) /\ Range(<<>>) = {}
BY DEF NoRepeats, Range
================================================================================
