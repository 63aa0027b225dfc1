--------------------------- MODULE OperationsProofs ---------------------------
(***************************************************************************)
(* Proofs about three parts that share no state: the start on a cache      *)
(* directory (CacheStart), when the engine publishes what `.stats` files   *)
(* show (ReaderDemand), and what it publishes (StatsSnapshot).             *)
(***************************************************************************)
EXTENDS CacheStart, ReaderDemand, StatsSnapshot, TLAPS

-----------------------------------------------------------------------------
(* ReaderDemand.  The engine's turns are at most SNAPSHOT_INTERVAL apart.   *)
(* A look is either still unseen or has opened a window that outlasts it,   *)
(* so a turn that begins while somebody looks regularly is watched; the     *)
(* turn after it publishes whenever its own last publish is old enough.     *)

DemandTypes ==
  /\ unseen \in BOOLEAN /\ parked \in BOOLEAN
  /\ until \in Nat /\ age \in Nat
  /\ turn \in [waited : 0..SNAPSHOT_INTERVAL, is_watched : BOOLEAN, published : 0..SNAPSHOT_INTERVAL]
  /\ watch \in [idle : Nat, steady : 0..Late]

LookedLately == watch.idle <= SNAPSHOT_INTERVAL

DemandInv ==
  /\ DemandTypes
  /\ LookedLately => unseen \/ until >= READER_DEMAND_TTL - watch.idle
  /\ watch.steady > 0 => LookedLately
  /\ watch.steady > turn.waited => turn.is_watched
  /\ turn.published < SNAPSHOT_INTERVAL => age <= turn.published
  /\ watch.steady > turn.waited + SNAPSHOT_INTERVAL => age < SNAPSHOT_INTERVAL + turn.waited

\* One turn of the loop, whatever event ends its wait.
LEMMA ServeKeeps ==
  ASSUME DemandInv, NEW event, Serve(event), parked' \in BOOLEAN, watch' = watch
  PROVE  DemandInv'
<1> DEFINE due == should_publish_after_command(event # "command", turn.is_watched, turn.published)
           published == IF due THEN 0 ELSE turn.published
<1>1. /\ turn.waited \in 0..SNAPSHOT_INTERVAL /\ turn.is_watched \in BOOLEAN
      /\ turn.published \in 0..SNAPSHOT_INTERVAL
      /\ watch.idle \in Nat /\ watch.steady \in 0..Late
      /\ until \in Nat /\ age \in Nat /\ unseen \in BOOLEAN
  BY DEF DemandInv, DemandTypes
<1>2. ~due => ~turn.is_watched \/ turn.published < SNAPSHOT_INTERVAL
  BY <1>1, DemandAssumption DEF should_publish_after_command
<1>3. /\ unseen' = FALSE
      /\ until' = IF unseen THEN READER_DEMAND_TTL ELSE until
      /\ turn' = [waited |-> 0, is_watched |-> until' > 0, published |-> published]
      /\ age' \in {0, IF due THEN 0 ELSE age}
  BY DEF Serve, refresh_reader_demand, advance_reader_demand, reader_demand_is_live
<1> HIDE DEF due
<1>4. /\ turn'.waited = 0 /\ turn'.is_watched = (until' > 0) /\ turn'.published = published
      /\ until' \in Nat /\ published \in 0..SNAPSHOT_INTERVAL /\ age' \in Nat
      /\ (until' > 0) \in BOOLEAN
  BY <1>1, <1>3, DemandAssumption
<1>5. DemandTypes'
  <2>1. turn' \in [waited : 0..SNAPSHOT_INTERVAL, is_watched : BOOLEAN,
                   published : 0..SNAPSHOT_INTERVAL]
    <3>1. 0 \in 0..SNAPSHOT_INTERVAL
      BY DemandAssumption
    <3>2. QED
      BY <1>3, <1>4, <3>1, Zenon
  <2>2. QED
    BY <1>3, <1>4, <2>1, Zenon DEF DemandInv, DemandTypes, Late
<1>6. LookedLately => until' >= READER_DEMAND_TTL - watch.idle
  BY <1>1, <1>3, DemandAssumption DEF DemandInv
<1>7. watch.steady > 0 => until' > 0
  BY <1>1, <1>4, <1>6, DemandAssumption DEF DemandInv, LookedLately
<1>8. turn'.published < SNAPSHOT_INTERVAL => age' <= turn'.published
  BY <1>1, <1>3, <1>4 DEF DemandInv
<1>9. watch.steady > SNAPSHOT_INTERVAL => age' < SNAPSHOT_INTERVAL
  BY <1>1, <1>2, <1>3, DemandAssumption DEF DemandInv
<1>10. watch.steady > turn'.waited => turn'.is_watched
  BY <1>4, <1>7, Zenon
<1>11. watch.steady > turn'.waited + SNAPSHOT_INTERVAL => age' < SNAPSHOT_INTERVAL + turn'.waited
  BY <1>1, <1>4, <1>9, DemandAssumption
<1>12. QED
  BY <1>5, <1>6, <1>8, <1>10, <1>11 DEF DemandInv, LookedLately

LEMMA DemandTickKeeps ==
  ASSUME DemandInv, DemandTick
  PROVE  DemandInv'
<1>1. /\ turn.waited \in 0..SNAPSHOT_INTERVAL /\ turn.is_watched \in BOOLEAN
      /\ turn.published \in 0..SNAPSHOT_INTERVAL
      /\ watch.idle \in Nat /\ watch.steady \in 0..Late
      /\ until \in Nat /\ age \in Nat /\ unseen \in BOOLEAN
  BY DEF DemandInv, DemandTypes
<1>2. turn' = [waited |-> turn.waited + 1, is_watched |-> turn.is_watched,
               published |-> Longer(turn.published, SNAPSHOT_INTERVAL)]
  BY Zenon DEF DemandTick, DemandInv, DemandTypes
<1>3. /\ turn.waited < SNAPSHOT_INTERVAL
      /\ turn'.waited = turn.waited + 1 /\ turn'.is_watched = turn.is_watched
      /\ turn'.published = IF turn.published < SNAPSHOT_INTERVAL THEN turn.published + 1
                           ELSE turn.published
  BY <1>2 DEF DemandTick, Longer
<1>4. /\ until' = IF until > 0 THEN until - 1 ELSE 0
      /\ age' = IF age < Late THEN age + 1 ELSE age
      /\ watch'.idle = IF watch.idle < Late THEN watch.idle + 1 ELSE watch.idle
      /\ watch'.steady = IF watch'.idle > SNAPSHOT_INTERVAL THEN 0
                         ELSE IF watch.steady < Late THEN watch.steady + 1 ELSE watch.steady
      /\ watch' = [idle |-> watch'.idle, steady |-> watch'.steady]
      /\ unseen' = unseen /\ parked' = parked
  BY DEF DemandTick, Longer
<1>5. Late \in Nat /\ Late > 2 * SNAPSHOT_INTERVAL
  BY DemandAssumption DEF Late
<1>6. DemandTypes'
  <2>1. /\ turn'.waited \in 0..SNAPSHOT_INTERVAL /\ turn'.published \in 0..SNAPSHOT_INTERVAL
        /\ watch'.idle \in Nat /\ watch'.steady \in 0..Late /\ until' \in Nat /\ age' \in Nat
    BY <1>1, <1>3, <1>4, <1>5, DemandAssumption
  <2>2. QED
    BY <1>1, <1>2, <1>3, <1>4, <2>1 DEF DemandInv, DemandTypes, Late
<1>7. LookedLately' => unseen' \/ until' >= READER_DEMAND_TTL - watch'.idle
  BY <1>1, <1>4, <1>5, DemandAssumption DEF DemandInv, LookedLately
<1>8. watch'.steady > 0 => LookedLately'
  BY <1>1, <1>4, <1>5, DemandAssumption DEF LookedLately
<1>9. watch'.steady > turn'.waited => turn'.is_watched
  BY <1>1, <1>3, <1>4, <1>5, DemandAssumption DEF DemandInv
<1>10. turn'.published < SNAPSHOT_INTERVAL => age' <= turn'.published
  BY <1>1, <1>3, <1>4, <1>5, DemandAssumption DEF DemandInv
<1>11. watch'.steady > turn'.waited + SNAPSHOT_INTERVAL => age' < SNAPSHOT_INTERVAL + turn'.waited
  BY <1>1, <1>3, <1>4, <1>5, DemandAssumption DEF DemandInv
<1>12. QED
  BY <1>6, <1>7, <1>8, <1>9, <1>10, <1>11 DEF DemandInv

LEMMA LookKeeps ==
  ASSUME DemandInv, mark_reader_demand
  PROVE  DemandInv'
<1>1. /\ watch'.idle = 0 /\ watch'.steady = watch.steady
      /\ watch' \in [idle : Nat, steady : 0..Late]
  BY DEF DemandInv, DemandTypes, mark_reader_demand
<1>2. QED
  BY <1>1, DemandAssumption DEF DemandInv, DemandTypes, LookedLately, mark_reader_demand, Late

LEMMA DemandStep ==
  ASSUME DemandInv, [DemandNext]_demandVars
  PROVE  DemandInv'
<1>1. CASE engine_loop
  <2>1. \E event \in {"command", "read", "timeout"} :
          Serve(event) /\ parked' \in BOOLEAN /\ watch' = watch
    BY <1>1, Zenon DEF engine_loop, DemandInv, DemandTypes
  <2>2. QED
    BY <2>1, ServeKeeps
<1>2. CASE mark_reader_demand
  BY <1>2, LookKeeps
<1>3. CASE DemandTick
  BY <1>3, DemandTickKeeps
<1>4. CASE UNCHANGED demandVars
  BY <1>4 DEF DemandInv, DemandTypes, LookedLately, demandVars, Late
<1>5. QED
  BY <1>1, <1>2, <1>3, <1>4 DEF DemandNext

\* A reader of `.stats` who looks at least once per SNAPSHOT_INTERVAL finds,
\* after two intervals, a snapshot less than two intervals old, for every
\* interval and every window of at least twice that (engine_loop,
\* refresh_reader_demand, should_publish_after_command).
THEOREM WatcherIsServed == DemandSpec => []WatcherSeesFresh
<1>1. DemandInit => DemandInv
  <2>1. 0 \in 0..SNAPSHOT_INTERVAL /\ Late \in Nat /\ 0 \in 0..Late /\ Late > SNAPSHOT_INTERVAL
    BY DemandAssumption DEF Late
  <2>2. ASSUME DemandInit PROVE DemandTypes
    <3>1. 0 \in Nat
      OBVIOUS
    <3>2. QED
      BY <2>1, <2>2, <3>1, Zenon DEF DemandInit, DemandTypes
  <2>3. ASSUME DemandInit
        PROVE  turn.waited = 0 /\ turn.published = 0 /\ watch.idle = Late /\ watch.steady = 0 /\ age = 0
    BY <2>3 DEF DemandInit
  <2>4. ASSUME DemandInit PROVE DemandInv
    BY <2>1, <2>2, <2>3, <2>4, DemandAssumption DEF DemandInv, LookedLately
  <2>5. QED
    BY <2>4
<1>2. DemandInv => WatcherSeesFresh
  <2>1. ASSUME DemandInv PROVE turn.waited \in 0..SNAPSHOT_INTERVAL /\ age \in Nat /\ watch.steady \in 0..Late
    BY <2>1 DEF DemandInv, DemandTypes
  <2>2. QED
    BY <2>1, DemandAssumption DEF DemandInv, WatcherSeesFresh, Late
<1>3. DemandInv /\ [DemandNext]_demandVars => DemandInv'
  BY DemandStep
<1>4. QED
  BY <1>1, <1>2, <1>3, PTL DEF DemandSpec

-----------------------------------------------------------------------------
(* StatsSnapshot.  A clock is never older than the handle it is measured    *)
(* on: one that is gone stops both, since its removal publishes, and a      *)
(* clock starts at 0 under a handle that is there.  A private torrent's     *)
(* handle always carries the flag, which keeps merge_trackers off its list. *)

StatsTypes ==
  /\ private \in BOOLEAN
  /\ held = [urls |-> held.urls, private |-> held.private, age |-> held.age]
  /\ held.age \in Nat \cup {Absent}
  /\ clock.empty \in Nat \cup {Absent} /\ clock.slow \in Nat \cup {Absent}

ClocksWithinHandle ==
  /\ held.age = Absent <=> held = NoHandle
  /\ clock.empty <= held.age /\ clock.slow <= held.age

PrivateHandles ==
  private /\ HasHandle => held.private = TRUE /\ \E info \in Infos : held.urls = TrackersOf[info]

\* What a publish leaves, and no later step without one takes away.
SnapIsBacked ==
  /\ snap.lived
  /\ ~HasHandle => snap.status = "unreadable" /\ snap.empty = Absent
  /\ snap.status # "unreadable" => snap.pieces.known = TRUE /\ snap.pieces.cached \in 0..PieceCount

StatsInv == StatsTypes /\ ClocksWithinHandle /\ PrivateHandles /\ SnapIsBacked

\* Publishing, with whatever handle the step left: one at least as old as the
\* clocks were measured on.
LEMMA PublishKeeps ==
  ASSUME StatsInv, NEW pending, publish_snapshot(pending), held'.age \in Nat \cup {Absent},
         held'.age = Absent <=> held' = NoHandle, held'.age = Absent \/ held.age <= held'.age
  PROVE  /\ clock'.empty \in Nat \cup {Absent} /\ clock'.slow \in Nat \cup {Absent}
         /\ clock'.empty <= held'.age /\ clock'.slow <= held'.age
         /\ SnapIsBacked'
<1>1. PICK status \in Status, now \in build_pieces_status :
        LET sampled == status # "unreadable"
            waits == aggregate_waiting_reads(pending)
            empty == advance_condition_since(clock.empty, sampled, status = "empty")
            slow == advance_condition_since(clock.slow, sampled, status = "stalled" /\ waits)
        IN /\ clock' = [empty |-> empty, slow |-> slow]
           /\ snap' = [status |-> status, pieces |-> now, waits |-> waits,
                       empty |-> empty, slow |-> slow,
                       lived |-> empty <= held'.age /\ slow <= held'.age]
  BY DEF publish_snapshot
<1> DEFINE waits == aggregate_waiting_reads(pending)
           empty == advance_condition_since(clock.empty, status # "unreadable", status = "empty")
           slow == advance_condition_since(clock.slow, status # "unreadable",
                                           status = "stalled" /\ waits)
<1>2. /\ clock'.empty = empty /\ clock'.slow = slow
      /\ snap'.status = status /\ snap'.pieces = now /\ snap'.empty = empty
      /\ snap'.lived = (empty <= held'.age /\ slow <= held'.age)
  BY <1>1
<1>3. status # "unreadable" => held' # NoHandle /\ now.known = TRUE /\ now.cached \in 0..PieceCount
  BY Zenon DEF Status, build_pieces_status
<1>4. held' = NoHandle => status = "unreadable"
  BY <1>3
<1>5. /\ empty \in {Absent} \cup (IF status = "unreadable" THEN {} ELSE {0, clock.empty})
      /\ slow \in {Absent} \cup (IF status = "unreadable" THEN {} ELSE {0, clock.slow})
  BY DEF advance_condition_since
<1> HIDE DEF empty, slow, waits
<1>6. /\ clock.empty \in Nat \cup {Absent} /\ clock.slow \in Nat \cup {Absent}
      /\ held.age \in Nat \cup {Absent} /\ clock.empty <= held.age /\ clock.slow <= held.age
  BY DEF StatsInv, StatsTypes, ClocksWithinHandle
<1>7. /\ empty \in Nat \cup {Absent} /\ slow \in Nat \cup {Absent}
      /\ empty <= held'.age /\ slow <= held'.age
  BY <1>3, <1>4, <1>5, <1>6 DEF Absent
<1>8. SnapIsBacked'
  BY <1>2, <1>3, <1>4, <1>5, <1>7, Zenon DEF SnapIsBacked, HasHandle
<1>9. QED
  BY <1>2, <1>7, <1>8

\* A command that makes a handle.
LEMMA EnsureKeeps ==
  ASSUME StatsInv, private' = private, NEW info \in Infos, ensure_handle(info)
  PROVE  /\ held' = [urls |-> held'.urls, private |-> held'.private, age |-> held'.age]
         /\ held'.age \in Nat \cup {Absent} /\ (held'.age = Absent <=> held' = NoHandle)
         /\ held.age <= held'.age
         /\ PrivateHandles'
<1>1. CASE held' = held
  BY <1>1 DEF StatsInv, StatsTypes, ClocksWithinHandle, PrivateHandles, HasHandle, Absent
<1>2. CASE ~HasHandle /\ \E flag \in is_private :
             held' = [urls |-> TrackersOf[info], private |-> flag, age |-> 0]
  <2>1. PICK flag \in is_private : held' = [urls |-> TrackersOf[info], private |-> flag, age |-> 0]
    BY <1>2
  <2>2. held'.urls = TrackersOf[info] /\ held'.private = flag /\ held'.age = 0
    BY <2>1
  <2>3. held' # NoHandle /\ held.age = -1
    BY <1>2, <2>2 DEF NoHandle, HasHandle
  <2>4. private => flag = TRUE
    BY DEF is_private
  <2>5. PrivateHandles'
    BY <2>2, <2>4 DEF PrivateHandles
  <2>6. QED
    BY <2>1, <2>2, <2>3, <2>5 DEF Absent
<1>3. QED
  BY <1>1, <1>2 DEF ensure_handle

LEMMA MergeKeeps ==
  ASSUME StatsInv, private' = private, NEW info \in Infos, merge_trackers(info)
  PROVE  /\ held' = [urls |-> held'.urls, private |-> held'.private, age |-> held'.age]
         /\ held'.age = held.age /\ (held'.age = Absent <=> held' = NoHandle)
         /\ PrivateHandles'
<1>1. CASE held' = held
  BY <1>1 DEF StatsInv, StatsTypes, ClocksWithinHandle, PrivateHandles, HasHandle
<1>2. CASE /\ HasHandle /\ ~held.private /\ FALSE \in is_private
           /\ held' = [held EXCEPT !.urls = @ \cup TrackersOf[info]]
  <2>1. held' = [urls |-> held.urls \cup TrackersOf[info], private |-> held.private, age |-> held.age]
    BY <1>2 DEF StatsInv, StatsTypes
  <2>2. held'.private = held.private /\ held'.age = held.age
    BY <2>1
  <2>3. held'.age # Absent /\ held' # NoHandle
    BY <1>2, <2>2 DEF StatsInv, ClocksWithinHandle, HasHandle, NoHandle, Absent
  <2>4. ~private
    BY <1>2, Zenon DEF is_private
  <2>5. QED
    BY <2>1, <2>2, <2>3, <2>4 DEF PrivateHandles
<1>3. QED
  BY <1>1, <1>2, Zenon DEF merge_trackers

\* A step that publishes.
LEMMA PublishingStep ==
  ASSUME StatsInv, private' = private, NEW pending, publish_snapshot(pending), PrivateHandles',
         held' = [urls |-> held'.urls, private |-> held'.private, age |-> held'.age],
         held'.age \in Nat \cup {Absent}, held'.age = Absent <=> held' = NoHandle,
         held'.age = Absent \/ held.age <= held'.age
  PROVE  StatsInv'
<1>1. private \in BOOLEAN
  BY DEF StatsInv, StatsTypes
<1>2. QED
  BY <1>1, PublishKeeps DEF StatsInv, StatsTypes, ClocksWithinHandle

LEMMA MutateKeeps ==
  ASSUME StatsInv, private' = private, Mutate
  PROVE  StatsInv'
<1>1. publish_snapshot(waiting)
  BY DEF Mutate
<1>2. CASE remove_handle
  <2>1. held' = NoHandle /\ held'.age = Absent
    BY <1>2 DEF remove_handle, NoHandle, Absent
  <2>2. PrivateHandles' /\ held' = [urls |-> held'.urls, private |-> held'.private, age |-> held'.age]
    BY <2>1 DEF PrivateHandles, HasHandle, NoHandle
  <2>3. QED
    BY <1>1, <2>1, <2>2, PublishingStep
<1>3. ASSUME NEW info \in Infos, ensure_handle(info) PROVE StatsInv'
  BY <1>1, <1>3, EnsureKeeps, PublishingStep
<1>4. ASSUME NEW info \in Infos, merge_trackers(info) PROVE StatsInv'
  <2>1. held.age \in Nat \cup {Absent}
    BY DEF StatsInv, StatsTypes
  <2>2. held.age <= held.age
    BY <2>1 DEF Absent
  <2>3. QED
    BY <1>1, <1>4, <2>1, <2>2, MergeKeeps, PublishingStep
<1>5. QED
  BY <1>2, <1>3, <1>4 DEF Mutate

LEMMA StartReadKeeps ==
  ASSUME StatsInv, private' = private, start_read
  PROVE  StatsInv'
<1>1. PICK info \in Infos : ensure_handle(info) /\ held' # NoHandle
  BY DEF start_read
<1>2. /\ held' = [urls |-> held'.urls, private |-> held'.private, age |-> held'.age]
      /\ held'.age \in Nat \cup {Absent} /\ (held'.age = Absent <=> held' = NoHandle)
      /\ held.age <= held'.age
      /\ PrivateHandles'
  BY <1>1, EnsureKeeps
<1>3. CASE publish_snapshot(waiting)
  BY <1>2, <1>3, PublishingStep
<1>4. CASE UNCHANGED <<clock, snap>>
  <2>1. /\ private \in BOOLEAN /\ held.age \in Nat \cup {Absent}
        /\ clock.empty \in Nat \cup {Absent} /\ clock.slow \in Nat \cup {Absent}
        /\ clock.empty <= held.age /\ clock.slow <= held.age
    BY DEF StatsInv, StatsTypes, ClocksWithinHandle
  <2>2. clock.empty <= held'.age /\ clock.slow <= held'.age
    BY <1>2, <2>1 DEF Absent
  <2>3. SnapIsBacked'
    BY <1>1, <1>4 DEF StatsInv, SnapIsBacked, HasHandle
  <2>4. QED
    BY <1>2, <1>4, <2>1, <2>2, <2>3 DEF StatsInv, StatsTypes, ClocksWithinHandle
<1>5. QED
  BY <1>3, <1>4 DEF start_read

\* Parked reads are polled, or the engine publishes on its own.
LEMMA SameHandleKeeps ==
  ASSUME StatsInv, private' = private, held' = held, NEW pending,
         publish_snapshot(pending) \/ UNCHANGED <<clock, snap>>
  PROVE  StatsInv'
<1>1. CASE publish_snapshot(pending)
  <2>1. held.age \in Nat \cup {Absent} /\ held.age <= held.age
    BY DEF StatsInv, StatsTypes, Absent
  <2>2. QED
    BY <1>1, <2>1, PublishingStep, Zenon
       DEF StatsInv, StatsTypes, ClocksWithinHandle, PrivateHandles, HasHandle
<1>2. CASE UNCHANGED <<clock, snap>>
  BY <1>2 DEF StatsInv, StatsTypes, ClocksWithinHandle, PrivateHandles, SnapIsBacked, HasHandle
<1>3. QED
  BY <1>1, <1>2

\* Time keeps the order of ages, and a clock that does not run does not start.
LEMMA OlderIsMonotone ==
  ASSUME NEW a \in Nat \cup {Absent}, NEW b \in Nat \cup {Absent}, a <= b
  PROVE  /\ Older(a) \in Nat \cup {Absent} /\ (Older(a) = Absent <=> a = Absent)
         /\ Older(a) <= Older(b)
BY DEF Older, Absent

LEMMA SecondKeeps ==
  ASSUME StatsInv, private' = private, SecondPasses
  PROVE  StatsInv'
<1>1. held' = [urls |-> held.urls, private |-> held.private, age |-> Older(held.age)]
  BY DEF SecondPasses, StatsInv, StatsTypes
<1>2. /\ held'.urls = held.urls /\ held'.private = held.private /\ held'.age = Older(held.age)
      /\ clock'.empty = Older(clock.empty) /\ clock'.slow = Older(clock.slow) /\ snap' = snap
  BY <1>1 DEF SecondPasses
<1>3. /\ held.age \in Nat \cup {Absent} /\ held.age <= held.age
      /\ clock.empty \in Nat \cup {Absent} /\ clock.slow \in Nat \cup {Absent}
      /\ clock.empty <= held.age /\ clock.slow <= held.age
  BY DEF StatsInv, StatsTypes, ClocksWithinHandle, Absent
<1>4. /\ held'.age \in Nat \cup {Absent} /\ (held'.age = Absent <=> held.age = Absent)
      /\ clock'.empty \in Nat \cup {Absent} /\ clock'.slow \in Nat \cup {Absent}
      /\ clock'.empty <= held'.age /\ clock'.slow <= held'.age
  BY <1>2, <1>3, OlderIsMonotone, Zenon
<1>5. held' = NoHandle <=> held = NoHandle
  <2>1. CASE held = NoHandle
    BY <1>1, <2>1 DEF NoHandle, Older, Absent
  <2>2. CASE held # NoHandle
    <3>1. held.age # Absent
      BY <2>2 DEF StatsInv, ClocksWithinHandle
    <3>2. QED
      BY <1>2, <1>4, <2>2, <3>1 DEF NoHandle, Absent
  <2>3. QED
    BY <2>1, <2>2
<1>6. QED
  BY <1>1, <1>2, <1>4, <1>5
     DEF StatsInv, StatsTypes, ClocksWithinHandle, PrivateHandles, SnapIsBacked, HasHandle

LEMMA StatsStep ==
  ASSUME StatsInv, [StatsNext]_statsVars
  PROVE  StatsInv'
<1>1. CASE private' = private /\ Mutate
  BY <1>1, MutateKeeps
<1>2. CASE private' = private /\ start_read
  BY <1>2, StartReadKeeps
<1>3. CASE private' = private /\ poll_pending_reads
  BY <1>3, SameHandleKeeps, Zenon DEF poll_pending_reads
<1>4. CASE private' = private /\ Publish
  BY <1>4, SameHandleKeeps DEF Publish
<1>5. CASE private' = private /\ SecondPasses
  BY <1>5, SecondKeeps
<1>6. CASE UNCHANGED statsVars
  BY <1>6 DEF statsVars, StatsInv, StatsTypes, ClocksWithinHandle, PrivateHandles, SnapIsBacked,
              HasHandle
<1>7. QED
  BY <1>1, <1>2, <1>3, <1>4, <1>5, <1>6 DEF StatsNext

LEMMA StatsInvariant == StatsSpec => []StatsInv
<1>1. StatsInit => StatsInv
  BY DEF StatsInit, StatsInv, StatsTypes, ClocksWithinHandle, PrivateHandles, SnapIsBacked,
         HasHandle, NoHandle, Absent
<1>2. StatsInv /\ [StatsNext]_statsVars => StatsInv'
  BY StatsStep
<1>3. QED
  BY <1>1, <1>2, PTL DEF StatsSpec

\* A private torrent's handle is announced to the trackers of one .torrent file
\* only, whatever files are added for its info_hash (ensure_handle,
\* merge_trackers).
THEOREM PrivateStaysIsolated == StatsSpec => []PrivateTrackersIsolated
<1>1. StatsInv => PrivateTrackersIsolated
  BY DEF StatsInv, PrivateHandles, PrivateTrackersIsolated
<1>2. QED
  BY <1>1, StatsInvariant, PTL

\* What `.stats` files report is backed by what was sampled, for any number of
\* pieces and any grace periods: alerts speak of times within the handle's life
\* and never of a complete torrent, and the files agree (publish_snapshot,
\* health_alert, torrent_line, summary_torrent_stats).
THEOREM ReportsAreBacked == StatsSpec => []ReportIsBacked
<1>1. ASSUME StatsInv PROVE ReportIsBacked
  <2> DEFINE torrent == generate_torrent_stats(snap)
             directory == generate_directory_stats(snap)
  <2>1. torrent.alert = health_alert(snap) /\ torrent.line = torrent_line(snap)
    BY DEF generate_torrent_stats
  <2>2. torrent.line.status = display_status(snap.pieces)
    BY <2>1 DEF torrent_line
  <2>3. torrent.line.progress = piece_progress(snap.pieces, snap.status # "unreadable")
    BY <2>1 DEF torrent_line
  <2>4. directory.list = torrent_line(snap) /\ directory.summary = summary_torrent_stats(snap)
    BY DEF generate_directory_stats
  <2>5. display_status(snap.pieces) = "Seeding" <=> is_download_complete(snap.pieces)
    BY DEF display_status
  <2>6. ASSUME health_alert(snap) \in {"slow swarm", "no peers"}
        PROVE  HasHandle /\ ~is_download_complete(snap.pieces)
    BY <1>1, <2>6, StatsAssumption DEF health_alert, StatsInv, SnapIsBacked, Absent
  <2>7. ASSUME snap.status # "unreadable"
        PROVE  /\ torrent_line(snap) = summary_torrent_stats(snap)
               /\ is_download_complete(snap.pieces)
                    <=> piece_progress(snap.pieces, snap.status # "unreadable") = PieceCount
    BY <1>1, <2>7 DEF torrent_line, summary_torrent_stats, piece_progress, is_download_complete,
                      StatsInv, SnapIsBacked
  <2>8. snap.lived
    BY <1>1 DEF StatsInv, SnapIsBacked
  <2> HIDE DEF torrent, directory
  <2>9. QED
    BY <2>1, <2>2, <2>3, <2>4, <2>5, <2>6, <2>7, <2>8, Zenon DEF ReportIsBacked, torrent, directory
<1>2. QED
  BY <1>1, StatsInvariant, PTL

-----------------------------------------------------------------------------
(* CacheStart.  A write in flight keeps its scratch file because the file   *)
(* bears the pid of a process that is alive, whichever pids were used       *)
(* before.  For a start that no other process disturbs, every phase leaves  *)
(* what the next one builds on: what the listing did not hold is not there, *)
(* and what it held is still there.                                         *)

Process ==
  [pc : {"clean", "migrate", "save", "rename"}, metadata : SUBSET PieceKeys, seq : Nat,
   entries : SUBSET PieceKeys, todo : SUBSET (PieceKeys \cup OtherNames \cup (Pids \X Nat)),
   alone : BOOLEAN, failed : SUBSET {"remove", "move"}]

StartTypes ==
  /\ flat \subseteq PieceKeys \cup OtherNames /\ pieces \subseteq PieceKeys
  /\ lines \subseteq PieceKeys \cup OtherNames
  /\ scratch \subseteq Pids \X Nat
  /\ cache \in [Pids -> Process \cup {Gone}]

WritesInFlight == \A p \in Pids : At(p, "rename") => scratch_file_name(p) \in scratch

MigratesPieces == \A p \in Pids : At(p, "migrate") => cache[p].todo \subseteq PieceKeys

Undisturbed(p) == ~At(p, "gone") /\ cache[p].alone

OthersGone == \A p, q \in Pids : Undisturbed(p) /\ q # p => At(q, "gone")

OwnScratchOnly(p) == \A name \in scratch : scratch_owner_pid(name) = p

\* What each phase of an undisturbed start has left.
PhaseDone(p) ==
  /\ At(p, "clean") =>
       \/ "remove" \in cache[p].failed
       \/ \A name \in scratch : scratch_owner_pid(name) = p \/ name \in cache[p].todo
  /\ At(p, "migrate") =>
       /\ "remove" \in cache[p].failed \/ OwnScratchOnly(p)
       /\ "move" \in cache[p].failed \/ flat \cap PieceKeys \subseteq cache[p].todo
       /\ cache[p].todo \subseteq flat
  /\ At(p, "save") /\ cache[p].seq = 0 =>
       /\ "remove" \in cache[p].failed \/ OwnScratchOnly(p)
       /\ "move" \in cache[p].failed \/ flat \cap PieceKeys = {}
       /\ cache[p].metadata = pieces

StartInv ==
  /\ StartTypes
  /\ WritesInFlight /\ MigratesPieces
  /\ OthersGone
  /\ \A p \in Pids : Undisturbed(p) => PhaseDone(p)

LEMMA ProcessFields ==
  ASSUME NEW r \in Process
  PROVE  /\ r.pc # "gone" /\ r # Gone
         /\ r.metadata \subseteq PieceKeys /\ r.entries \subseteq PieceKeys /\ r.seq \in Nat
         /\ r.alone \in BOOLEAN
         /\ r.todo \subseteq PieceKeys \cup OtherNames \cup (Pids \X Nat)
BY DEF Process, Gone

LEMMA RunningProcess ==
  ASSUME StartTypes, NEW p \in Pids
  PROVE  /\ At(p, "gone") <=> cache[p] = Gone
         /\ ~At(p, "gone") <=> cache[p] \in Process
<1>1. cache[p] \in Process \cup {Gone}
  BY DEF StartTypes
<1>2. Gone.pc = "gone"
  BY DEF Gone
<1>3. QED
  BY <1>1, <1>2, ProcessFields DEF At

\* A process that takes a step of its own is alone, or its step is watched by
\* no one who is: the others are gone, or do not count as undisturbed.
LEMMA StepOfOne ==
  ASSUME StartInv, NEW p \in Pids, ~At(p, "gone"), NEW r \in Process,
         Becomes(p, r), r.alone = cache[p].alone,
         flat' \subseteq PieceKeys \cup OtherNames, pieces' \subseteq PieceKeys,
         lines' \subseteq PieceKeys \cup OtherNames, scratch' \subseteq Pids \X Nat,
         \A q \in Pids : q # p /\ At(q, "rename") /\ scratch_file_name(q) \in scratch
                           => scratch_file_name(q) \in scratch',
         r.pc = "rename" => <<p, r.seq>> \in scratch',
         r.pc = "migrate" => r.todo \subseteq PieceKeys,
         Undisturbed(p) => PhaseDone(p)'
  PROVE  StartInv'
<1>1. cache \in [Pids -> Process \cup {Gone}]
  BY DEF StartInv, StartTypes
<1>2. /\ cache' \in [Pids -> Process \cup {Gone}]
      /\ cache'[p] = r /\ \A q \in Pids : q # p => cache'[q] = cache[q]
  BY <1>1 DEF Becomes
<1>3. StartTypes'
  BY <1>2 DEF StartTypes
<1>4. r.pc # "gone"
  BY ProcessFields
<1>5. WritesInFlight' /\ MigratesPieces'
  BY <1>2 DEF StartInv, WritesInFlight, MigratesPieces, At, scratch_file_name
<1>6. \A q \in Pids : Undisturbed(q)' <=> Undisturbed(q)
  BY <1>2, <1>4 DEF Undisturbed, At
<1>7. \A q \in Pids : At(q, "gone")' <=> At(q, "gone")
  BY <1>2, <1>4 DEF At
<1>8. OthersGone'
  BY <1>6, <1>7 DEF StartInv, OthersGone
<1>9. \A q \in Pids : Undisturbed(q) => q = p
  BY DEF StartInv, OthersGone
<1>10. QED
  BY <1>3, <1>5, <1>6, <1>8, <1>9 DEF StartInv

LEMMA LoadKeeps ==
  ASSUME StartInv, NEW p \in Pids, load_metadata_file(p)
  PROVE  StartInv'
<1> DEFINE new == [pc |-> "clean", metadata |-> {k \in lines : is_valid_piece_key(k)},
                   seq |-> 0, entries |-> {}, todo |-> scratch, failed |-> {},
                   alone |-> \A other \in Pids : At(other, "gone")]
<1>1. StartTypes
  BY DEF StartInv
<1>2. \A q \in Pids : q # p => cache'[q] = IF At(q, "gone") THEN Gone ELSE [cache[q] EXCEPT !.alone = FALSE]
  BY DEF load_metadata_file
<1>3. cache'[p] = new /\ DOMAIN cache' = Pids /\ cache' = [q \in Pids |-> cache'[q]]
  BY DEF load_metadata_file
<1>4. new \in Process
  <2>1. /\ {k \in lines : is_valid_piece_key(k)} \in SUBSET PieceKeys /\ {} \in SUBSET PieceKeys
        /\ scratch \in SUBSET (PieceKeys \cup OtherNames \cup (Pids \X Nat)) /\ 0 \in Nat
    BY <1>1 DEF StartTypes, is_valid_piece_key
  <2>2. (\A other \in Pids : At(other, "gone")) \in BOOLEAN
    OBVIOUS
  <2>3. QED
    BY <2>1, <2>2 DEF Process
<1>5. ASSUME NEW r \in Process
      PROVE  /\ [r EXCEPT !.alone = FALSE] \in Process
             /\ [r EXCEPT !.alone = FALSE].alone = FALSE
             /\ [r EXCEPT !.alone = FALSE].pc = r.pc /\ [r EXCEPT !.alone = FALSE].seq = r.seq
             /\ [r EXCEPT !.alone = FALSE].todo = r.todo
  BY Zenon DEF Process
<1>6. \A q \in Pids : q # p => /\ cache'[q] \in Process \cup {Gone}
                               /\ cache'[q].pc = cache[q].pc
                               /\ \/ At(q, "gone")
                                  \/ /\ cache'[q].seq = cache[q].seq /\ cache'[q].todo = cache[q].todo
                                     /\ cache'[q].alone = FALSE
  BY <1>1, <1>2, <1>5, RunningProcess, ZenonT(60) DEF At
<1>7. new.pc = "clean" /\ new.todo = scratch /\ new.alone = \A other \in Pids : At(other, "gone")
  OBVIOUS
<1> HIDE DEF new
<1>8. UNCHANGED <<flat, pieces, lines, scratch>>
  BY DEF load_metadata_file
<1>9. StartTypes'
  BY <1>1, <1>3, <1>4, <1>6, <1>8 DEF StartTypes
<1>10. \A q \in Pids : q # p => (At(q, "rename")' <=> At(q, "rename")) /\ (At(q, "gone")' <=> At(q, "gone"))
  BY <1>6 DEF At
<1>11. ~At(p, "rename")' /\ At(p, "clean")' /\ ~At(p, "gone")' /\ ~At(p, "migrate")' /\ ~At(p, "save")'
  BY <1>3, <1>7 DEF At
<1>12. WritesInFlight' /\ MigratesPieces'
  BY <1>6, <1>8, <1>10, <1>11 DEF StartInv, WritesInFlight, MigratesPieces, scratch_file_name, At
<1>13. \A q \in Pids : Undisturbed(q)' => q = p
  BY <1>6, <1>10 DEF Undisturbed
<1>14. Undisturbed(p)' => \A q \in Pids : At(q, "gone")
  BY <1>3, <1>7, Zenon DEF Undisturbed
<1>15. OthersGone'
  BY <1>10, <1>13, <1>14 DEF OthersGone
<1>16. PhaseDone(p)'
  BY <1>3, <1>7, <1>8, <1>11 DEF PhaseDone
<1>17. QED
  BY <1>9, <1>12, <1>13, <1>15, <1>16 DEF StartInv

LEMMA RemoveScratchKeeps ==
  ASSUME StartInv, NEW p \in Pids, remove_stale_metadata_scratch_file(p)
  PROVE  StartInv'
<1>1. PICK name \in cache[p].todo, refused \in SUBSET {"remove"} :
        /\ refused = {} => scratch' = IF process_is_alive(p, scratch_owner_pid(name))
                                       THEN scratch ELSE scratch \ {name}
        /\ refused # {} => scratch' = scratch
        /\ Becomes(p, [cache[p] EXCEPT !.todo = @ \ {name}, !.failed = @ \cup refused])
  <2>1. StartTypes /\ ~At(p, "gone")
    BY DEF StartInv, remove_stale_metadata_scratch_file, At
  <2>2. cache[p] \in Process
    BY <2>1, RunningProcess
  <2>3. \A name : [cache[p] EXCEPT !.todo = @ \ {name}]
                   = [cache[p] EXCEPT !.todo = @ \ {name}, !.failed = @ \cup {}]
    BY <2>2 DEF Process
  <2>4. {} \in SUBSET {"remove"} /\ {"remove"} \in SUBSET {"remove"} /\ {"remove"} # {}
    OBVIOUS
  <2>5. QED
    BY <2>3, <2>4, ZenonT(60) DEF remove_stale_metadata_scratch_file
<1> DEFINE r == [cache[p] EXCEPT !.todo = @ \ {name}, !.failed = @ \cup refused]
<1>2. StartTypes /\ At(p, "clean") /\ ~At(p, "gone") /\ UNCHANGED <<flat, pieces, lines>>
  BY DEF StartInv, remove_stale_metadata_scratch_file, At
<1>3. cache[p] \in Process
  BY <1>2, RunningProcess
<1>4. /\ r \in Process /\ r.alone = cache[p].alone /\ r.pc = cache[p].pc
      /\ r.todo = cache[p].todo \ {name} /\ r.failed = cache[p].failed \cup refused
  BY <1>3 DEF Process
<1>5. cache'[p] = r
  BY <1>1, <1>2 DEF Becomes, StartTypes
<1> HIDE DEF r
<1>6. ASSUME NEW q \in Pids, At(q, "rename"), scratch_file_name(q) \in scratch
      PROVE  scratch_file_name(q) \in scratch'
  <2>1. scratch_owner_pid(scratch_file_name(q)) = q
    BY DEF scratch_owner_pid, scratch_file_name
  <2>2. process_is_alive(p, q)
    BY <1>6 DEF process_is_alive, At
  <2>3. QED
    BY <1>1, <1>6, <2>1, <2>2
<1>7. ASSUME Undisturbed(p), "remove" \notin r.failed
      PROVE  \A n \in scratch' : scratch_owner_pid(n) = p \/ n \in r.todo
  <2>1. refused = {} /\ \A n \in scratch : scratch_owner_pid(n) = p \/ n \in cache[p].todo
    BY <1>2, <1>4, <1>7 DEF StartInv, PhaseDone
  <2>2. ASSUME scratch_owner_pid(name) # p, name \in scratch PROVE name \notin scratch'
    <3>1. scratch_owner_pid(name) \in Pids
      BY <1>2, <2>2 DEF StartTypes, scratch_owner_pid
    <3>2. At(scratch_owner_pid(name), "gone")
      BY <1>7, <2>2, <3>1 DEF StartInv, OthersGone
    <3>3. ~process_is_alive(p, scratch_owner_pid(name))
      BY <2>2, <3>2 DEF process_is_alive, At
    <3>4. QED
      BY <1>1, <2>1, <3>3
  <2>3. scratch' \subseteq scratch
    BY <1>1, <2>1
  <2>4. QED
    BY <1>4, <2>1, <2>2, <2>3
<1>8. ASSUME Undisturbed(p) PROVE PhaseDone(p)'
  <2>1. At(p, "clean")' /\ ~At(p, "migrate")' /\ ~At(p, "save")'
    BY <1>2, <1>4, <1>5 DEF At
  <2>2. QED
    BY <1>5, <1>7, <1>8, <2>1 DEF PhaseDone
<1>9. scratch' \subseteq Pids \X Nat /\ r.pc = "clean" /\ Becomes(p, r)
  BY <1>1, <1>2, <1>4 DEF StartTypes, At, r
<1>10. /\ flat' \subseteq PieceKeys \cup OtherNames /\ pieces' \subseteq PieceKeys
       /\ lines' \subseteq PieceKeys \cup OtherNames
  BY <1>2 DEF StartTypes
<1>11. QED
  BY <1>2, <1>4, <1>6, <1>8, <1>9, <1>10, StepOfOne, Zenon

LEMMA ListKeeps ==
  ASSUME StartInv, NEW p \in Pids, ListOldFiles(p)
  PROVE  StartInv'
<1> DEFINE r == [cache[p] EXCEPT !.pc = "migrate", !.todo = {k \in flat : is_valid_piece_key(k)}]
<1>1. StartTypes /\ At(p, "clean") /\ ~At(p, "gone") /\ UNCHANGED <<flat, pieces, lines, scratch>>
  BY DEF StartInv, ListOldFiles, At
<1>2. cache[p] \in Process
  BY <1>1, RunningProcess
<1>3. {k \in flat : is_valid_piece_key(k)} \in SUBSET (PieceKeys \cup OtherNames \cup (Pids \X Nat))
  BY <1>1 DEF StartTypes
<1>4. /\ r \in Process /\ r.alone = cache[p].alone /\ r.pc = "migrate"
      /\ r.todo = {k \in flat : is_valid_piece_key(k)} /\ r.todo \subseteq PieceKeys
      /\ r.failed = cache[p].failed
  BY <1>2, <1>3, Zenon DEF Process, is_valid_piece_key
<1>5. Becomes(p, r) /\ cache'[p] = r
  BY <1>1 DEF Becomes, StartTypes, ListOldFiles
<1> HIDE DEF r
<1>6. ASSUME Undisturbed(p) PROVE PhaseDone(p)'
  <2>1. "remove" \in r.failed \/ OwnScratchOnly(p)'
    BY <1>1, <1>4, <1>6 DEF StartInv, PhaseDone, OwnScratchOnly, ListOldFiles
  <2>2. flat' \cap PieceKeys \subseteq r.todo /\ r.todo \subseteq flat'
    BY <1>1, <1>4 DEF is_valid_piece_key
  <2>3. ~At(p, "clean")' /\ ~At(p, "save")'
    BY <1>4, <1>5 DEF At
  <2>4. QED
    BY <1>5, <2>1, <2>2, <2>3 DEF PhaseDone
<1>7. /\ flat' \subseteq PieceKeys \cup OtherNames /\ pieces' \subseteq PieceKeys
      /\ lines' \subseteq PieceKeys \cup OtherNames /\ scratch' \subseteq Pids \X Nat
  BY <1>1 DEF StartTypes
<1>8. QED
  BY <1>1, <1>4, <1>5, <1>6, <1>7, StepOfOne, Zenon

LEMMA MigrateKeeps ==
  ASSUME StartInv, NEW p \in Pids, migrate_old_cache_file(p)
  PROVE  StartInv'
<1>1. StartTypes /\ At(p, "migrate") /\ ~At(p, "gone") /\ UNCHANGED <<lines, scratch>>
  BY DEF StartInv, migrate_old_cache_file, At
<1>2. cache[p] \in Process
  BY <1>1, RunningProcess
<1>3. PICK k \in cache[p].todo, r \in Process :
        /\ Becomes(p, r) /\ r.alone = cache[p].alone /\ r.pc = cache[p].pc
        /\ \/ /\ k \in flat /\ flat' = flat \ {k} /\ pieces' = pieces \cup {k}
              /\ r.todo = cache[p].todo \ {k} /\ r.failed = cache[p].failed
           \/ /\ k \in flat /\ UNCHANGED <<flat, pieces>>
              /\ r.todo = {} /\ r.failed = cache[p].failed \cup {"move"}
           \/ /\ k \notin flat /\ UNCHANGED <<flat, pieces>>
              /\ r.todo = {} /\ r.failed = cache[p].failed
  <2>1. PICK k \in cache[p].todo :
          \/ /\ k \in flat /\ flat' = flat \ {k} /\ pieces' = pieces \cup {k}
             /\ Becomes(p, [cache[p] EXCEPT !.todo = @ \ {k}])
          \/ /\ k \in flat /\ UNCHANGED <<flat, pieces>>
             /\ Becomes(p, [cache[p] EXCEPT !.todo = {}, !.failed = @ \cup {"move"}])
          \/ /\ k \notin flat /\ UNCHANGED <<flat, pieces>>
             /\ Becomes(p, [cache[p] EXCEPT !.todo = {}])
    BY Zenon DEF migrate_old_cache_file
  <2> DEFINE a == [cache[p] EXCEPT !.todo = @ \ {k}]
             b == [cache[p] EXCEPT !.todo = {}, !.failed = @ \cup {"move"}]
             c == [cache[p] EXCEPT !.todo = {}]
  <2>2. /\ a \in Process /\ a.alone = cache[p].alone /\ a.pc = cache[p].pc
        /\ a.todo = cache[p].todo \ {k} /\ a.failed = cache[p].failed
    BY <1>2 DEF Process
  <2>3. /\ b \in Process /\ b.alone = cache[p].alone /\ b.pc = cache[p].pc
        /\ b.todo = {} /\ b.failed = cache[p].failed \cup {"move"}
    BY <1>2 DEF Process
  <2>4. /\ c \in Process /\ c.alone = cache[p].alone /\ c.pc = cache[p].pc
        /\ c.todo = {} /\ c.failed = cache[p].failed
    BY <1>2 DEF Process
  <2>5. \/ /\ k \in flat /\ flat' = flat \ {k} /\ pieces' = pieces \cup {k} /\ Becomes(p, a)
        \/ k \in flat /\ UNCHANGED <<flat, pieces>> /\ Becomes(p, b)
        \/ k \notin flat /\ UNCHANGED <<flat, pieces>> /\ Becomes(p, c)
    BY <2>1
  <2> HIDE DEF a, b, c
  <2>6. QED
    BY <2>2, <2>3, <2>4, <2>5, ZenonT(60)
<1>4. cache'[p] = r
  BY <1>1, <1>3, Zenon DEF Becomes, StartTypes
<1>5. k \in PieceKeys /\ r.todo \subseteq PieceKeys
  BY <1>1, <1>3 DEF StartInv, MigratesPieces
<1>6. /\ flat' \subseteq PieceKeys \cup OtherNames /\ pieces' \subseteq PieceKeys
      /\ lines' \subseteq PieceKeys \cup OtherNames /\ scratch' \subseteq Pids \X Nat
  BY <1>1, <1>3, <1>5 DEF StartTypes
<1>7. ASSUME Undisturbed(p) PROVE PhaseDone(p)'
  <2>1. /\ "remove" \in cache[p].failed \/ OwnScratchOnly(p)
        /\ "move" \in cache[p].failed \/ flat \cap PieceKeys \subseteq cache[p].todo
        /\ cache[p].todo \subseteq flat
    BY <1>1, <1>7 DEF StartInv, PhaseDone
  <2>2. /\ "move" \in r.failed \/ flat' \cap PieceKeys \subseteq r.todo
        /\ r.todo \subseteq flat' /\ cache[p].failed \subseteq r.failed
    BY <1>3, <2>1
  <2>3. "remove" \in r.failed \/ OwnScratchOnly(p)'
    BY <1>1, <2>1, <2>2 DEF OwnScratchOnly
  <2>4. ~At(p, "clean")' /\ ~At(p, "save")'
    BY <1>1, <1>3, <1>4 DEF At
  <2>5. QED
    BY <1>4, <2>2, <2>3, <2>4 DEF PhaseDone
<1>8. r.pc # "rename" /\ scratch' = scratch
  BY <1>1, <1>3 DEF At
<1>9. QED
  BY <1>1, <1>3, <1>5, <1>6, <1>7, <1>8, StepOfOne, Zenon

LEMMA ScanKeeps ==
  ASSUME StartInv, NEW p \in Pids, scan_cache_directory(p)
  PROVE  StartInv'
<1> DEFINE r == [cache[p] EXCEPT !.pc = "save", !.metadata = pieces]
<1>1. StartTypes /\ At(p, "migrate") /\ ~At(p, "gone") /\ UNCHANGED <<flat, pieces, lines, scratch>>
  BY DEF StartInv, scan_cache_directory, At
<1>2. cache[p] \in Process /\ pieces \in SUBSET PieceKeys
  BY <1>1, RunningProcess DEF StartTypes
<1>3. /\ r \in Process /\ r.alone = cache[p].alone /\ r.pc = "save" /\ r.metadata = pieces
      /\ r.failed = cache[p].failed
  BY <1>2, Zenon DEF Process
<1>4. Becomes(p, r) /\ cache'[p] = r
  BY <1>1 DEF Becomes, StartTypes, scan_cache_directory
<1> HIDE DEF r
<1>5. ASSUME Undisturbed(p) PROVE PhaseDone(p)'
  <2>1. /\ "remove" \in cache[p].failed \/ OwnScratchOnly(p)
        /\ "move" \in cache[p].failed \/ flat \cap PieceKeys = {}
    BY <1>1, <1>5 DEF StartInv, PhaseDone, scan_cache_directory
  <2>2. /\ "remove" \in r.failed \/ OwnScratchOnly(p)'
        /\ "move" \in r.failed \/ flat' \cap PieceKeys = {}
    BY <1>1, <1>3, <2>1 DEF OwnScratchOnly
  <2>3. ~At(p, "clean")' /\ ~At(p, "migrate")'
    BY <1>3, <1>4 DEF At
  <2>4. QED
    BY <1>1, <1>3, <1>4, <2>2, <2>3 DEF PhaseDone
<1>6. /\ flat' \subseteq PieceKeys \cup OtherNames /\ pieces' \subseteq PieceKeys
      /\ lines' \subseteq PieceKeys \cup OtherNames /\ scratch' \subseteq Pids \X Nat
  BY <1>1 DEF StartTypes
<1>7. QED
  BY <1>1, <1>3, <1>4, <1>5, <1>6, StepOfOne, Zenon

LEMMA CreateKeeps ==
  ASSUME StartInv, NEW p \in Pids, CreateScratch(p)
  PROVE  StartInv'
<1> DEFINE r == [cache[p] EXCEPT !.pc = "rename", !.entries = cache[p].metadata]
<1>1. StartTypes /\ At(p, "save") /\ ~At(p, "gone") /\ UNCHANGED <<flat, pieces, lines>>
  BY DEF StartInv, CreateScratch, At
<1>2. cache[p] \in Process /\ cache[p].seq \in Nat
  BY <1>1, RunningProcess, ProcessFields
<1>3. r \in Process /\ r.alone = cache[p].alone /\ r.pc = "rename" /\ r.seq = cache[p].seq
  BY <1>2, Zenon DEF Process
<1>4. Becomes(p, r) /\ cache'[p] = r
  BY <1>1 DEF Becomes, StartTypes, CreateScratch
<1> HIDE DEF r
<1>5. scratch' = scratch \cup {<<p, cache[p].seq>>}
  BY DEF CreateScratch, scratch_file_name
<1>6. PhaseDone(p)'
  BY <1>3, <1>4 DEF PhaseDone, At
<1>7. /\ flat' \subseteq PieceKeys \cup OtherNames /\ pieces' \subseteq PieceKeys
      /\ lines' \subseteq PieceKeys \cup OtherNames /\ scratch' \subseteq Pids \X Nat
  BY <1>1, <1>2, <1>5 DEF StartTypes
<1>8. QED
  BY <1>1, <1>3, <1>4, <1>5, <1>6, <1>7, StepOfOne, Zenon

LEMMA RenameKeeps ==
  ASSUME StartInv, NEW p \in Pids, RenameScratch(p)
  PROVE  StartInv'
<1> DEFINE next == cache[p].seq + 1
           r == [cache[p] EXCEPT !.pc = "save", !.seq = next]
<1>1. StartTypes /\ At(p, "rename") /\ ~At(p, "gone") /\ UNCHANGED <<flat, pieces>>
  BY DEF StartInv, RenameScratch, At
<1>2. cache[p] \in Process /\ cache[p].seq \in Nat /\ cache[p].entries \subseteq PieceKeys
  BY <1>1, RunningProcess, ProcessFields
<1>3. Becomes(p, r) /\ next \in Nat /\ next # 0
  BY <1>2 DEF Becomes, RenameScratch
<1> HIDE DEF next
<1>4. /\ r \in Process /\ r.alone = cache[p].alone /\ r.pc = "save" /\ r.seq = next
      /\ cache'[p] = r
  BY <1>1, <1>2, <1>3, Zenon DEF Process, Becomes, StartTypes
<1> HIDE DEF r
<1>5. scratch' = scratch \ {<<p, cache[p].seq>>}
  BY DEF RenameScratch, scratch_file_name
<1>6. ASSUME NEW q \in Pids, q # p, scratch_file_name(q) \in scratch
      PROVE  scratch_file_name(q) \in scratch'
  BY <1>5, <1>6 DEF scratch_file_name
<1>7. PhaseDone(p)'
  BY <1>2, <1>3, <1>4 DEF PhaseDone, At
<1>8. /\ flat' \subseteq PieceKeys \cup OtherNames /\ pieces' \subseteq PieceKeys
      /\ lines' \subseteq PieceKeys \cup OtherNames /\ scratch' \subseteq Pids \X Nat
  BY <1>1, <1>2, <1>5 DEF StartTypes, RenameScratch
<1>9. QED
  BY <1>1, <1>3, <1>4, <1>6, <1>7, <1>8, StepOfOne, Zenon

LEMMA ChangeKeeps ==
  ASSUME StartInv, NEW p \in Pids, NEW k \in PieceKeys, ChangePieces(p, k)
  PROVE  StartInv'
<1> DEFINE with == IF k \in cache[p].metadata THEN cache[p].metadata \ {k}
                   ELSE cache[p].metadata \cup {k}
           r == [cache[p] EXCEPT !.metadata = with]
<1>1. /\ StartTypes /\ At(p, "save") /\ ~At(p, "gone") /\ cache[p].seq > 0
      /\ UNCHANGED <<flat, lines, scratch>>
  BY DEF StartInv, ChangePieces, At
<1>2. cache[p] \in Process /\ cache[p].seq \in Nat /\ cache[p].metadata \subseteq PieceKeys
  BY <1>1, RunningProcess, ProcessFields
<1>3. with \in SUBSET PieceKeys
  BY <1>2
<1>4. Becomes(p, r)
  BY DEF Becomes, ChangePieces
<1> HIDE DEF with
<1>5. r \in Process /\ r.alone = cache[p].alone /\ r.pc = cache[p].pc /\ r.seq = cache[p].seq
  BY <1>2, <1>3 DEF Process
<1> HIDE DEF r
<1>6. PhaseDone(p)'
  <2>1. cache'[p] = r
    BY <1>1, <1>4 DEF Becomes, StartTypes
  <2>2. QED
    BY <1>1, <1>2, <1>5, <2>1 DEF PhaseDone, At
<1>7. /\ flat' \subseteq PieceKeys \cup OtherNames /\ pieces' \subseteq PieceKeys
      /\ lines' \subseteq PieceKeys \cup OtherNames /\ scratch' \subseteq Pids \X Nat
  BY <1>1 DEF StartTypes, ChangePieces
<1>8. r.pc = "save"
  BY <1>1, <1>5 DEF At
<1>9. QED
  BY <1>1, <1>4, <1>5, <1>6, <1>7, <1>8, StepOfOne, Zenon

LEMMA KillKeeps ==
  ASSUME StartInv, NEW p \in Pids, Kill(p)
  PROVE  StartInv'
<1>1. StartTypes /\ UNCHANGED <<flat, pieces, lines, scratch>>
  BY DEF StartInv, Kill
<1>2. /\ cache' \in [Pids -> Process \cup {Gone}]
      /\ cache'[p] = Gone /\ \A q \in Pids : q # p => cache'[q] = cache[q]
  BY <1>1 DEF StartTypes, Kill, Becomes
<1>3. At(p, "gone")' /\ ~At(p, "rename")' /\ ~At(p, "migrate")'
  BY <1>2 DEF At, Gone
<1>4. StartTypes' /\ WritesInFlight' /\ MigratesPieces'
  BY <1>1, <1>2, <1>3 DEF StartInv, StartTypes, WritesInFlight, MigratesPieces, At, scratch_file_name
<1>5. \A q \in Pids : Undisturbed(q)' => q # p /\ Undisturbed(q)
  BY <1>2, <1>3 DEF Undisturbed, At
<1>6. \A q \in Pids : At(q, "gone") => At(q, "gone")'
  BY <1>2, <1>3 DEF At
<1>7. OthersGone'
  BY <1>5, <1>6 DEF StartInv, OthersGone
<1>8. \A q \in Pids : q # p /\ PhaseDone(q) => PhaseDone(q)'
  BY <1>1, <1>2 DEF PhaseDone, OwnScratchOnly, At
<1>9. QED
  BY <1>4, <1>5, <1>7, <1>8 DEF StartInv

LEMMA StartStep ==
  ASSUME StartInv, [StartNext]_startVars
  PROVE  StartInv'
<1>1. CASE UNCHANGED startVars
  BY <1>1 DEF startVars, StartInv, StartTypes, WritesInFlight, MigratesPieces, OthersGone,
              Undisturbed, PhaseDone, OwnScratchOnly, At, scratch_file_name
<1>2. CASE StartNext
  <2>1. PICK p \in Pids :
          \/ load_metadata_file(p) \/ remove_stale_metadata_scratch_file(p) \/ ListOldFiles(p)
          \/ migrate_old_cache_file(p) \/ scan_cache_directory(p)
          \/ CreateScratch(p) \/ RenameScratch(p) \/ Kill(p)
          \/ \E k \in PieceKeys : ChangePieces(p, k)
    BY <1>2 DEF StartNext
  <2>2. QED
    BY <2>1, LoadKeeps, RemoveScratchKeeps, ListKeeps, MigrateKeeps, ScanKeeps, CreateKeeps,
       RenameKeeps, KillKeeps, ChangeKeeps
<1>3. QED
  BY <1>1, <1>2

\* For any number of processes on one cache directory: no start makes a running
\* process lose a metadata write, and an undisturbed start registers exactly the
\* piece files, whatever the file system refuses it and whatever earlier starts
\* were killed over (CacheManager::new, rebuild_index,
\* remove_stale_metadata_scratch_files, MetadataWriter).
THEOREM EveryStartInOrder == StartSpec => []StartsInOrder
<1>1. StartInit => StartInv
  <2>1. ASSUME StartInit PROVE \A p \in Pids : At(p, "gone") /\ ~At(p, "rename") /\ ~At(p, "migrate")
    BY <2>1 DEF StartInit, At, Gone
  <2>2. QED
    BY <2>1 DEF StartInit, StartInv, StartTypes, WritesInFlight, MigratesPieces, OthersGone,
                Undisturbed
<1>2. StartInv /\ [StartNext]_startVars => StartInv'
  BY StartStep
<1>3. StartInv => StartsInOrder
  BY DEF StartInv, StartsInOrder, WritesInFlight, Undisturbed, PhaseDone, OwnScratchOnly, At
<1>4. QED
  BY <1>1, <1>2, <1>3, PTL DEF StartSpec
=============================================================================
