------------------------------- MODULE Downloads -------------------------------
(***************************************************************************)
(* The way of a piece from "wanted" to "finished": libtorrent fetches what *)
(* the scheduler asks for and posts an alert, the alert consumer's thread  *)
(* (alert.rs) forwards it over a channel, and the engine's thread          *)
(* registers the piece and stops asking for it.  Reads come and go,        *)
(* pieces are evicted, and rechecks clear the bits of evicted ones, at any *)
(* point of this way.                                                      *)
(*                                                                         *)
(* Why a read waits, and for how long, is EngineReads' subject: here a     *)
(* waiting read may give up at any time.  So is eviction CacheManager's.   *)
(***************************************************************************)
EXTENDS PieceScheduler

CONSTANT MaxMishaps   \* evictions, removals, timeouts and stops per behaviour

VARIABLES
  sched,      \* the scheduler's record
  have,       \* pieces libtorrent believes it has
  disk,       \* pieces whole on disk
  complete,   \* pieces the cache holds as registered-complete
  checking,   \* libtorrent is checking files
  reading,    \* read -> "idle", "recheck", "waiting" or "done"
  posted,     \* completions in libtorrent's alert queue
  flag,       \* NotifyState.flag
  consumer,   \* where the consumer's thread is
  channel,    \* completions sent and not yet received
  engine,     \* "up", "joining" or "down"
  missed,     \* pieces evicted at a moment the scheduler never learns of
  mishaps

downloadVars == <<sched, have, disk, complete, checking, reading, posted, flag,
                  consumer, channel, engine, missed, mishaps>>
alertVars == <<posted, flag, consumer, channel>>

DownloadsInit ==
  /\ sched = Unknown
  /\ have = {} /\ disk = {} /\ complete = {}
  /\ checking = FALSE
  /\ reading = [r \in Reads |-> "idle"]
  /\ posted = {} /\ channel = {}
  /\ flag = FALSE
  /\ consumer = "drain"
  /\ engine = "up"
  /\ missed = {}
  /\ mishaps = 0

Mishap == mishaps < MaxMishaps /\ mishaps' = mishaps + 1

OnItsWay == posted \cup channel

stale_pieces_in_range(r) == (RangeOf[r] \cap have) \ disk

all_pieces_local(r) == RangeOf[r] \subseteq have \cap disk

-----------------------------------------------------------------------------
(* Reads, on the engine's thread.                                           *)

\* read_from_disk registers what the cache does not hold yet.
ServeFromDisk(r, s) ==
  /\ complete' = complete \cup RangeOf[r]
  /\ sched' = piece_ready(s, RangeOf[r] \ complete)
  /\ reading' = [reading EXCEPT ![r] = "done"]

\* Serve, or fail on a probe's verdict, or register the reader and wait.
begin_waiting(r, s) ==
  \/ all_pieces_local(r) /\ ServeFromDisk(r, s)
  \/ /\ ~all_pieces_local(r)
     /\ reading' = [reading EXCEPT ![r] = "done"]
     /\ sched' = s
     /\ complete' = complete
  \/ /\ ~all_pieces_local(r)
     /\ reading' = [reading EXCEPT ![r] = "waiting"]
     /\ sched' = reader_added(s, r, complete)
     /\ complete' = complete

start_recheck(r) ==
  /\ sched' = ForceRecheck(sched)
  /\ checking' = TRUE
  /\ reading' = [reading EXCEPT ![r] = "recheck"]
  /\ complete' = complete

StartRead(r) ==
  /\ engine = "up" /\ sched.known /\ ~checking
  /\ reading[r] = "idle"
  /\ \/ stale_pieces_in_range(r) # {} /\ start_recheck(r)
     \/ stale_pieces_in_range(r) = {} /\ begin_waiting(r, sched) /\ checking' = checking
  /\ UNCHANGED <<have, disk, alertVars, engine, missed, mishaps>>

\* Mutant: the recheck's reset is not noted.
FinishUnmarked(r) ==
  IF r \in sched.readers
  THEN /\ sched' = recompute(sched, complete)
       /\ reading' = [reading EXCEPT ![r] = "waiting"]
       /\ complete' = complete
  ELSE begin_waiting(r, sched)

finish_recheck(r) ==
  LET s == mark_priorities_dirty(sched) IN
  IF r \in s.readers
  THEN /\ sched' = recompute(s, complete)
       /\ reading' = [reading EXCEPT ![r] = "waiting"]
       /\ complete' = complete
  ELSE begin_waiting(r, s)

\* The check has ended, or the read's window for it.
PollRecheck(r) ==
  /\ engine = "up"
  /\ reading[r] = "recheck"
  /\ IF checking THEN Mishap ELSE mishaps' = mishaps
  /\ finish_recheck(r)
  /\ UNCHANGED <<have, disk, checking, alertVars, engine, missed>>

\* The pieces of a range before the first one that is missing.
LocalPrefix(r) ==
  {p \in RangeOf[r] : \A q \in RangeOf[r] : q <= p => q \in have \cap disk}

\* read_timed_out: the prefix is served and recorded, unless a piece of it has
\* gone since the read passed it.
ServePrefix(r) ==
  \E served \in {{}, LocalPrefix(r)} :
    /\ complete' = complete \cup served
    /\ sched' = reader_released(piece_ready(sched, served \ complete), r, complete')
    /\ reading' = [reading EXCEPT ![r] = "done"]

PollPieceWait(r) ==
  /\ engine = "up"
  /\ reading[r] = "waiting"
  /\ \/ /\ all_pieces_local(r)
        /\ complete' = complete \cup RangeOf[r]
        /\ sched' = reader_released(piece_ready(sched, RangeOf[r] \ complete), r, complete')
        /\ reading' = [reading EXCEPT ![r] = "done"]
        /\ UNCHANGED <<checking, mishaps>>
     \/ stale_pieces_in_range(r) # {} /\ start_recheck(r) /\ mishaps' = mishaps
     \/ ~all_pieces_local(r) /\ Mishap /\ ServePrefix(r) /\ checking' = checking
  /\ UNCHANGED <<have, disk, alertVars, engine, missed>>

\* A later read of the same range.
ReadAgain(r) ==
  /\ reading[r] = "done"
  /\ Mishap
  /\ reading' = [reading EXCEPT ![r] = "idle"]
  /\ UNCHANGED <<sched, have, disk, complete, checking, alertVars, engine, missed>>

\* ensure_handle; libtorrent checks what is on disk.
AddHandle ==
  /\ engine = "up" /\ ~sched.known
  /\ sched' = init_torrent(sched)
  /\ checking' = TRUE
  /\ UNCHANGED <<have, disk, complete, reading, alertVars, engine, missed, mishaps>>

\* remove_handle; the poll that follows the command answers the parked reads.
RemoveHandle ==
  /\ engine = "up" /\ sched.known
  /\ Mishap
  /\ sched' = Unknown
  /\ reading' = [r \in Reads |-> IF reading[r] = "idle" THEN "idle" ELSE "done"]
  /\ have' = {} /\ checking' = FALSE
  /\ UNCHANGED <<disk, complete, alertVars, engine, missed>>

-----------------------------------------------------------------------------
(* libtorrent and the cache.                                                *)

\* notify_cb: set the flag and wake whoever is blocked; no lock is taken.
notify_cb ==
  /\ flag' = TRUE
  /\ consumer' = IF consumer = "blocked" THEN "woken" ELSE consumer

\* External: a wanted piece arrives and its alert is posted; the hook is
\* called when the queue was empty.
Download(p) ==
  /\ engine = "up" /\ sched.known /\ ~checking
  /\ sched.asked[p] > 0 /\ p \notin have
  /\ have' = have \cup {p} /\ disk' = disk \cup {p}
  /\ missed' = missed \ {p}
  /\ posted' = posted \cup {p}
  /\ IF posted = {} THEN notify_cb ELSE UNCHANGED <<flag, consumer>>
  /\ UNCHANGED <<sched, complete, checking, reading, channel, engine, mishaps>>

\* External: a check ends, and the bits are those of the files found.
CheckEnds ==
  /\ checking
  /\ checking' = FALSE
  /\ have' = disk
  /\ UNCHANGED <<sched, disk, complete, reading, alertVars, engine, missed, mishaps>>

\* A check that goes on after the read that asked for it stopped waiting.
UnwatchedCheck ==
  checking /\ sched.readers # {} /\ \A r \in Reads : reading[r] # "recheck"

\* evict_lru and its like; the scheduler's piece_evicted is called by nobody.
Evict(p) ==
  /\ p \in complete
  /\ Mishap
  /\ complete' = complete \ {p} /\ disk' = disk \ {p}
  /\ missed' = IF p \in OnItsWay \/ UnwatchedCheck THEN missed \cup {p} ELSE missed
  /\ UNCHANGED <<sched, have, checking, reading, alertVars, engine>>

-----------------------------------------------------------------------------
(* The alert consumer's thread.                                             *)

\* drain_alerts: everything queued is dispatched, and the loop goes round.
drain_alerts ==
  /\ consumer = "drain" /\ engine # "joining"
  /\ posted # {}
  /\ channel' = channel \cup posted
  /\ posted' = {}
  /\ UNCHANGED <<flag, consumer>>

NothingDrained ==
  /\ consumer = "drain" /\ engine # "joining"
  /\ posted = {}
  /\ consumer' = "test"
  /\ UNCHANGED <<posted, flag, channel>>

\* NotifyState::wait, up to the point where the thread blocks: a notify before
\* that point wakes nobody.
WaitTest ==
  /\ consumer = "test"
  /\ consumer' = IF flag THEN "drain" ELSE "entering"
  /\ flag' = FALSE
  /\ UNCHANGED <<posted, channel>>

WaitBlocks ==
  /\ consumer = "entering"
  /\ consumer' = "blocked"
  /\ UNCHANGED <<posted, flag, channel>>

\* Mutant: after a timeout the thread waits again, without a look at the alerts.
WaitEndsWoken ==
  /\ consumer \in {"blocked", "woken"}
  /\ consumer' = IF consumer = "woken" THEN "drain" ELSE "test"
  /\ flag' = FALSE
  /\ UNCHANGED <<posted, channel>>

\* Woken by a notify, or by SAFETY_NET_TIMEOUT.
WaitEnds ==
  /\ consumer \in {"blocked", "woken"}
  /\ consumer' = "drain"
  /\ flag' = FALSE
  /\ UNCHANGED <<posted, channel>>

ConsumerStops ==
  /\ consumer = "drain" /\ engine = "joining"
  /\ consumer' = "stopped"
  /\ UNCHANGED <<posted, flag, channel>>

Consumer ==
  /\ drain_alerts \/ NothingDrained \/ WaitTest \/ WaitBlocks \/ WaitEnds \/ ConsumerStops
  /\ UNCHANGED <<sched, have, disk, complete, checking, reading, engine, missed, mishaps>>

-----------------------------------------------------------------------------
(* The engine's thread, between commands.                                   *)

\* drain_piece_finished, one completion: register the piece if its file is
\* there, and stop asking for it either way.
handle_piece_finished(p) ==
  /\ engine = "up"
  /\ p \in channel
  /\ channel' = channel \ {p}
  /\ complete' = IF p \in disk THEN complete \cup {p} ELSE complete
  /\ sched' = IF sched.known THEN piece_ready(sched, {p}) ELSE sched
  /\ UNCHANGED <<have, disk, checking, reading, posted, flag, consumer, engine, missed, mishaps>>

\* The loop ends: abort_pending_reads, then AlertConsumer::stop up to its join.
EngineStops ==
  /\ engine = "up"
  /\ Mishap
  /\ engine' = "joining"
  /\ reading' = [r \in Reads |-> IF reading[r] = "idle" THEN "idle" ELSE "done"]
  /\ consumer' = IF consumer = "blocked" THEN "woken" ELSE consumer
  /\ UNCHANGED <<sched, have, disk, complete, checking, posted, flag, channel, missed>>

\* Joined: the hook is unregistered and the session dropped.
EngineDown ==
  /\ engine = "joining" /\ consumer = "stopped"
  /\ engine' = "down"
  /\ sched' = Unknown /\ checking' = FALSE
  /\ UNCHANGED <<have, disk, complete, reading, alertVars, missed, mishaps>>

Finished ==
  /\ engine = "down"
  /\ UNCHANGED downloadVars

DownloadsNext ==
  \/ \E r \in Reads : StartRead(r) \/ PollRecheck(r) \/ PollPieceWait(r) \/ ReadAgain(r)
  \/ AddHandle \/ RemoveHandle
  \/ \E p \in Pieces : Download(p) \/ Evict(p) \/ handle_piece_finished(p)
  \/ CheckEnds
  \/ Consumer
  \/ EngineStops \/ EngineDown \/ Finished

\* Both threads go round their loops for as long as they live.
DownloadsFairness ==
  /\ WF_downloadVars(Consumer)
  /\ WF_downloadVars(\E p \in Pieces : handle_piece_finished(p))

DownloadsSpec == DownloadsInit /\ [][DownloadsNext]_downloadVars /\ DownloadsFairness

-----------------------------------------------------------------------------
(* Properties.                                                              *)

\* Once no recheck's reset of the priorities is left to undo, libtorrent is asked
\* for exactly what the scheduler recorded, and that is, for every piece it does
\* not have, what the registered reads' gradients want, or else the retained
\* window, whatever was evicted, rechecked, finished or released meanwhile: a
\* piece that a read waits for is asked for with at least current_priority, and
\* none is that nobody wants.  The exceptions are a piece evicted while a
\* completion of it was on its way, which handle_piece_finished then stops asking
\* for, and one evicted during a check that outlasts its read's window, whose bit
\* is cleared with no recompute to follow.
AskedForWhatIsRead ==
  LET s == sched
      target == resolve_target(s.readers, s.prefetch)
      wanted == IF target = None THEN NothingWanted ELSE target
  IN /\ engine = "up" /\ s.known /\ ~s.dirty /\ ~checking
     /\ \A r \in Reads : reading[r] # "recheck"
     => /\ s.asked = s.elevated
        /\ \A p \in Pieces : s.asked[p] = wanted[p] \/ (s.asked[p] = 0 /\ p \in have \cup missed)
        /\ \A r \in s.readers : \A p \in RangeOf[r] : wanted[p] >= Config.current_priority

\* Every completion libtorrent posts reaches the engine, which registers the
\* piece, although the hook that announces it may fire between the consumer's
\* look at the flag and its block: the queue and the channel are both empty
\* again at some time, unless the engine is stopped first.
FinishedPiecesHandled ==
  OnItsWay # {} ~> OnItsWay = {} \/ engine # "up"

=============================================================================
