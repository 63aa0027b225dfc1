------------------------------ MODULE EngineReads ------------------------------
(***************************************************************************)
(* How the download engine's single thread carries the reads it cannot     *)
(* serve at once (engine.rs): a parked read passes through waiting for the *)
(* torrent to settle, a recheck of stale pieces, the peer-discovery window *)
(* it shares with the other reads of its torrent, and the piece wait.  The *)
(* loop takes one command, then polls every parked read by one step.       *)
(*                                                                         *)
(* Time is counted in seconds, each spanning one idle pass of the loop.    *)
(* Commands take no time.  A piece is "missing", "local", or "stale": the  *)
(* bit is set and the file gone.  How a piece comes to be one of these is  *)
(* PieceLifecycle's subject; which pieces libtorrent is asked for is       *)
(* PieceScheduler's.                                                       *)
(***************************************************************************)
EXTENDS Integers, Sequences, FiniteSetsExt, Functions

CONSTANTS
  Torrents,
  Reads,
  TorrentOf,        \* the torrent each read is of
  FirstOf, LastOf,  \* the first and last piece each read covers
  Pieces,           \* the piece numbers of a torrent
  read_timeout_secs, peer_discovery_wait_secs,  \* [timeouts] of the configuration,
  no_seeder_read_timeout_secs, peer_wait_cap_secs, \* each set to at most one number
  DEFAULT_READ_TIMEOUT_SECS, DEFAULT_PEER_DISCOVERY_WAIT_SECS,
  DEFAULT_NO_SEEDER_READ_TIMEOUT_SECS, MAX_LOCAL_TIMEOUT_SECS,
  RECHECK_WAIT_CAP, RECHECK_GRACE,
  READ_DEADLINE_MARGIN, \* what the FUSE deadline adds to the budget
  CacheCapacity,    \* in pieces
  Timed,            \* the reads whose total wait is measured
  MaxDisturbances   \* evictions, unlinks, failing handles and stops per behaviour

\* An Option<i64>.
IsOption(setting) == setting \subseteq Int /\ \A v, w \in setting : v = w

\* The configuration passed TimeoutsConfig::validate.
validate ==
  \A v \in UNION {read_timeout_secs, peer_discovery_wait_secs, peer_wait_cap_secs,
                  no_seeder_read_timeout_secs} : v <= MAX_LOCAL_TIMEOUT_SECS

ASSUME EngineAssumption ==
  /\ TorrentOf \in [Reads -> Torrents]
  /\ Pieces \subseteq Nat
  /\ FirstOf \in [Reads -> Pieces] /\ LastOf \in [Reads -> Pieces]
  /\ \A r \in Reads : FirstOf[r] <= LastOf[r] /\ FirstOf[r]..LastOf[r] \subseteq Pieces
  /\ {RECHECK_WAIT_CAP, RECHECK_GRACE, READ_DEADLINE_MARGIN, CacheCapacity,
      MaxDisturbances, MAX_LOCAL_TIMEOUT_SECS} \subseteq Nat
  /\ RECHECK_WAIT_CAP > 0
  /\ {DEFAULT_READ_TIMEOUT_SECS, DEFAULT_PEER_DISCOVERY_WAIT_SECS,
      DEFAULT_NO_SEEDER_READ_TIMEOUT_SECS} \subseteq 1..MAX_LOCAL_TIMEOUT_SECS
  /\ Timed \subseteq Reads
  /\ IsOption(read_timeout_secs) /\ IsOption(peer_discovery_wait_secs)
  /\ IsOption(no_seeder_read_timeout_secs) /\ IsOption(peer_wait_cap_secs)
  /\ validate

VARIABLES
  inbox,     \* the command channel
  caller,    \* read -> where the call of read_file_range is
  rd,        \* read -> the fields of its PendingRead
  loop,      \* "recv", "poll" or "exited"
  parked,    \* pending_reads
  todo,      \* the reads a pass has taken from it and not polled yet
  handles,   \* torrents with a handle
  readers,   \* reads registered with the scheduler
  cold,      \* torrent -> its cold flight
  sourceless, \* torrent -> the verdict of the last probe
  stopping,  \* the stop flag
  swarm,     \* torrent -> "empty", "leechers" or "seeds"
  settling,  \* torrents libtorrent is checking or allocating
  recheck,   \* torrents with a force_recheck not yet begun
  leeching,  \* torrents whose upload_mode was cleared
  data,      \* torrent -> piece -> "missing", "local" or "stale"
  broken,    \* torrents whose handle fails every call
  listed,    \* torrents in the catalogue
  disturbed  \* disturbances so far

engineVars == <<inbox, caller, rd, loop, parked, todo, handles, readers, cold,
                sourceless, stopping>>
swarmVars == <<swarm, settling, recheck, leeching, data, broken>>
vars == <<engineVars, swarmVars, listed, disturbed>>

-----------------------------------------------------------------------------
(* The windows.  A setting that is absent or not positive has its default;  *)
(* the cap then is no cap.                                                  *)

Positive(setting) == {v \in setting : v > 0}

Resolved(setting, default) ==
  IF Positive(setting) = {} THEN default ELSE CHOOSE v \in setting : TRUE

ReadTimeout == Resolved(read_timeout_secs, DEFAULT_READ_TIMEOUT_SECS)

DiscoveryWait == Resolved(peer_discovery_wait_secs, DEFAULT_PEER_DISCOVERY_WAIT_SECS)

PeerWaitCap == Positive(peer_wait_cap_secs)

NoSeederTimeout == Resolved(no_seeder_read_timeout_secs, DEFAULT_NO_SEEDER_READ_TIMEOUT_SECS)

peer_discovery_window_secs == Min({ReadTimeout, DiscoveryWait} \cup PeerWaitCap)

recheck_window_secs == Min({ReadTimeout, RECHECK_WAIT_CAP})

no_seeder_window_secs == Min({ReadTimeout, NoSeederTimeout})

read_wait_budget_secs ==
  ReadTimeout + recheck_window_secs + peer_discovery_window_secs
    + no_seeder_window_secs + ReadTimeout

piece_wait_window_secs(rec) ==
  IF rec.has_seeder THEN ReadTimeout
  ELSE IF rec.exhausted THEN 0
  ELSE no_seeder_window_secs

Overdue == read_wait_budget_secs + READ_DEADLINE_MARGIN + 1

-----------------------------------------------------------------------------
\* Every failure that is not a verdict on a stalled piece is an "error": a
\* missing or failing handle, a check that never ends, a piece lost on the way
\* to the reply, the stop.
Answers == {"data", "short", "discovery window", "no seeder", "cache stall", "slow swarm",
            "error"}

Answered(r) == caller[r] \in Answers

None == [age |-> -1]

\* A fresh PendingRead; spent counts from phase_start, or in the piece wait
\* from piece_wait_start; reader tells that reader_id is Some, and rewaits that
\* a recheck began inside the piece wait.
Fresh(r) ==
  [phase |-> "PieceWait", spent |-> 0, age |-> 0, current |-> FirstOf[r],
   seen |-> swarm[TorrentOf[r]], exhausted |-> FALSE, has_seeder |-> FALSE,
   saw_checking |-> FALSE, blockers |-> {}, reader |-> FALSE, rewaits |-> FALSE]

Unused(r) == [Fresh(r) EXCEPT !.seen = "empty"]

Local(r, p) == data[TorrentOf[r]][p] = "local"

stale_pieces_in_range(r) ==
  {p \in FirstOf[r]..LastOf[r] : data[TorrentOf[r]][p] = "stale"}

\* The first piece from p on that is not local, or the one past the range.
FirstMissing(r, p) ==
  Min({q \in p..(LastOf[r] + 1) : q = LastOf[r] + 1 \/ ~Local(r, q)})

all_pieces_local(r) == FirstMissing(r, FirstOf[r]) > LastOf[r]

read_from_disk(r, last, answer) ==
  IF FirstMissing(r, FirstOf[r]) > last THEN answer ELSE "error"

\* Which of its waits a read without a seeder is told about.
no_seeder_wait(rec) ==
  IF rec.exhausted /\ ~rec.has_seeder THEN "discovery window" ELSE "no seeder"

classify_read_stall(r, rec, s) ==
  IF rec.current \in rec.blockers THEN "cache stall"
  ELSE IF s # "seeds" THEN no_seeder_wait(rec)
  ELSE IF LastOf[r] - FirstOf[r] + 1 > CacheCapacity THEN "cache stall"
  ELSE "slow swarm"

\* What read_timed_out answers with the swarm s it read, or "unknown".
read_timed_out(r, rec, s) ==
  IF rec.current > FirstOf[r] THEN read_from_disk(r, rec.current - 1, "short")
  ELSE IF s = "unknown" THEN "error"
  ELSE classify_read_stall(r, rec, s)

\* status(): the swarm as it is, or a failed call.
Status(t) == IF t \in broken THEN "unknown" ELSE swarm[t]

-----------------------------------------------------------------------------
(* Steps a read takes; each leaves it answered or parked.                   *)

Waiting == {r \in Reads : caller[r] = "parked"}

\* finish_read and the direct replies of start_read.
Resolve(r, answer) ==
  /\ caller' = [caller EXCEPT ![r] = answer]
  /\ rd' = [rd EXCEPT ![r] = Unused(r)]
  /\ readers' = IF TorrentOf[r] \in handles THEN readers \ {r} ELSE readers

Park(r, rec) ==
  /\ caller' = [caller EXCEPT ![r] = "parked"]
  /\ rd' = [rd EXCEPT ![r] = rec]

start_recheck(r, rec) ==
  /\ recheck' = recheck \cup {TorrentOf[r]}
  /\ Park(r, [rec EXCEPT !.phase = "Recheck", !.spent = 0, !.saw_checking = FALSE])
  /\ UNCHANGED <<readers, cold, sourceless, leeching>>

InPieceWait(rec) ==
  [rec EXCEPT !.phase = "PieceWait", !.spent = 0, !.saw_checking = FALSE,
              !.has_seeder = rec.seen = "seeds"]

Flight == [age |-> 0, reannounced |-> FALSE, announces |-> 1]

is_expired(flight) == flight.age >= peer_discovery_window_secs

\* Mutant: a read that joins a flight starts a window of its own.
EnterOwnWindow(r, rec) ==
  LET t == TorrentOf[r]
      flight == IF cold[t] = None \/ is_expired(cold[t]) THEN Flight ELSE cold[t]
  IN /\ cold' = [cold EXCEPT ![t] = flight]
     /\ Park(r, [rec EXCEPT !.phase = "PeerWait", !.spent = 0])

\* enter_peer_wait: join the torrent's flight, or start one with an announce.
enter_peer_wait(r, rec) ==
  LET t == TorrentOf[r]
      flight == IF cold[t] = None \/ is_expired(cold[t]) THEN Flight ELSE cold[t]
  IN /\ cold' = [cold EXCEPT ![t] = flight]
     /\ Park(r, [rec EXCEPT !.phase = "PeerWait", !.spent = flight.age])

\* Mutant: a verdict never grows old.
LivesForever(verdict) == verdict # None

is_live(verdict) == verdict # None /\ verdict.age < peer_discovery_window_secs

\* The verdict stands in for the read's own window: it is answered at once.
Inherit(r, rec) ==
  LET t == TorrentOf[r]
      v == sourceless[t]
      due == 2 * v.announced >= peer_discovery_window_secs
  IN /\ sourceless' = [sourceless EXCEPT ![t].announced = IF due THEN 0 ELSE @]
     /\ Resolve(r, read_timed_out(r, [rec EXCEPT !.current = FirstMissing(r, @),
                                                !.exhausted = TRUE], "empty"))
     /\ UNCHANGED <<cold, leeching>>

\* Register the reader, clear upload_mode and wait for the swarm.  On a failing
\* handle reader_added gives the read an id and registers nothing, and
\* upload_mode stays.
WaitForSwarm(r, rec) ==
  LET t == TorrentOf[r]
      known == [rec EXCEPT !.reader = TRUE]
  IN
  /\ sourceless' = [sourceless EXCEPT ![t] = None]
  /\ readers' = IF t \in broken THEN readers ELSE readers \cup {r}
  /\ leeching' = IF t \in broken THEN leeching ELSE leeching \cup {t}
  /\ \/ rec.seen = "empty" /\ enter_peer_wait(r, known)
     \/ rec.seen # "empty" /\ Park(r, InPieceWait(known)) /\ cold' = cold

begin_waiting(r, rec) ==
  LET t == TorrentOf[r] IN
  /\ recheck' = recheck
  /\ \/ /\ all_pieces_local(r)
        /\ Resolve(r, read_from_disk(r, LastOf[r], "data"))
        /\ UNCHANGED <<cold, sourceless, leeching>>
     \/ /\ ~all_pieces_local(r)
        /\ sourceless[t] = None
        /\ WaitForSwarm(r, rec)
     \/ /\ ~all_pieces_local(r)
        /\ sourceless[t] # None
        /\ LET s == Status(t)
               now == [rec EXCEPT !.seen = IF s = "unknown" THEN @ ELSE s]
           IN IF s = "empty" /\ is_live(sourceless[t])
              THEN Inherit(r, now)
              ELSE WaitForSwarm(r, now)

after_settling(r, rec) ==
  LET stale == stale_pieces_in_range(r)
      noted == [rec EXCEPT !.blockers = @ \cup stale]
  IN IF stale # {} /\ TorrentOf[r] \notin broken
     THEN start_recheck(r, noted)
     ELSE begin_waiting(r, noted)

-----------------------------------------------------------------------------
(* Polls of a parked read.                                                  *)

poll_wait_state(r) ==
  LET rec == rd[r]
      t == TorrentOf[r]
      now == [rec EXCEPT !.seen = IF t \in broken THEN @ ELSE swarm[t]]
  IN \/ /\ rec.spent > ReadTimeout
        /\ Resolve(r, "error")
        /\ UNCHANGED <<cold, sourceless, recheck, leeching>>
     \/ /\ rec.spent <= ReadTimeout
        /\ t \in settling \cup broken
        /\ Park(r, now)
        /\ UNCHANGED <<readers, cold, sourceless, recheck, leeching>>
     \/ /\ rec.spent <= ReadTimeout
        /\ t \notin settling \cup broken
        /\ after_settling(r, now)

finish_recheck(r) ==
  IF rd[r].reader
  THEN Park(r, InPieceWait(rd[r])) /\ UNCHANGED <<readers, cold, sourceless, recheck, leeching>>
  ELSE begin_waiting(r, rd[r])

poll_recheck(r) ==
  LET rec == rd[r]
      t == TorrentOf[r]
      done == \/ rec.spent >= recheck_window_secs
              \/ t \in broken
              \/ t \notin settling /\ rec.saw_checking
              \/ t \notin settling /\ stale_pieces_in_range(r) = {}
              \/ t \notin settling /\ rec.spent > RECHECK_GRACE
  IN \/ done /\ finish_recheck(r)
     \/ /\ ~done
        /\ Park(r, [rec EXCEPT !.saw_checking = @ \/ t \in settling])
        /\ UNCHANGED <<readers, cold, sourceless, recheck, leeching>>

\* The flight after a poll asked it for the one announce in mid-window.
take_reannounce(flight) ==
  IF flight # None /\ ~flight.reannounced /\ 2 * flight.age >= peer_discovery_window_secs
  THEN [flight EXCEPT !.reannounced = TRUE, !.announces = @ + 1]
  ELSE flight

\* The window is over: the last look at the swarm decides the verdict.
ProbeEnds(r, s) ==
  LET t == TorrentOf[r]
      empty == s = "empty"
  IN /\ cold' = [cold EXCEPT ![t] = None]
     /\ sourceless' = [sourceless EXCEPT ![t] =
                         IF empty THEN [age |-> 0, announced |-> 0] ELSE None]
     /\ Park(r, InPieceWait([rd[r] EXCEPT !.exhausted = empty, !.seen = s]))

poll_peer_wait(r) ==
  LET t == TorrentOf[r]
      s == swarm[t]
      over == rd[r].spent >= peer_discovery_window_secs
  IN /\ UNCHANGED <<recheck, leeching>>
     /\ \/ /\ t \in broken
           /\ Resolve(r, "error")
           /\ UNCHANGED <<cold, sourceless>>
        \/ /\ t \notin broken /\ over
           /\ ProbeEnds(r, s) /\ readers' = readers
        \/ /\ t \notin broken /\ ~over /\ s # "empty"
           /\ cold' = [cold EXCEPT ![t] = None]
           /\ sourceless' = [sourceless EXCEPT ![t] = None]
           /\ Park(r, InPieceWait([rd[r] EXCEPT !.seen = s]))
           /\ readers' = readers
        \/ /\ t \notin broken /\ ~over /\ s = "empty"
           /\ cold' = [cold EXCEPT ![t] = take_reannounce(@)]
           /\ Park(r, [rd[r] EXCEPT !.seen = s])
           /\ UNCHANGED <<readers, sourceless>>

\* Mutant: the window restarts whenever a seeder is connected.
NoticeSeederAgain(rec, s) ==
  IF s = "seeds" THEN [rec EXCEPT !.has_seeder = TRUE, !.spent = 0, !.seen = s] ELSE rec

\* A seeder that connects late restarts the window.
NoticeSeeder(rec, s) ==
  IF ~rec.has_seeder /\ s = "seeds"
  THEN [rec EXCEPT !.has_seeder = TRUE, !.spent = 0, !.seen = s]
  ELSE rec

poll_piece_wait(r) ==
  LET t == TorrentOf[r]
      next == FirstMissing(r, rd[r].current)
      rec == [rd[r] EXCEPT !.current = next]
      stale == next <= LastOf[r] /\ data[t][next] = "stale"
      noted == IF stale THEN [rec EXCEPT !.blockers = @ \cup {next}] ELSE rec
      now == NoticeSeeder(noted, Status(t))
  IN \/ /\ next > LastOf[r]
        /\ Resolve(r, read_from_disk(r, LastOf[r], "data"))
        /\ UNCHANGED <<cold, sourceless, recheck, leeching>>
     \/ stale /\ t \notin broken /\ start_recheck(r, [noted EXCEPT !.rewaits = TRUE])
     \/ /\ next <= LastOf[r]
        /\ ~stale \/ t \in broken
        /\ UNCHANGED <<cold, sourceless, recheck, leeching>>
        /\ IF now.spent >= piece_wait_window_secs(now)
           THEN Resolve(r, read_timed_out(r, now, Status(t)))
           ELSE Park(r, now) /\ readers' = readers

poll_read(r) ==
  IF TorrentOf[r] \notin handles \/ stopping
  THEN Resolve(r, "error") /\ UNCHANGED <<cold, sourceless, recheck, leeching>>
  ELSE CASE rd[r].phase = "WaitState" -> poll_wait_state(r)
         [] rd[r].phase = "Recheck" -> poll_recheck(r)
         [] rd[r].phase = "PeerWait" -> poll_peer_wait(r)
         [] rd[r].phase = "PieceWait" -> poll_piece_wait(r)

-----------------------------------------------------------------------------
(* The loop.                                                                *)

\* take(pending_reads): the pass polls what was parked when it began.
StartPass(pending) ==
  /\ todo' = pending
  /\ parked' = IF pending = <<>> THEN pending ELSE <<>>
  /\ loop' = IF pending = <<>> THEN "recv" ELSE "poll"

\* poll_pending_reads, one read.
PollRead ==
  /\ loop = "poll"
  /\ LET r == Head(todo) IN
     /\ poll_read(r)
     /\ todo' = Tail(todo)
     /\ parked' = IF caller'[r] = "parked" THEN Append(parked, r) ELSE parked
     /\ loop' = IF Tail(todo) = <<>> THEN "recv" ELSE "poll"
  /\ UNCHANGED <<inbox, handles, stopping, swarm, settling, data, broken, listed, disturbed>>

\* ensure_handle: a new handle checks its files, which clears stale bits, and
\* starts in upload_mode with no verdict against it.
ensure_handle(t) ==
  IF t \in handles THEN UNCHANGED <<handles, settling, data, leeching>>
  ELSE /\ handles' = handles \cup {t}
       /\ settling' = settling \cup {t}
       /\ leeching' = leeching \ {t}
       /\ data' = [data EXCEPT ![t] = [p \in Pieces |-> IF @[p] = "stale" THEN "missing" ELSE @[p]]]

Refused(r, answer) ==
  /\ Resolve(r, answer)
  /\ StartPass(parked)
  /\ UNCHANGED <<handles, cold, sourceless, settling, recheck, leeching, data>>

\* start_read, for a call that has just made its handle: it waits for the check.
StartOnNewHandle(r) ==
  /\ TorrentOf[r] \notin handles
  /\ ensure_handle(TorrentOf[r])
  /\ sourceless' = [sourceless EXCEPT ![TorrentOf[r]] = None]
  /\ Park(r, [Fresh(r) EXCEPT !.phase = "WaitState"])
  /\ StartPass(Append(parked, r))
  /\ UNCHANGED <<readers, cold, recheck>>

StartOnHandle(r) ==
  /\ TorrentOf[r] \in handles
  /\ UNCHANGED <<handles, settling, data>>
  /\ IF TorrentOf[r] \in settling
     THEN /\ Park(r, [Fresh(r) EXCEPT !.phase = "WaitState"])
          /\ UNCHANGED <<readers, cold, sourceless, recheck, leeching>>
     ELSE after_settling(r, Fresh(r))
  /\ StartPass(IF caller'[r] = "parked" THEN Append(parked, r) ELSE parked)

start_read(r) ==
  \/ (stopping \/ TorrentOf[r] \in broken) /\ Refused(r, "error")
  \/ ~stopping /\ TorrentOf[r] \notin broken /\ (StartOnNewHandle(r) \/ StartOnHandle(r))

\* Mutant: removing a handle leaves the scheduler's readers of the torrent.
RemoveKeepsReaders(t) ==
  /\ handles' = handles \ {t}
  /\ cold' = [cold EXCEPT ![t] = None]
  /\ sourceless' = [sourceless EXCEPT ![t] = None]
  /\ settling' = settling \ {t}
  /\ recheck' = recheck \ {t}
  /\ leeching' = leeching \ {t}
  /\ broken' = broken \ {t}
  /\ data' = [data EXCEPT ![t] = [p \in Pieces |-> IF @[p] = "stale" THEN "missing" ELSE @[p]]]
  /\ UNCHANGED <<readers>>

remove_handle(t) ==
  /\ handles' = handles \ {t}
  /\ readers' = {r \in readers : TorrentOf[r] # t}
  /\ cold' = [cold EXCEPT ![t] = None]
  /\ sourceless' = [sourceless EXCEPT ![t] = None]
  /\ settling' = settling \ {t}
  /\ recheck' = recheck \ {t}
  /\ leeching' = leeching \ {t}
  /\ broken' = broken \ {t}
  /\ data' = [data EXCEPT ![t] = [p \in Pieces |-> IF @[p] = "stale" THEN "missing" ELSE @[p]]]

HandleCommand ==
  /\ loop = "recv"
  /\ inbox # <<>>
  /\ LET cmd == Head(inbox) IN
     \/ /\ cmd.op = "read"
        /\ start_read(cmd.read)
        /\ broken' = broken
     \/ /\ cmd.op = "ensure"
        /\ ensure_handle(cmd.torrent)
        /\ sourceless' = IF cmd.torrent \in handles THEN sourceless
                         ELSE [sourceless EXCEPT ![cmd.torrent] = None]
        /\ StartPass(parked)
        /\ UNCHANGED <<caller, rd, readers, cold, recheck, broken>>
     \/ /\ cmd.op = "remove"
        /\ remove_handle(cmd.torrent)
        /\ StartPass(parked)
        /\ UNCHANGED <<caller, rd>>
  /\ inbox' = Tail(inbox)
  /\ UNCHANGED <<stopping, swarm, listed, disturbed>>

\* Mutant: the loop ends without abort_pending_reads.
ExitSilently ==
  /\ loop = "recv"
  /\ inbox # <<>> /\ Head(inbox).op = "shutdown"
  /\ loop' = "exited"
  /\ caller' = [r \in Reads |-> IF caller[r] = "sent" THEN "error" ELSE caller[r]]
  /\ inbox' = <<>> /\ parked' = <<>>
  /\ UNCHANGED <<rd, todo, handles, readers, cold, sourceless, stopping,
                 swarmVars, listed, disturbed>>

\* Shutdown ends the loop: parked reads are aborted, and what is queued behind
\* it is dropped with its reply channel.
Exit ==
  /\ loop = "recv"
  /\ inbox # <<>> /\ Head(inbox).op = "shutdown"
  /\ loop' = "exited"
  /\ caller' = [r \in Reads |-> IF caller[r] \in {"sent", "parked"} THEN "error"
                                ELSE caller[r]]
  /\ rd' = [r \in Reads |-> Unused(r)]
  /\ readers' = {r \in readers : TorrentOf[r] \notin handles}
  /\ inbox' = <<>> /\ parked' = <<>>
  /\ UNCHANGED <<todo, handles, cold, sourceless, stopping, swarmVars, listed, disturbed>>

Older(x, bound) == IF x < bound THEN x + 1 ELSE x

Aged(r) ==
  [rd[r] EXCEPT !.spent = Older(@, ReadTimeout + 1),
                !.age = IF r \in Timed THEN Older(@, Overdue) ELSE @]

\* recv_timeout with no command: a second passes and the parked reads are polled.
Timeout ==
  /\ loop = "recv"
  /\ inbox = <<>>
  /\ rd' = [r \in Reads |-> IF caller[r] = "parked" THEN Aged(r) ELSE rd[r]]
  /\ cold' = [t \in Torrents |-> IF cold[t] = None THEN None
                ELSE [cold[t] EXCEPT !.age = Older(@, peer_discovery_window_secs)]]
  /\ sourceless' = [t \in Torrents |-> IF sourceless[t] = None THEN None
                ELSE [age |-> Older(sourceless[t].age, peer_discovery_window_secs),
                      announced |-> Older(sourceless[t].announced, peer_discovery_window_secs)]]
  /\ StartPass(parked)
  /\ UNCHANGED <<inbox, caller, handles, readers, stopping, swarmVars, listed, disturbed>>

-----------------------------------------------------------------------------
(* The callers.                                                             *)

\* A worker calls read_file_range for a read it took while the torrent was in
\* the catalogue, as every torrent once was; it may be gone by now.
Send(r) ==
  /\ caller[r] = "idle"
  /\ \/ /\ loop # "exited"
        /\ caller' = [caller EXCEPT ![r] = "sent"]
        /\ inbox' = Append(inbox, [op |-> "read", read |-> r])
     \/ /\ loop = "exited"
        /\ caller' = [caller EXCEPT ![r] = "error"]
        /\ inbox' = inbox
  /\ UNCHANGED <<rd, loop, parked, todo, handles, readers, cold, sourceless,
                 stopping, swarmVars, listed, disturbed>>

Disturb == disturbed < MaxDisturbances /\ disturbed' = disturbed + 1

SendCommand(cmd) ==
  /\ inbox' = IF loop = "exited" THEN inbox ELSE Append(inbox, cmd)
  /\ UNCHANGED <<caller, rd, loop, parked, todo, handles, readers, cold, sourceless,
                 swarmVars>>

\* The last row of the torrent is deleted, then its handle released.
Unlink(t) ==
  /\ t \in listed
  /\ Disturb
  /\ listed' = listed \ {t}
  /\ SendCommand([op |-> "remove", torrent |-> t])
  /\ stopping' = stopping

AddAgain(t) ==
  /\ t \notin listed
  /\ listed' = listed \cup {t}
  /\ SendCommand([op |-> "ensure", torrent |-> t])
  /\ UNCHANGED <<stopping, disturbed>>

\* request_stop: the flag first, then the command.
RequestStop ==
  /\ ~stopping
  /\ Disturb
  /\ stopping' = TRUE
  /\ SendCommand([op |-> "shutdown"])
  /\ listed' = listed

-----------------------------------------------------------------------------
(* libtorrent and the cache.                                                *)

SwarmChanges(t) ==
  /\ swarm' \in {[swarm EXCEPT ![t] = s] : s \in {"empty", "leechers", "seeds"} \ {swarm[t]}}
  /\ UNCHANGED <<engineVars, settling, recheck, leeching, data, broken, listed, disturbed>>

\* A check of the files begins on request; it may be over before anyone looks.
CheckStarts(t) ==
  /\ t \in recheck
  /\ recheck' = recheck \ {t}
  /\ settling' = settling \cup {t}
  /\ UNCHANGED <<engineVars, swarm, leeching, data, broken, listed, disturbed>>

CheckEnds(t) ==
  /\ t \in settling
  /\ settling' = settling \ {t}
  /\ data' = [data EXCEPT ![t] = [p \in Pieces |-> IF @[p] = "stale" THEN "missing" ELSE @[p]]]
  /\ UNCHANGED <<engineVars, swarm, recheck, leeching, broken, listed, disturbed>>

PieceArrives(t, p) ==
  /\ t \in leeching
  /\ t \notin settling
  /\ swarm[t] # "empty"
  /\ data[t][p] = "missing"
  /\ data' = [data EXCEPT ![t][p] = "local"]
  /\ UNCHANGED <<engineVars, swarm, settling, recheck, leeching, broken, listed, disturbed>>

EvictPiece(t, p) ==
  /\ t \in handles
  /\ data[t][p] = "local"
  /\ Disturb
  /\ data' = [data EXCEPT ![t][p] = "stale"]
  /\ UNCHANGED <<engineVars, swarm, settling, recheck, leeching, broken, listed>>

\* A handle turns invalid; every call on it fails until it is removed.
HandleFails(t) ==
  /\ t \in handles \ broken
  /\ Disturb
  /\ broken' = broken \cup {t}
  /\ UNCHANGED <<engineVars, swarm, settling, recheck, leeching, data, listed>>

-----------------------------------------------------------------------------
EngineInit ==
  /\ inbox = <<>>
  /\ caller = [r \in Reads |-> "idle"]
  /\ swarm \in [Torrents -> {"empty", "leechers", "seeds"}]
  /\ rd = [r \in Reads |-> Unused(r)]
  /\ loop = "recv"
  /\ parked = <<>> /\ todo = <<>>
  /\ handles \in SUBSET Torrents
  /\ readers = {}
  /\ cold = [t \in Torrents |-> None]
  /\ sourceless = [t \in Torrents |-> None]
  /\ stopping = FALSE
  /\ settling \in SUBSET handles
  /\ recheck = {}
  /\ leeching = {}
  /\ data \in [Torrents -> [Pieces -> {"missing", "local", "stale"}]]
  /\ \A t \in Torrents, p \in Pieces : data[t][p] = "stale" => t \in handles
  /\ broken = {}
  /\ listed = Torrents
  /\ disturbed = 0

EngineNext ==
  \/ PollRead \/ HandleCommand \/ Exit \/ Timeout \/ RequestStop
  \/ \E r \in Reads : Send(r)
  \/ \E t \in Torrents :
       \/ Unlink(t) \/ AddAgain(t) \/ SwarmChanges(t) \/ CheckStarts(t) \/ CheckEnds(t)
       \/ HandleFails(t)
       \/ \E p \in Pieces : PieceArrives(t, p) \/ EvictPiece(t, p)

EngineSpec == EngineInit /\ [][EngineNext]_vars

-----------------------------------------------------------------------------
(* Properties.                                                              *)

Flights == {None} \cup [age : 0..peer_discovery_window_secs, reannounced : BOOLEAN,
                        announces : 1..2]

Verdicts == {None} \cup [age : 0..peer_discovery_window_secs,
                         announced : 0..peer_discovery_window_secs]

PendingRead ==
  [phase : {"WaitState", "Recheck", "PeerWait", "PieceWait"}, spent : 0..(ReadTimeout + 1),
   age : 0..Overdue, current : Nat, seen : {"empty", "leechers", "seeds"},
   exhausted : BOOLEAN, has_seeder : BOOLEAN, saw_checking : BOOLEAN,
   blockers : SUBSET Pieces, reader : BOOLEAN, rewaits : BOOLEAN]

\* The state is well formed; a flight has announced once when it began and at
\* most once more, however many reads share it (ColdFlight::take_reannounce).
EngineTypeOK ==
  /\ caller \in [Reads -> {"idle", "sent", "parked"} \cup Answers]
  /\ rd \in [Reads -> PendingRead]
  /\ loop \in {"recv", "poll", "exited"}
  /\ handles \subseteq Torrents /\ readers \subseteq Reads
  /\ cold \in [Torrents -> Flights]
  /\ sourceless \in [Torrents -> Verdicts]
  /\ data \in [Torrents -> [Pieces -> {"missing", "local", "stale"}]]

\* pending_reads and the pass in progress hold exactly the calls that wait for
\* an answer, each once; after the loop has ended nobody waits.
ParkedOnce ==
  /\ Range(parked \o todo) = Waiting
  /\ Len(parked \o todo) = Cardinality(Waiting)
  /\ loop = "exited" => \A r \in Reads : caller[r] \notin {"sent", "parked"}

\* The scheduler knows a reader exactly while its read is parked for the swarm:
\* none outlives its read (release_reader, remove_torrent) to keep pieces
\* wanted that nobody reads, and no read waits unregistered for pieces, unless
\* its handle fails every call.
ReadersAreParked ==
  /\ readers \subseteq Waiting
  /\ \A r \in Waiting : rd[r].phase \in {"PeerWait", "PieceWait"}
                        /\ TorrentOf[r] \in handles \ broken => r \in readers

\* A read that waits in the discovery window is never past the end of the
\* flight it joined, and while its torrent has a flight nobody ahead of it in
\* the same window is given more time: one probe, one outcome.
SharedProbe ==
  \A r \in Waiting : rd[r].phase = "PeerWait" =>
    LET t == TorrentOf[r] IN
    cold[t] # None => rd[r].spent >= cold[t].age

\* A read that never waited for the swarm is failed on its account only if the
\* swarm is empty at that moment and a probe gave up less than one window ago,
\* however long the read spent settling or rechecking before (begin_waiting
\* looks at the swarm again before it trusts the verdict); and it is told of
\* the discovery window, the wait it was spared.
VerdictSpeaksForSwarm ==
  [][\A r \in Reads :
       /\ ~rd[r].reader /\ ~Answered(r)
       /\ caller'[r] \in {"discovery window", "no seeder", "slow swarm"}
       =>
         /\ caller'[r] = "discovery window"
         /\ swarm[TorrentOf[r]] = "empty"
         /\ sourceless[TorrentOf[r]] # None
         /\ sourceless[TorrentOf[r]].age < peer_discovery_window_secs]_vars

\* read_wait_budget_secs and the margin of the FUSE deadline cover every wait of
\* a read that meets no stale piece after it began to wait for pieces.
WithinBudget ==
  \A r \in Waiting : ~rd[r].rewaits => rd[r].age < Overdue

\* remove_torrent's promise, not kept: the daemon does "not accumulate handles or
\* keep announcing a deleted torrent".  A torrent without a row has a handle
\* only until the release that is on its way.  A worker's read that reaches the
\* engine behind that release makes the handle again (prepare_read), and
\* nothing takes it away.
HandlesAreListed ==
  \A t \in handles \ listed :
    loop # "exited" => \E i \in 1..Len(inbox) : inbox[i] = [op |-> "remove", torrent |-> t]

=============================================================================
