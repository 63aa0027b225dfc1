---------------------------- MODULE StatsSnapshot ----------------------------
(***************************************************************************)
(* What a `.stats` file shows of one torrent: the snapshot the engine      *)
(* publishes (engine.rs, publish_snapshot), the announce list, which is    *)
(* merged from the .torrent files added for the info_hash (engine.rs,      *)
(* merge_trackers), and the figures and alerts rendered from the snapshot  *)
(* (stats.rs).  When it is published is in ReaderDemand: here that may be  *)
(* at any time, and is at once after a command that changes what is shown. *)
(*                                                                         *)
(* A file takes one look at the snapshot per figure.  The files here are   *)
(* rendered from one snapshot; a publish between two looks, or during one, *)
(* mixes figures of two snapshots or leaves figures out.                   *)
(***************************************************************************)
EXTENDS Integers

CONSTANTS
  Infos,               \* .torrent files with this torrent's info_hash
  TrackersOf,          \* the announce URLs of each
  PieceCount,
  NO_SEEDER_GRACE, SLOW_SWARM_GRACE   \* seconds before an alert

ASSUME StatsAssumption ==
  {PieceCount, NO_SEEDER_GRACE, SLOW_SWARM_GRACE} \subseteq Nat \ {0}

VARIABLES
  private,   \* the flag in the info dictionary, the same in all of Infos
  held,      \* the handle: its announce list, private_torrents, and its age
  waiting,   \* whether a read of the torrent is parked
  clock,     \* empty_swarm_since and slow_swarm_since, as ages
  snap       \* the published snapshot; `lived`: history, the handle is as old
             \* as the clocks in it

statsVars == <<private, held, waiting, clock, snap>>

NoHandle == [urls |-> {}, private |-> FALSE, age |-> -1]
Absent == -1       \* a clock that is not running

HasHandle == held # NoHandle

\* Beyond both graces ages make no difference.
Graces == {NO_SEEDER_GRACE, SLOW_SWARM_GRACE}
Older(age) == IF age = Absent \/ \A g \in Graces : age >= g THEN age ELSE age + 1

-----------------------------------------------------------------------------
(* Publishing.                                                              *)

\* Mutant: a clock is kept when the torrent is no longer sampled.
KeptUnsampled(since, sampled, holds) ==
  IF sampled /\ ~holds THEN Absent ELSE IF holds /\ since = Absent THEN 0 ELSE since

advance_condition_since(since, sampled, holds) ==
  IF ~(sampled /\ holds) THEN Absent ELSE IF since = Absent THEN 0 ELSE since

\* An entry for the torrent when a read is among the pending ones.
aggregate_waiting_reads(pending) == pending

\* What is cached and wanted at this moment, for a torrent that has been
\* given to the scheduler.
build_pieces_status ==
  IF held' # NoHandle THEN [known : {TRUE}, cached : 0..PieceCount, wanted : BOOLEAN]
  ELSE [known : {FALSE}, cached : {0}, wanted : {FALSE}]

\* What the handle's status says of the swarm at this moment; reading it may
\* fail.
Status == IF held' # NoHandle THEN {"empty", "stalled", "busy", "unreadable"} ELSE {"unreadable"}

\* `pending` is whether pending_reads holds a read: it holds none while the
\* parked reads are being polled.
publish_snapshot(pending) ==
  \E status \in Status, pieces \in build_pieces_status :
    LET sampled == status # "unreadable"
        waits == aggregate_waiting_reads(pending)
        empty == advance_condition_since(clock.empty, sampled, status = "empty")
        slow == advance_condition_since(clock.slow, sampled, status = "stalled" /\ waits)
    IN /\ clock' = [empty |-> empty, slow |-> slow]
       /\ snap' = [status |-> status, pieces |-> pieces, waits |-> waits,
                   empty |-> empty, slow |-> slow,
                   lived |-> empty <= held'.age /\ slow <= held'.age]

-----------------------------------------------------------------------------
(* The engine's commands.                                                   *)

\* A flag that cannot be read counts as set.
is_private == IF private THEN {TRUE} ELSE BOOLEAN

\* The handle is made from the file of this command; making it may fail.
ensure_handle(info) ==
  \/ /\ ~HasHandle
     /\ \E flag \in is_private :
          held' = [urls |-> TrackersOf[info], private |-> flag, age |-> 0]
  \/ held' = held

\* Mutant: a new list is merged into any handle that has one.
MergeAny(info) ==
  \/ HasHandle /\ held' = [held EXCEPT !.urls = @ \cup TrackersOf[info]]
  \/ held' = held

\* Each call into libtorrent may fail and leave the list as it was.
merge_trackers(info) ==
  \/ /\ HasHandle /\ ~held.private /\ FALSE \in is_private
     /\ held' = [held EXCEPT !.urls = @ \cup TrackersOf[info]]
  \/ held' = held

remove_handle == held' = NoHandle

Mutate ==
  /\ remove_handle \/ \E info \in Infos : ensure_handle(info) \/ merge_trackers(info)
  /\ waiting' = waiting
  /\ publish_snapshot(waiting)

\* A read makes a handle when there is none, and is parked; when it starts
\* to wait for pieces it publishes, before it is among the pending ones.
start_read ==
  /\ \E info \in Infos : ensure_handle(info) /\ held' # NoHandle
  /\ waiting' = TRUE
  /\ \/ publish_snapshot(waiting)
     \/ UNCHANGED <<clock, snap>>

\* The parked reads are polled: they go on waiting or end, all of them when
\* the handle is gone; one in its peer wait publishes.
poll_pending_reads ==
  /\ waiting /\ held' = held
  /\ waiting' \in (IF HasHandle THEN BOOLEAN ELSE {FALSE})
  /\ UNCHANGED <<clock, snap>> \/ publish_snapshot(FALSE)

Publish == held' = held /\ waiting' = waiting /\ publish_snapshot(waiting)

SecondPasses ==
  /\ held' = [held EXCEPT !.age = Older(@)]
  /\ clock' = [empty |-> Older(clock.empty), slow |-> Older(clock.slow)]
  /\ UNCHANGED <<waiting, snap>>

-----------------------------------------------------------------------------
(* Rendering.                                                               *)

is_download_complete(pieces) == pieces.known /\ pieces.cached = PieceCount

active_download(pieces) == pieces.cached > 0 \/ pieces.wanted

\* Without a piece list the status kept in the database is shown, which
\* nothing ever changes from Pending.
display_status(pieces) ==
  IF is_download_complete(pieces) THEN "Seeding"
  ELSE IF active_download(pieces) THEN "Downloading" ELSE "Pending"

\* The percentage, as a number of pieces; 0 when the size is not known.
piece_progress(pieces, sized) == IF sized THEN pieces.cached ELSE 0

\* A status that was not found counts as an empty swarm, and a clock that is
\* not running as 0, which is below both graces.
health_alert(s) ==
  LET none == s.status \in {"empty", "unreadable"}
  IN IF is_download_complete(s.pieces) THEN "no alert"
     ELSE IF none /\ s.waits THEN "waiting for peers"
     ELSE IF s.status = "stalled" /\ s.waits /\ s.slow >= SLOW_SWARM_GRACE THEN "slow swarm"
     ELSE IF none /\ s.empty >= NO_SEEDER_GRACE /\ ~active_download(s.pieces) THEN "no peers"
     ELSE "no alert"

\* The size, with which a progress is shown, comes from the handle's status...
torrent_line(s) ==
  [status |-> display_status(s.pieces),
   progress |-> piece_progress(s.pieces, s.status # "unreadable")]

\* ...and from the database in a directory's summary.
summary_torrent_stats(s) ==
  [status |-> display_status(s.pieces), progress |-> piece_progress(s.pieces, TRUE)]

generate_torrent_stats(s) == [line |-> torrent_line(s), alert |-> health_alert(s)]

generate_directory_stats(s) == [summary |-> summary_torrent_stats(s), list |-> torrent_line(s)]

-----------------------------------------------------------------------------
StatsInit ==
  /\ private \in BOOLEAN /\ held = NoHandle /\ waiting = FALSE
  /\ clock = [empty |-> Absent, slow |-> Absent]
  /\ snap = [status |-> "unreadable", pieces |-> [known |-> FALSE, cached |-> 0, wanted |-> FALSE],
             waits |-> FALSE, empty |-> Absent, slow |-> Absent, lived |-> TRUE]

StatsNext ==
  /\ private' = private
  /\ Mutate \/ start_read \/ poll_pending_reads \/ Publish \/ SecondPasses

StatsSpec == StatsInit /\ [][StatsNext]_statsVars

-----------------------------------------------------------------------------
(* The files rendered from a snapshot are backed by what was sampled: the   *)
(* seconds an alert speaks of lie within the life of the handle they were   *)
(* measured on, although handles are removed and made again under the same  *)
(* info_hash; there is no alert about a swarm the torrent no longer needs;  *)
(* and where the status could be read a torrent has one status and one      *)
(* progress in all files, Seeding with all of it there (stats.rs).          *)
ReportIsBacked ==
  LET torrent == generate_torrent_stats(snap)
      directory == generate_directory_stats(snap)
  IN /\ snap.lived
     /\ torrent.alert \in {"slow swarm", "no peers"} => HasHandle /\ torrent.line.status # "Seeding"
     /\ snap.status # "unreadable" =>
          /\ torrent.line = directory.list /\ torrent.line = directory.summary
          /\ torrent.line.status = "Seeding" <=> torrent.line.progress = PieceCount

(* A private torrent is announced to the trackers of one .torrent file,     *)
(* whatever files are added for it and in whatever order its handle is      *)
(* made, merged into and removed (engine.rs, merge_trackers).               *)
PrivateTrackersIsolated ==
  private /\ HasHandle => \E info \in Infos : held.urls = TrackersOf[info]

=============================================================================
