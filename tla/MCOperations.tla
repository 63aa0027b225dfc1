----------------------------- MODULE MCOperations -----------------------------
(***************************************************************************)
(* Seven parts that share no state, each explored by itself: piece         *)
(* priorities and completions in the download engine, the upgrade of an    *)
(* old database, when the engine publishes what `.stats` files show, what  *)
(* it publishes, which bytes answer a read, the lock on piece files, and   *)
(* the start on a cache directory.  A behaviour is one part's; the others' *)
(* variables keep their first values.                                      *)
(***************************************************************************)
EXTENDS Downloads, Migrations, ReaderDemand, StatsSnapshot, ReadRange, PieceLocks, CacheStart

VARIABLE part

vars == <<part, downloadVars, migrationVars, demandVars, statsVars, rangeVars, lockVars,
          startVars>>

\* Read 1 covers pieces 1 and 2, read 2 covers pieces 2 and 3.
MCOffsetOf == <<0, 2>>
MCSizeOf == <<4, 3>>
MCPriorities ==
  [access_window |-> 8, current_priority |-> 7, step_priorities |-> <<6, 5>>,
   window_edge_priority |-> 1, rest_priority |-> 0]
MCTable == [window_edge_priority |-> 2]

\* Both torrents have the same name inside.
MCTitleOf == [b \in Bytes |-> "a"]

\* Each .torrent file has a tracker of its own.
MCTrackersOf == [info \in Infos |-> {info}]

\* The third file begins inside of a piece and ends with the short last one.
MCFileSizes == <<2, 0, 5>>

Init ==
  /\ part \in {"downloads", "migrations", "demand", "stats", "range", "locks", "start"}
  /\ DownloadsInit
  /\ IF part = "migrations" THEN MigrationsInit
     ELSE /\ db = [version |-> 0] /\ first = <<>>
          /\ process = "closed" /\ seen = 0 /\ step = 1 /\ kills = 0
  /\ DemandInit
  /\ StatsInit
  /\ part # "stats" => ~private
  /\ RangeInit
  /\ LocksInit
  /\ StartInit
  /\ part # "start" => flat = {} /\ pieces = {} /\ lines = {}

Next ==
  /\ part' = part
  /\ \/ /\ part = "downloads" /\ DownloadsNext
        /\ UNCHANGED <<migrationVars, demandVars, statsVars, rangeVars, lockVars, startVars>>
     \/ /\ part = "migrations" /\ MigrationsNext
        /\ UNCHANGED <<downloadVars, demandVars, statsVars, rangeVars, lockVars, startVars>>
     \/ /\ part = "demand" /\ DemandNext
        /\ UNCHANGED <<downloadVars, migrationVars, statsVars, rangeVars, lockVars, startVars>>
     \/ /\ part = "stats" /\ StatsNext
        /\ UNCHANGED <<downloadVars, migrationVars, demandVars, rangeVars, lockVars, startVars>>
     \/ /\ part = "range" /\ RangeNext
        /\ UNCHANGED <<downloadVars, migrationVars, demandVars, statsVars, lockVars, startVars>>
     \/ /\ part = "locks" /\ LocksNext
        /\ UNCHANGED <<downloadVars, migrationVars, demandVars, statsVars, rangeVars, startVars>>
     \/ /\ part = "start" /\ StartNext
        /\ UNCHANGED <<downloadVars, migrationVars, demandVars, statsVars, rangeVars, lockVars>>

\* DownloadsFairness, where that part runs.
Fairness ==
  /\ WF_downloadVars(part = "downloads" /\ Consumer)
  /\ WF_downloadVars(part = "downloads" /\ \E p \in Pieces : handle_piece_finished(p))

Spec == Init /\ [][Next]_vars /\ Fairness

=============================================================================
