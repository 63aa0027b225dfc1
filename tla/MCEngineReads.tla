---------------------------- MODULE MCEngineReads ----------------------------
(***************************************************************************)
(* Two parts of the engine's service, each explored by itself: how its     *)
(* loop carries the reads, and the life of the pieces they read, with      *)
(* crashes.  A behaviour is one part's; the other's variables keep their   *)
(* first values.                                                           *)
(***************************************************************************)
EXTENDS EngineReads, PieceLifecycle

VARIABLE part

partVars == <<part, vars, plVars>>

\* Two reads of the single piece of one torrent.
MCTorrentOf == [r \in {1, 2} |-> "t"]
MCFirstOf == [r \in {1, 2} |-> 1]
MCLastOf == MCFirstOf

PartInit ==
  /\ part \in {"reads", "pieces"}
  /\ EngineInit
  /\ part = "pieces" =>
       /\ handles = {} /\ settling = {}
       /\ \A t \in Torrents : swarm[t] = "empty" /\ \A p \in Pieces : data[t][p] = "missing"
  /\ LifecycleInit

PartNext ==
  /\ part' = part
  /\ \/ part = "reads" /\ EngineNext /\ UNCHANGED plVars
     \/ part = "pieces" /\ LifecycleNext /\ UNCHANGED vars

PartSpec == PartInit /\ [][PartNext]_partVars

=============================================================================
