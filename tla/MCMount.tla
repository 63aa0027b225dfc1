------------------------------- MODULE MCMount -------------------------------
(***************************************************************************)
(* The mounted tree and the containers that mount it, two parts that share *)
(* no state.  The tree is a small metadata/: two directories, two files,   *)
(* two torrents, of which one has several files in nested directories.     *)
(* The containers are two that publish on one host directory and one that  *)
(* may not.  A behaviour is one part's; the other's variables keep their   *)
(* first values.                                                           *)
(***************************************************************************)
EXTENDS Mirror, Container

VARIABLE part

MCTorrent ==
  [x |-> [name |-> "f", multi |-> FALSE, files |-> << [path |-> <<"f">>, size |-> 1] >>],
   y |-> [name |-> "n", multi |-> TRUE,
          files |-> << [path |-> <<"s", "f">>, size |-> 1],
                       [path |-> <<"g">>, size |-> 2],
                       [path |-> <<"h", "s", "f">>, size |-> 0] >>]]

MCNames == (0 :> {"a", "b"}) @@ (3 :> {"a"}) @@ (4 :> {"a"})

MCInfoHash == [x |-> "hx", y |-> "hy"]

MountInit ==
  /\ part \in {"tree", "container"}
  /\ Init
  /\ ContainerInit
  /\ part = "tree" => host = <<>>

\* The tree may stay as it is: the daemon waits for requests.
MountNext ==
  /\ part' = part
  /\ \/ part = "tree" /\ (Next \/ UNCHANGED vars) /\ UNCHANGED containerVars
     \/ part = "container" /\ ContainerNext /\ UNCHANGED vars

MountSpec == MountInit /\ [][MountNext]_<<part, vars, containerVars>>

=============================================================================
