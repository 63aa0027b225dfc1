----------------------------- MODULE DurableMap -----------------------------
(***************************************************************************)
(* What a reader of cache_metadata.txt may rely on.  The metadata map is   *)
(* abstracted to its version: the number of changes made to it.  `mem' is  *)
(* the live map, `disk' the version a restarted process would load, and    *)
(* `recoverable' the versions a power loss may leave behind.               *)
(*                                                                         *)
(* The file only ever moves forward while the machine stays up, it never   *)
(* shows a version the map did not have, and a power loss reveals nothing  *)
(* but a version that was published whole.                                 *)
(***************************************************************************)
EXTENDS Naturals

VARIABLES mem, disk, recoverable

dmVars == <<mem, disk, recoverable>>

Init ==
  /\ mem = 0
  /\ disk = 0
  /\ recoverable = {0}

\* The live map changes.
Change ==
  /\ mem' = mem + 1
  /\ UNCHANGED <<disk, recoverable>>

\* A version between the published one and the live one replaces the file.
Publish ==
  /\ disk' \in disk .. mem
  /\ recoverable' = recoverable \cup {disk'}
  /\ UNCHANGED mem

\* The directory entry reaches the medium.
Harden ==
  /\ recoverable' = {disk}
  /\ UNCHANGED <<mem, disk>>

\* Power is lost: the file is one of the versions that could have survived.
PowerLoss ==
  /\ disk' \in recoverable
  /\ recoverable' = {disk'}
  /\ UNCHANGED mem

\* A new process loads the file and reconciles it with the directory.
Load ==
  /\ mem' \in {disk, disk + 1}
  /\ UNCHANGED <<disk, recoverable>>

Next == Change \/ Publish \/ Harden \/ PowerLoss \/ Load

Spec == Init /\ [][Next]_dmVars
=============================================================================
