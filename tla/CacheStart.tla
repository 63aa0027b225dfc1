------------------------------ MODULE CacheStart ------------------------------
(***************************************************************************)
(* CacheManager::new on a cache directory that no lock protects: several   *)
(* processes may start on it, write its metadata and be killed at any      *)
(* time.  A start loads the metadata file, removes scratch files of        *)
(* writers that are gone, moves pieces of the old flat layout below        *)
(* pieces/, scans pieces/ and writes the metadata file.                    *)
(*                                                                         *)
(* Process ids are used again.  kill(pid, 0) and the removal of a scratch  *)
(* file count as one step: a pid that is given out anew in between is not  *)
(* modelled.                                                               *)
(***************************************************************************)
EXTENDS Naturals, FiniteSets

CONSTANTS
  Pids,
  PieceKeys,   \* names that pass is_valid_piece_key
  OtherNames,  \* other names a metadata line or a file may have
  MaxWrites    \* metadata writes a process makes: the values of SCRATCH_SEQ

ASSUME StartAssumption == PieceKeys \cap OtherNames = {} /\ MaxWrites \in Nat

VARIABLES
  flat,      \* files at the top of the cache directory
  pieces,    \* pieces below pieces/
  lines,     \* the names on the lines of cache_metadata.txt
  scratch,   \* scratch files, as <<pid, seq>>
  cache      \* the processes: where they are and their metadata

startVars == <<flat, pieces, lines, scratch, cache>>

Gone == [pc |-> "gone"]

StartInit ==
  /\ flat \in SUBSET (PieceKeys \cup OtherNames)
  /\ lines \in SUBSET (PieceKeys \cup OtherNames)
  /\ pieces \in SUBSET PieceKeys
  /\ scratch = {} /\ cache = [p \in Pids |-> Gone]

-----------------------------------------------------------------------------
is_valid_piece_key(name) == name \in PieceKeys

scratch_owner_pid(name) == name[1]

scratch_file_name(p) == <<p, cache[p].seq>>

\* Mutant: only the own pid counts as alive.
OnlySelfIsAlive(p, pid) == pid = p

\* p's kill(pid, 0); a pid that is in use is alive.  The processes see each
\* other: containers that share the directory but not their pids are not
\* modelled, and there the code takes a live writer of the other for gone.
process_is_alive(p, pid) == pid = p \/ cache[pid].pc # "gone"

At(p, pc) == cache[p].pc = pc
Becomes(p, record) == cache' = [cache EXCEPT ![p] = record]

-----------------------------------------------------------------------------
(* CacheManager::new, rebuild_index.                                        *)

\* Ghosts alone: no other process has run since this one's start; failed: what
\* the file system refused.
load_metadata_file(p) ==
  /\ At(p, "gone")
  /\ cache' = [q \in Pids |->
       IF q = p THEN [pc |-> "clean", metadata |-> {k \in lines : is_valid_piece_key(k)},
                      seq |-> 0, entries |-> {}, todo |-> scratch, failed |-> {},
                      alone |-> \A other \in Pids : At(other, "gone")]
       ELSE IF At(q, "gone") THEN Gone ELSE [cache[q] EXCEPT !.alone = FALSE]]
  /\ UNCHANGED <<flat, pieces, lines, scratch>>

\* One entry of the directory listing at a time.
remove_stale_metadata_scratch_file(p) ==
  /\ At(p, "clean")
  /\ \E name \in cache[p].todo :
       \/ /\ scratch' = IF process_is_alive(p, scratch_owner_pid(name))
                        THEN scratch ELSE scratch \ {name}
          /\ Becomes(p, [cache[p] EXCEPT !.todo = @ \ {name}])
       \/ /\ ~process_is_alive(p, scratch_owner_pid(name)) /\ name \in scratch
          /\ Becomes(p, [cache[p] EXCEPT !.todo = @ \ {name}, !.failed = @ \cup {"remove"}])
          /\ scratch' = scratch
  /\ UNCHANGED <<flat, pieces, lines>>

ListOldFiles(p) ==
  /\ At(p, "clean") /\ cache[p].todo = {}
  /\ Becomes(p, [cache[p] EXCEPT !.pc = "migrate", !.todo = {k \in flat : is_valid_piece_key(k)}])
  /\ UNCHANGED <<flat, pieces, lines, scratch>>

\* A file another process moved first ends the migration with a warning, as
\* does one whose directory cannot be made or that cannot be renamed.
migrate_old_cache_file(p) ==
  /\ At(p, "migrate")
  /\ \E k \in cache[p].todo :
       \/ /\ k \in flat
          /\ flat' = flat \ {k} /\ pieces' = pieces \cup {k}
          /\ Becomes(p, [cache[p] EXCEPT !.todo = @ \ {k}])
       \/ /\ k \in flat
          /\ Becomes(p, [cache[p] EXCEPT !.todo = {}, !.failed = @ \cup {"move"}])
          /\ UNCHANGED <<flat, pieces>>
       \/ /\ k \notin flat
          /\ Becomes(p, [cache[p] EXCEPT !.todo = {}])
          /\ UNCHANGED <<flat, pieces>>
  /\ UNCHANGED <<lines, scratch>>

\* Records without a file are dropped, files without a record registered.
scan_cache_directory(p) ==
  /\ At(p, "migrate") /\ cache[p].todo = {}
  /\ Becomes(p, [cache[p] EXCEPT !.pc = "save", !.metadata = pieces])
  /\ UNCHANGED <<flat, pieces, lines, scratch>>

-----------------------------------------------------------------------------
(* MetadataWriter: the scratch file is created, then renamed.               *)

\* save_metadata_file at the end of the start, a flush later.
CreateScratch(p) ==
  /\ At(p, "save") /\ cache[p].seq < MaxWrites
  /\ scratch' = scratch \cup {scratch_file_name(p)}
  /\ Becomes(p, [cache[p] EXCEPT !.pc = "rename", !.entries = cache[p].metadata])
  /\ UNCHANGED <<flat, pieces, lines>>

RenameScratch(p) ==
  /\ At(p, "rename")
  /\ IF scratch_file_name(p) \in scratch THEN lines' = cache[p].entries ELSE UNCHANGED lines
  /\ scratch' = scratch \ {scratch_file_name(p)}
  /\ Becomes(p, [cache[p] EXCEPT !.pc = "save", !.seq = @ + 1])
  /\ UNCHANGED <<flat, pieces>>

\* A running process downloads a piece or evicts one.
ChangePieces(p, k) ==
  /\ At(p, "save") /\ cache[p].seq > 0
  /\ IF k \in cache[p].metadata
     THEN /\ pieces' = pieces \ {k}
          /\ Becomes(p, [cache[p] EXCEPT !.metadata = @ \ {k}])
     ELSE /\ pieces' = pieces \cup {k}
          /\ Becomes(p, [cache[p] EXCEPT !.metadata = @ \cup {k}])
  /\ UNCHANGED <<flat, lines, scratch>>

Kill(p) ==
  /\ ~At(p, "gone")
  /\ Becomes(p, Gone)
  /\ UNCHANGED <<flat, pieces, lines, scratch>>

StartNext ==
  \E p \in Pids :
    \/ load_metadata_file(p) \/ remove_stale_metadata_scratch_file(p) \/ ListOldFiles(p)
    \/ migrate_old_cache_file(p) \/ scan_cache_directory(p)
    \/ CreateScratch(p) \/ RenameScratch(p) \/ Kill(p)
    \/ \E k \in PieceKeys : ChangePieces(p, k)

StartSpec == StartInit /\ [][StartNext]_startVars

-----------------------------------------------------------------------------
(* A write in flight always finds its scratch file when it comes to the    *)
(* rename, so no start of another process makes a running one lose a       *)
(* flush, whoever was killed and whichever pids are used again.  And a     *)
(* start that no other process disturbs has registered exactly the piece   *)
(* files, whatever the file system refused it and wherever the starts      *)
(* before it were killed; unless a move or a removal was refused it has    *)
(* also moved every file of the old layout, and left no scratch file of    *)
(* another pid.                                                            *)
StartsInOrder ==
  \A p \in Pids :
    /\ At(p, "rename") => scratch_file_name(p) \in scratch
    /\ At(p, "save") /\ cache[p].seq = 0 /\ cache[p].alone =>
         /\ cache[p].metadata = pieces
         /\ "move" \in cache[p].failed \/ flat \cap PieceKeys = {}
         /\ "remove" \in cache[p].failed \/ \A name \in scratch : scratch_owner_pid(name) = p

=============================================================================
