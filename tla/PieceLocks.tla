------------------------------ MODULE PieceLocks ------------------------------
(***************************************************************************)
(* The lock between libtorrent's disk thread and the engine thread.  The   *)
(* disk thread writes the blocks of a piece in PieceStorage::write_piece;  *)
(* the engine reads the piece file in PieceStore::read_piece.  A registry  *)
(* gives each info hash a shared mutex that writers hold exclusively.      *)
(*                                                                         *)
(* A torrent that is removed and added again has two storages for a while, *)
(* with the same files: only the registry's mutex is common to both.  One  *)
(* piece of each torrent is modelled, as a sequence of blocks.             *)
(***************************************************************************)
EXTENDS Naturals, Sequences, FiniteSets

CONSTANTS
  Hashes,        \* info hashes
  NumBlocks,     \* blocks of a piece
  Readers,       \* the threads that call PieceStore::read_piece
  MaxStorages,   \* calls of new_torrent per behaviour
  MaxFiles,      \* piece files created per behaviour
  MaxWriteErrors \* failing writes per behaviour

ASSUME LocksAssumption ==
  /\ {MaxStorages, MaxFiles, MaxWriteErrors} \subseteq Nat
  /\ NumBlocks \in Nat \ {0}

VARIABLES
  g_piece_locks, \* the mutex of each info hash, 0 while it has none
  mutexes,       \* the mutexes made so far: the writer's hold, the readers' holds
  m_storages,    \* the info hash of each storage
  m_next_index,
  piece_path,    \* the file each info hash's piece has, 0 if none
  files,         \* the blocks of every file ever created
  writer,        \* what the disk thread does
  readers,       \* what each reader does
  torn           \* ghost: <<file, block>> left half written by a failed write

lockVars == <<g_piece_locks, mutexes, m_storages, m_next_index, piece_path, files, writer,
              readers, torn>>

Blocks == 1..NumBlocks
Idle == [pc |-> "idle"]
NewMutex == [exclusive |-> FALSE, shared |-> {}]

LocksInit ==
  /\ g_piece_locks = [h \in Hashes |-> 0] /\ mutexes = <<>>
  /\ m_storages = <<>> /\ m_next_index = 1
  /\ piece_path = [h \in Hashes |-> 0] /\ files = <<>> /\ torn = {}
  /\ writer = Idle /\ readers = [r \in Readers |-> Idle]

-----------------------------------------------------------------------------
(* The registry.                                                            *)

\* Looks the mutex of h up, or makes it; either way h's entry is id then.
get_piece_lock(h, id) ==
  IF g_piece_locks[h] # 0
  THEN id = g_piece_locks[h] /\ UNCHANGED <<g_piece_locks, mutexes>>
  ELSE /\ id = Len(mutexes) + 1
       /\ mutexes' = Append(mutexes, NewMutex)
       /\ g_piece_locks' = [g_piece_locks EXCEPT ![h] = id]

find_piece_lock(h) == g_piece_locks[h]

-----------------------------------------------------------------------------
(* The disk thread runs one call at a time.                                 *)

Indices == DOMAIN m_storages

new_torrent(h) ==
  /\ writer = Idle /\ m_next_index <= MaxStorages
  /\ m_storages' = [i \in Indices \cup {m_next_index} |->
                      IF i = m_next_index THEN h ELSE m_storages[i]]
  /\ m_next_index' = m_next_index + 1
  /\ UNCHANGED <<g_piece_locks, mutexes, piece_path, files, writer, readers, torn>>

\* Mutant: the last storage takes the registry's entry with it.
RemoveErasesLock(i) ==
  /\ writer = Idle /\ i \in Indices
  /\ m_storages' = [j \in Indices \ {i} |-> m_storages[j]]
  /\ g_piece_locks' = [g_piece_locks EXCEPT ![m_storages[i]] = 0]
  /\ UNCHANGED <<mutexes, m_next_index, piece_path, files, writer, readers, torn>>

\* The mutex stays in the registry.
remove_torrent(i) ==
  /\ writer = Idle /\ i \in Indices
  /\ m_storages' = [j \in Indices \ {i} |-> m_storages[j]]
  /\ UNCHANGED <<g_piece_locks, mutexes, m_next_index, piece_path, files, writer, readers, torn>>

\* get_storage finds the storage, and write_piece the mutex it waits for.  For a
\* storage that is gone the handler gets an error and nothing changes.
async_write(i, b) ==
  /\ writer = Idle /\ i \in Indices
  /\ \E id \in 1..(Len(mutexes) + 1) :
       /\ get_piece_lock(m_storages[i], id)
       /\ writer' = [pc |-> "lock", hash |-> m_storages[i], block |-> b, mutex |-> id, file |-> 0]
  /\ UNCHANGED <<m_storages, m_next_index, piece_path, files, readers, torn>>

LockExclusive ==
  /\ writer.pc = "lock"
  /\ ~mutexes[writer.mutex].exclusive /\ mutexes[writer.mutex].shared = {}
  /\ mutexes' = [mutexes EXCEPT ![writer.mutex].exclusive = TRUE]
  /\ writer' = [writer EXCEPT !.pc = "open"]
  /\ UNCHANGED <<g_piece_locks, m_storages, m_next_index, piece_path, files, readers, torn>>

\* The file is created if it is not there, or cannot be.
OpenFile ==
  /\ writer.pc = "open"
  /\ \/ /\ piece_path[writer.hash] # 0
        /\ writer' = [writer EXCEPT !.pc = "write", !.file = piece_path[writer.hash]]
        /\ UNCHANGED <<piece_path, files>>
     \/ /\ piece_path[writer.hash] = 0 /\ Len(files) < MaxFiles
        /\ files' = Append(files, [b \in Blocks |-> "none"])
        /\ piece_path' = [piece_path EXCEPT ![writer.hash] = Len(files')]
        /\ writer' = [writer EXCEPT !.pc = "write", !.file = Len(files')]
     \/ /\ piece_path[writer.hash] = 0
        /\ writer' = [writer EXCEPT !.pc = "unlock"]
        /\ UNCHANGED <<piece_path, files>>
  /\ UNCHANGED <<g_piece_locks, mutexes, m_storages, m_next_index, readers, torn>>

\* The block reaches the file in two halves.
WriteHalf ==
  /\ writer.pc = "write"
  /\ files' = [files EXCEPT ![writer.file][writer.block] = "half"]
  /\ writer' = [writer EXCEPT !.pc = "rest"]
  /\ UNCHANGED <<g_piece_locks, mutexes, m_storages, m_next_index, piece_path, readers, torn>>

\* The rest follows, or the write or flush fails and the half stays.
WriteRest ==
  /\ writer.pc = "rest"
  /\ \/ /\ files' = [files EXCEPT ![writer.file][writer.block] = "whole"]
        /\ torn' = torn \ {<<writer.file, writer.block>>}
     \/ /\ Cardinality(torn) < MaxWriteErrors
        /\ torn' = torn \cup {<<writer.file, writer.block>>}
        /\ UNCHANGED files
  /\ writer' = [writer EXCEPT !.pc = "unlock"]
  /\ UNCHANGED <<g_piece_locks, mutexes, m_storages, m_next_index, piece_path, readers>>

\* write_piece returns and libtorrent's handler is posted.
UnlockExclusive ==
  /\ writer.pc = "unlock"
  /\ mutexes' = [mutexes EXCEPT ![writer.mutex].exclusive = FALSE]
  /\ writer' = Idle
  /\ UNCHANGED <<g_piece_locks, m_storages, m_next_index, piece_path, files, readers, torn>>

-----------------------------------------------------------------------------
(* PieceStore::read_piece under its PieceReadLockGuard.                     *)

Reading(r) == readers[r].pc = "reading"

lt_lock_piece_read(r, h) ==
  /\ readers[r] = Idle
  /\ \E id \in 1..(Len(mutexes) + 1) :
       /\ get_piece_lock(h, id)
       /\ readers' = [readers EXCEPT ![r] = [pc |-> "lock", hash |-> h, mutex |-> id]]
  /\ UNCHANGED <<m_storages, m_next_index, piece_path, files, writer, torn>>

\* lock_shared waits for the writer; then fs::read opens the file, or fails.
LockShared(r) ==
  /\ readers[r].pc = "lock" /\ ~mutexes[readers[r].mutex].exclusive
  /\ mutexes' = [mutexes EXCEPT ![readers[r].mutex].shared = @ \cup {r}]
  /\ LET file == piece_path[readers[r].hash]
     IN readers' = [readers EXCEPT ![r] =
          [pc |-> IF file = 0 THEN "unlock" ELSE "reading", hash |-> readers[r].hash,
           mutex |-> readers[r].mutex, file |-> file, data |-> <<>>]]
  /\ UNCHANGED <<g_piece_locks, m_storages, m_next_index, piece_path, files, writer, torn>>

ReadBlock(r) ==
  /\ Reading(r) /\ Len(readers[r].data) < NumBlocks
  /\ LET block == files[readers[r].file][Len(readers[r].data) + 1]
     IN readers' = [readers EXCEPT ![r].data = Append(@, block)]
  /\ UNCHANGED <<g_piece_locks, mutexes, m_storages, m_next_index, piece_path, files, writer, torn>>

\* The guard is dropped: the mutex is looked up by name once more.
lt_unlock_piece_read(r) ==
  /\ \/ readers[r].pc = "unlock"
     \/ Reading(r) /\ Len(readers[r].data) = NumBlocks
  /\ LET id == find_piece_lock(readers[r].hash)
     IN mutexes' = [m \in DOMAIN mutexes |->
          IF m = id THEN [mutexes[m] EXCEPT !.shared = @ \ {r}] ELSE mutexes[m]]
  /\ readers' = [readers EXCEPT ![r] = Idle]
  /\ UNCHANGED <<g_piece_locks, m_storages, m_next_index, piece_path, files, writer, torn>>

-----------------------------------------------------------------------------
\* The cache deletes a piece file without this lock; who has it open keeps it.
EvictFile(h) ==
  /\ piece_path[h] # 0
  /\ piece_path' = [piece_path EXCEPT ![h] = 0]
  /\ UNCHANGED <<g_piece_locks, mutexes, m_storages, m_next_index, files, writer, readers, torn>>

LocksNext ==
  \/ \E h \in Hashes : new_torrent(h) \/ EvictFile(h)
  \/ \E i \in 1..MaxStorages : remove_torrent(i) \/ \E b \in Blocks : async_write(i, b)
  \/ LockExclusive \/ OpenFile \/ WriteHalf \/ WriteRest \/ UnlockExclusive
  \/ \E r \in Readers :
       \/ \E h \in Hashes : lt_lock_piece_read(r, h)
       \/ LockShared(r) \/ ReadBlock(r) \/ lt_unlock_piece_read(r)

LocksSpec == LocksInit /\ [][LocksNext]_lockVars

-----------------------------------------------------------------------------
(* What PieceStore::read_piece returns is the file as it was at one        *)
(* moment: what was read so far is still what the file has, and no block   *)
(* is half written but one whose write failed.  This holds while storages  *)
(* of the same torrent come and go, pieces are evicted and others write.   *)
GuardedReadIsOneState ==
  \A r \in Readers : Reading(r) =>
    \A b \in 1..Len(readers[r].data) :
      /\ readers[r].data[b] = files[readers[r].file][b]
      /\ readers[r].data[b] = "half" => <<readers[r].file, b>> \in torn

=============================================================================
