----------------------------- MODULE CacheManager -----------------------------
(***************************************************************************)
(* The piece cache's in-memory index and the piece files it governs.  One  *)
(* action per mutator of CacheManager; each runs under the cache mutex, so *)
(* it is one step, except for the eviction pass that add_piece and         *)
(* register_incomplete_piece end with, which keeps the mutex for one step  *)
(* per victim.                                                             *)
(*                                                                         *)
(* A piece file is the set of its blocks that hold written data; its       *)
(* length reaches to the last of them, so a file can have full length and  *)
(* still be partial.  Timestamps come from the wall clock, which may repeat*)
(* or step back: a mutator stamps its record with any of Stamps.  Hit and  *)
(* miss counters are left out, and metadata_dirty is MetadataStore's: every*)
(* change of metadata here is a Mutate step there.                         *)
(***************************************************************************)
EXTENDS Integers, FiniteSets, FiniteSetsExt

CONSTANTS
  InfoHashes, \* info hashes, each the set of its piece keys
  PieceSize,  \* expected size of a piece, in blocks
  Stamps,     \* wall-clock readings
  MaxSize,    \* max_cache_size, in blocks
  SizeBound,  \* bound on current_size, which may drift upwards
  Faulty      \* whether unlink and marker calls may fail

\* piece keys, ordered like their strings
Keys == UNION InfoHashes

ASSUME CacheAssumption ==
  /\ InfoHashes \subseteq SUBSET Nat
  /\ \A g, h \in InfoHashes : g = h \/ g \cap h = {}
  /\ PieceSize \in Nat \ {0}
  /\ Stamps \subseteq Nat
  /\ MaxSize \in Nat
  /\ SizeBound \in Nat
  /\ Faulty \in BOOLEAN

Blocks == 1 .. PieceSize

VARIABLES
  metadata,      \* registered key -> [last_accessed, size]
  lru,           \* access order, a set of <<last_accessed, key>>
  verified,      \* verified_piece_keys
  incomplete,    \* incomplete_piece_keys
  current_size,
  evicting,      \* an eviction pass holds the cache mutex
  skipped,       \* victims this pass could not delete
  dirs,          \* info hashes whose directory exists
  file,          \* key -> blocks written to its file, {} when there is none
  marker         \* keys with an .incomplete marker on disk

index == <<metadata, lru, verified, incomplete, current_size>>
pass == <<evicting, skipped>>
disk == <<dirs, file, marker>>
cmVars == <<index, pass, disk>>

Record == [last_accessed : Stamps, size : Nat]

-----------------------------------------------------------------------------
registered == DOMAIN metadata

has_piece(k) == k \in registered

\* fs::metadata(path).len(), zero when there is no file.
Length(k) == Cardinality({n \in Blocks : \E b \in file[k] : n <= b})

Size(k) == IF has_piece(k) THEN metadata[k].size ELSE 0

\* What the sizes of some keys add up to, as the number of blocks they stand for.
Units(size) == UNION {{k} \X (1 .. size[k]) : k \in DOMAIN size}

Total(size) == Cardinality(Units(size))

SumSizes(S) == Total([k \in S |-> metadata[k].size])

SaturatingSub(a, b) == IF b < a THEN a - b ELSE 0

Entry(k) == <<metadata[k].last_accessed, k>>

\* BTreeSet order of (last_accessed, piece_key).
Before(e, f) == e[1] < f[1] \/ (e[1] = f[1] /\ e[2] < f[2])

CacheLocked == evicting

-----------------------------------------------------------------------------
\* Mutant: a re-registered piece is credited again in full.
InsertCreditsAgain(k, size, now) ==
  /\ metadata' = [j \in registered \cup {k} |->
                    IF j = k THEN [last_accessed |-> now, size |-> size]
                             ELSE metadata[j]]
  /\ lru' = (lru \ (IF has_piece(k) THEN {Entry(k)} ELSE {})) \cup {<<now, k>>}
  /\ current_size' = current_size + size
  /\ current_size' <= SizeBound
  /\ evicting' = (current_size' > MaxSize)
  /\ skipped' = {}

(* The bookkeeping shared by add_piece and register_incomplete_piece: the   *)
(* record replaces the previous one, only growth is credited, and a pass    *)
(* follows when the budget is exceeded.                                     *)
Insert(k, size, now) ==
  /\ metadata' = [j \in registered \cup {k} |->
                    IF j = k THEN [last_accessed |-> now, size |-> size]
                             ELSE metadata[j]]
  /\ lru' = (lru \ (IF has_piece(k) THEN {Entry(k)} ELSE {})) \cup {<<now, k>>}
  /\ current_size' = current_size + SaturatingSub(size, Size(k))
  /\ current_size' <= SizeBound
  /\ evicting' = (current_size' > MaxSize)
  /\ skipped' = {}

\* A complete piece: verified, no longer incomplete, its marker removed (or
\* left behind with a warning).
add_piece(k, size) ==
  /\ ~CacheLocked
  /\ \E now \in Stamps : Insert(k, size, now)
  /\ verified' = verified \cup {k}
  /\ incomplete' = incomplete \ {k}
  /\ \/ marker' = marker \ {k}
     \/ Faulty /\ marker' = marker
  /\ UNCHANGED <<dirs, file>>

\* A partial piece: the marker is created and synced first; when either step
\* fails nothing is registered, though the marker may have been created.
register_incomplete_piece(k, size) ==
  /\ ~CacheLocked
  /\ \/ /\ k \in UNION dirs
        /\ marker' = marker \cup {k}
        /\ \E now \in Stamps : Insert(k, size, now)
        /\ verified' = verified \ {k}
        /\ incomplete' = incomplete \cup {k}
        /\ UNCHANGED <<dirs, file>>
     \/ /\ k \in UNION dirs
        /\ Faulty
        /\ marker' \in {marker, marker \cup {k}}
        /\ UNCHANGED <<index, pass, dirs, file>>
     \/ /\ k \notin UNION dirs
        /\ UNCHANGED cmVars

\* Mutant: the previous entry stays in the access order.
RecordAccessKeepsEntry(k) ==
  /\ ~CacheLocked
  /\ has_piece(k)
  /\ \E now \in Stamps :
       /\ metadata' = [metadata EXCEPT ![k].last_accessed = now]
       /\ lru' = lru \cup {<<now, k>>}
  /\ UNCHANGED <<verified, incomplete, current_size, pass, disk>>

record_access(k) ==
  /\ ~CacheLocked
  /\ has_piece(k)
  /\ \E now \in Stamps :
       /\ metadata' = [metadata EXCEPT ![k].last_accessed = now]
       /\ lru' = (lru \ {Entry(k)}) \cup {<<now, k>>}
  /\ UNCHANGED <<verified, incomplete, current_size, pass, disk>>

\* Mutant: the incomplete tag survives the verdict.
MarkVerifiedKeepsTag(k) ==
  /\ ~CacheLocked
  /\ verified' = verified \cup {k}
  /\ UNCHANGED <<metadata, lru, incomplete, current_size, pass, disk>>

\* The verifier's verdict; the marker file is not touched, and the key need
\* not be registered any more.
mark_verified(k) ==
  /\ ~CacheLocked
  /\ verified' = verified \cup {k}
  /\ incomplete' = incomplete \ {k}
  /\ UNCHANGED <<metadata, lru, current_size, pass, disk>>

forget(S) ==
  /\ metadata' = Restrict(metadata, registered \ S)
  /\ lru' = lru \ {Entry(k) : k \in S \cap registered}
  /\ verified' = verified \ S
  /\ incomplete' = incomplete \ S

\* Mutants: the length on disk is debited instead of the registered size,
\* without and with saturation.
RemoveDebitsLength(k) ==
  /\ file' = [file EXCEPT ![k] = {}]
  /\ marker' = marker \ {k}
  /\ current_size' = current_size - Length(k)
  /\ forget({k})
  /\ UNCHANGED dirs

RemoveDebitsLengthSaturating(k) ==
  /\ file' = [file EXCEPT ![k] = {}]
  /\ marker' = marker \ {k}
  /\ current_size' = SaturatingSub(current_size, Length(k))
  /\ forget({k})
  /\ UNCHANGED dirs

\* Unlink the file and its marker, debit the registered size, forget the key.
remove_piece(k) ==
  /\ file' = [file EXCEPT ![k] = {}]
  /\ \/ marker' = marker \ {k}
     \/ Faulty /\ marker' = marker
  /\ current_size' = SaturatingSub(current_size, Size(k))
  /\ forget({k})
  /\ UNCHANGED dirs

delete_piece(k) ==
  /\ ~CacheLocked
  /\ \/ remove_piece(k) /\ UNCHANGED pass
     \/ Faulty /\ UNCHANGED cmVars

\* The in-memory half of a purge; skipped when the directory is back.
drop_infohash_state_if_absent(h) ==
  /\ ~CacheLocked
  /\ \/ h \in dirs /\ UNCHANGED cmVars
     \/ /\ h \notin dirs
        /\ current_size' = SaturatingSub(current_size, SumSizes(h \cap registered))
        /\ forget(h)
        /\ UNCHANGED <<pass, disk>>

-----------------------------------------------------------------------------
(* evict_lru, one iteration per step.                                       *)

Evictable == {e \in lru : e[2] \notin incomplete \cup skipped}

EvictOne ==
  /\ evicting
  /\ current_size > MaxSize
  /\ registered # {}
  /\ \E e \in Evictable :
       /\ \A f \in Evictable \ {e} : Before(e, f)
       /\ \/ remove_piece(e[2]) /\ UNCHANGED pass
          \/ /\ Faulty
             /\ skipped' = skipped \cup {e[2]}
             /\ UNCHANGED <<index, evicting, disk>>

\* Mutant: the pass does not stop when no victim is left.
EvictUntilWithinBudget ==
  /\ evicting
  /\ current_size <= MaxSize \/ registered = {}
  /\ evicting' = FALSE
  /\ skipped' = {}
  /\ UNCHANGED <<index, disk>>

EvictDone ==
  /\ evicting
  /\ \/ current_size <= MaxSize
     \/ registered = {}
     \/ Evictable = {}
  /\ evicting' = FALSE
  /\ skipped' = {}
  /\ UNCHANGED <<index, disk>>

Evict == EvictOne \/ EvictDone

-----------------------------------------------------------------------------
(* CacheManager::new: every piece file on disk is registered at its length, *)
(* unverified, with its loaded timestamp or a new one; a marker beside it   *)
(* tags it incomplete.  The scan does not evict.                            *)

OnDisk == {k \in Keys : file[k] # {}}

rebuild_index ==
  /\ \E stamp \in [OnDisk -> Stamps] :
       /\ metadata' = [k \in OnDisk |-> [last_accessed |-> stamp[k], size |-> Length(k)]]
       /\ lru' = {<<stamp[k], k>> : k \in OnDisk}
  /\ verified' = {}
  /\ incomplete' = OnDisk \cap marker
  /\ current_size' = Total([k \in OnDisk |-> Length(k)])
  /\ evicting' = FALSE
  /\ skipped' = {}
  /\ UNCHANGED disk

-----------------------------------------------------------------------------
(* An open system: callers register a key at its length or at the expected  *)
(* size, and the files change underneath (libtorrent writes blocks, the     *)
(* purge and the operator remove them).                                     *)

Init ==
  /\ metadata = [k \in {} |-> [last_accessed |-> 0, size |-> 0]]
  /\ lru = {}
  /\ verified = {}
  /\ incomplete = {}
  /\ current_size = 0
  /\ evicting = FALSE
  /\ skipped = {}
  /\ dirs = {}
  /\ file = [k \in Keys |-> {}]
  /\ marker = {}

DiskChanges ==
  /\ \E h \in InfoHashes :
       \/ \E k \in h, blocks \in SUBSET Blocks :
            /\ dirs' = dirs \cup {h}
            /\ file' = [file EXCEPT ![k] = blocks]
            /\ marker' \in {marker \cup {k}, marker \ {k}}
       \/ /\ dirs' = dirs \ {h}
          /\ file' = [k \in Keys |-> IF k \in h THEN {} ELSE file[k]]
          /\ marker' = marker \ h
  /\ UNCHANGED <<index, pass>>

Next ==
  \/ \E k \in Keys, size \in Blocks : add_piece(k, size)
  \/ \E k \in Keys, size \in Blocks : register_incomplete_piece(k, size)
  \/ \E k \in Keys : record_access(k)
  \/ \E k \in Keys : mark_verified(k)
  \/ \E k \in Keys : delete_piece(k)
  \/ \E h \in InfoHashes : drop_infohash_state_if_absent(h)
  \/ Evict
  \/ rebuild_index
  \/ DiskChanges

Spec == Init /\ [][Next]_cmVars

FairSpec == Spec /\ WF_cmVars(Evict)

-----------------------------------------------------------------------------
(* Properties.                                                              *)

\* Every variable has its type.
TypeOK ==
  /\ registered \subseteq Keys
  /\ metadata \in [registered -> Record]
  /\ lru \subseteq Stamps \X Keys
  /\ verified \subseteq Keys
  /\ incomplete \subseteq Keys
  /\ current_size \in Nat
  /\ evicting \in BOOLEAN
  /\ skipped \subseteq Keys
  /\ dirs \subseteq InfoHashes
  /\ file \in [Keys -> SUBSET Blocks]
  /\ marker \subseteq Keys

\* The access order mirrors the metadata map: one entry per registered key, at
\* its timestamp.  evict_lru takes its victims from the order and forget_piece
\* removes an entry only through the map, so a stray entry would keep the
\* eviction loop on the same victim for ever, under the cache mutex.
LruMirrorsMetadata ==
  lru = {Entry(k) : k \in registered}

\* A key is never both verified and incomplete, and an incomplete tag belongs
\* to a registered key: an orphan tag could never be evicted nor served.
TagsConsistent ==
  /\ verified \cap incomplete = {}
  /\ incomplete \subseteq registered

\* current_size never falls below what the registered records add up to: the
\* budget is never overrun unnoticed, through any mix of growth, shrinking
\* re-registration, failed removals, purges and restarts.
NeverUnderAccounts ==
  current_size >= SumSizes(registered)

\* An eviction pass ends, even when files cannot be deleted or every piece is
\* incomplete: it never keeps the cache mutex for good.
EvictionEnds ==
  evicting ~> ~evicting
=============================================================================
