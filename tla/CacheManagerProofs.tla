-------------------------- MODULE CacheManagerProofs --------------------------
(***************************************************************************)
(* The index stays consistent and never accounts for less than it holds,   *)
(* for every set of info hashes, piece size, cache budget and clock.       *)
(***************************************************************************)
EXTENDS CacheManager, FiniteSetTheorems, TLAPS

\* The index: its types, the mirror and the tags.  LruMirrorsMetadata is
\* inductive only together with the types of the map, and TagsConsistent only
\* because registration and removal touch both tag sets with the map.
IndexInv ==
  /\ registered \subseteq Keys
  /\ metadata \in [registered -> Record]
  /\ LruMirrorsMetadata
  /\ TagsConsistent

\* A file's length is a natural number.
LEMMA LengthType == \A k \in Keys : Length(k) \in Nat
<1> SUFFICES ASSUME NEW k \in Keys
             PROVE  Length(k) \in Nat
  OBVIOUS
<1>1. IsFiniteSet(1 .. PieceSize)
  BY CacheAssumption, FS_Interval
<1>2. IsFiniteSet({n \in Blocks : \E b \in file[k] : n <= b})
  BY <1>1, FS_Subset, Zenon DEF Blocks
<1> QED
  BY <1>2, FS_CardinalityType DEF Length

\* The empty index.
LEMMA InitIndexInv == Init => IndexInv
  BY DEF Init, IndexInv, registered, LruMirrorsMetadata, TagsConsistent, Entry

\* Registering a key, under either tag, keeps the mirror.
LEMMA InsertPreserves ==
  ASSUME NEW k \in Keys, NEW size \in Blocks, NEW now \in Stamps,
         IndexInv, Insert(k, size, now)
  PROVE  /\ DOMAIN metadata' = registered \cup {k}
         /\ metadata' \in [DOMAIN metadata' -> Record]
         /\ LruMirrorsMetadata'
<1>1. /\ DOMAIN metadata' = registered \cup {k}
      /\ metadata' \in [DOMAIN metadata' -> Record]
      /\ metadata'[k].last_accessed = now
      /\ \A j \in registered \ {k} : metadata'[j] = metadata[j]
  BY CacheAssumption DEF Insert, IndexInv, Record, Blocks, registered
<1>2. lru' = {Entry(j) : j \in registered \ {k}} \cup {<<now, k>>}
  <2>1. CASE has_piece(k)
    BY <2>1 DEF Insert, IndexInv, LruMirrorsMetadata, Entry, has_piece
  <2>2. CASE ~has_piece(k)
    BY <2>2 DEF Insert, IndexInv, LruMirrorsMetadata, Entry, has_piece
  <2> QED
    BY <2>1, <2>2
<1> QED
  BY <1>1, <1>2 DEF LruMirrorsMetadata, Entry, registered

\* Forgetting a set of keys keeps the index consistent.
LEMMA ForgetPreserves ==
  ASSUME NEW S \in SUBSET Keys, IndexInv, forget(S)
  PROVE  IndexInv'
<1>1. /\ DOMAIN metadata' = registered \ S
      /\ \A k \in registered \ S : metadata'[k] = metadata[k]
      /\ metadata' \in [DOMAIN metadata' -> Record]
  BY DEF forget, Restrict, IndexInv, registered
<1>2. lru' = {Entry(k) : k \in registered \ S}
  BY DEF forget, IndexInv, LruMirrorsMetadata, Entry
<1>3. LruMirrorsMetadata'
  BY <1>1, <1>2 DEF LruMirrorsMetadata, Entry, registered
<1>4. TagsConsistent'
  BY <1>1 DEF forget, IndexInv, TagsConsistent, registered
<1> QED
  BY <1>1, <1>3, <1>4 DEF IndexInv, registered

\* So does a step that leaves the index alone.
LEMMA IndexUnchanged ==
  ASSUME IndexInv, UNCHANGED index
  PROVE  IndexInv'
  BY DEF IndexInv, registered, LruMirrorsMetadata, TagsConsistent, Entry, index

\* Every mutator, every eviction step, the scan and the disk keep it.
LEMMA IndexInvStep == IndexInv /\ [Next]_cmVars => IndexInv'
<1> SUFFICES ASSUME IndexInv, [Next]_cmVars
             PROVE  IndexInv'
  OBVIOUS
<1>1. ASSUME NEW k \in Keys, NEW size \in Blocks, add_piece(k, size)
      PROVE  IndexInv'
  <2> PICK now \in Stamps : Insert(k, size, now)
    BY <1>1 DEF add_piece
  <2> QED
    BY <1>1, InsertPreserves, Zenon DEF add_piece, IndexInv, TagsConsistent, registered
<1>2. ASSUME NEW k \in Keys, NEW size \in Blocks, register_incomplete_piece(k, size)
      PROVE  IndexInv'
  <2>1. CASE UNCHANGED index
    BY <2>1, IndexUnchanged
  <2>2. CASE /\ \E now \in Stamps : Insert(k, size, now)
             /\ verified' = verified \ {k}
             /\ incomplete' = incomplete \cup {k}
    <3> PICK now \in Stamps : Insert(k, size, now)
      BY <2>2
    <3> QED
      BY <2>2, InsertPreserves, Zenon DEF IndexInv, TagsConsistent, registered
  <2> QED
    BY <1>2, <2>1, <2>2 DEF register_incomplete_piece, cmVars
<1>3. ASSUME NEW k \in Keys, record_access(k)
      PROVE  IndexInv'
  <2> PICK now \in Stamps :
        /\ metadata' = [metadata EXCEPT ![k].last_accessed = now]
        /\ lru' = (lru \ {Entry(k)}) \cup {<<now, k>>}
    BY <1>3, Zenon DEF record_access
  <2>1. /\ DOMAIN metadata' = registered
        /\ metadata'[k].last_accessed = now
        /\ \A j \in registered \ {k} : metadata'[j] = metadata[j]
        /\ metadata' \in [DOMAIN metadata' -> Record]
    BY <1>3 DEF record_access, IndexInv, registered, has_piece, Record
  <2>2. lru' = {Entry(j) : j \in registered \ {k}} \cup {<<now, k>>}
    BY <1>3 DEF record_access, has_piece, IndexInv, LruMirrorsMetadata, Entry
  <2>3. LruMirrorsMetadata'
    BY <1>3, <2>1, <2>2 DEF record_access, has_piece, LruMirrorsMetadata, Entry, registered
  <2>4. TagsConsistent'
    BY <1>3, <2>1 DEF record_access, IndexInv, TagsConsistent, registered
  <2> QED
    BY <2>1, <2>3, <2>4 DEF IndexInv, registered
<1>4. ASSUME NEW k \in Keys, mark_verified(k)
      PROVE  IndexInv'
  BY <1>4 DEF mark_verified, IndexInv, registered, LruMirrorsMetadata,
              TagsConsistent, Entry
<1>5. ASSUME NEW k \in Keys, delete_piece(k)
      PROVE  IndexInv'
  BY <1>5, ForgetPreserves, IndexUnchanged DEF delete_piece, remove_piece, cmVars
<1>6. ASSUME NEW h \in InfoHashes, drop_infohash_state_if_absent(h)
      PROVE  IndexInv'
  BY <1>6, ForgetPreserves, IndexUnchanged
     DEF drop_infohash_state_if_absent, cmVars, Keys
<1>7. CASE Evict
  <2>1. ASSUME NEW e \in Evictable, remove_piece(e[2])
        PROVE  IndexInv'
    <3>1. e[2] \in Keys
      BY DEF Evictable, IndexInv, LruMirrorsMetadata, Entry
    <3> QED
      BY <2>1, <3>1, ForgetPreserves DEF remove_piece
  <2> QED
    BY <1>7, <2>1, IndexUnchanged DEF Evict, EvictOne, EvictDone
<1>8. CASE rebuild_index
  <2> PICK stamp \in [OnDisk -> Stamps] :
        /\ metadata' = [k \in OnDisk |-> [last_accessed |-> stamp[k], size |-> Length(k)]]
        /\ lru' = {<<stamp[k], k>> : k \in OnDisk}
    BY <1>8 DEF rebuild_index
  <2>1. /\ DOMAIN metadata' = OnDisk
        /\ \A k \in OnDisk : metadata'[k].last_accessed = stamp[k]
        /\ metadata' \in [DOMAIN metadata' -> Record]
    BY LengthType DEF Record, OnDisk
  <2>2. LruMirrorsMetadata'
    BY <2>1 DEF LruMirrorsMetadata, Entry, registered
  <2>3. TagsConsistent'
    BY <1>8, <2>1 DEF rebuild_index, TagsConsistent, registered
  <2> QED
    BY <2>1, <2>2, <2>3 DEF IndexInv, registered, OnDisk
<1>9. CASE DiskChanges
  BY <1>9, IndexUnchanged DEF DiskChanges
<1>10. CASE UNCHANGED cmVars
  BY <1>10, IndexUnchanged DEF cmVars
<1> QED
  BY <1>1, <1>2, <1>3, <1>4, <1>5, <1>6, <1>7, <1>8, <1>9, <1>10 DEF Next

\* The order that eviction walks mirrors the metadata map in every reachable
\* state, so a victim is always a registered piece and forget_piece always
\* takes it out of the order.
THEOREM MirrorKept == Spec => []LruMirrorsMetadata
<1>1. IndexInv => LruMirrorsMetadata
  BY DEF IndexInv
<1> QED
  BY <1>1, InitIndexInv, IndexInvStep, PTL DEF Spec

\* No key is tagged both verified and incomplete, and no incomplete tag
\* outlives its registration.
THEOREM TagsKept == Spec => []TagsConsistent
<1>1. IndexInv => TagsConsistent
  BY DEF IndexInv
<1> QED
  BY <1>1, InitIndexInv, IndexInvStep, PTL DEF Spec

-----------------------------------------------------------------------------
(* Sums of sizes.                                                           *)

\* Sizes of finitely many keys have a sum.
LEMMA TotalType ==
  ASSUME NEW D, IsFiniteSet(D), NEW size \in [D -> Nat]
  PROVE  IsFiniteSet(Units(size)) /\ Total(size) \in Nat
<1> DEFINE part == [k \in D |-> {k} \X (1 .. size[k])]
           parts == {{k} \X (1 .. size[k]) : k \in D}
<1>1. part \in Surjection(D, parts)
  BY Zenon DEF Surjection
<1>2. IsFiniteSet(parts)
  BY <1>1, FS_Surjection
<1>3. ASSUME NEW k \in D PROVE IsFiniteSet({k} \X (1 .. size[k]))
  <2>1. 1 \in Int /\ size[k] \in Int
    OBVIOUS
  <2>2. IsFiniteSet({k}) /\ IsFiniteSet(1 .. size[k])
    BY <2>1, FS_Singleton, FS_Interval, Zenon
  <2> QED
    BY <2>2, FS_Product, Zenon
<1>4. IsFiniteSet(UNION parts)
  BY <1>2, <1>3, FS_UNION, Zenon
<1>5. Units(size) = UNION parts
  BY DEF Units
<1> QED
  BY <1>4, <1>5, FS_CardinalityType DEF Total

\* The sum over a set is the sum over a part and over the rest.
LEMMA TotalSplit ==
  ASSUME NEW D, IsFiniteSet(D), NEW size \in [D -> Nat], NEW A \in SUBSET D
  PROVE  Total(size) = Total([k \in A |-> size[k]]) + Total([k \in D \ A |-> size[k]])
<1> DEFINE left == [k \in A |-> size[k]]
           right == [k \in D \ A |-> size[k]]
<1>1. left \in [A -> Nat] /\ right \in [D \ A -> Nat]
  OBVIOUS
<1>2. IsFiniteSet(A) /\ IsFiniteSet(D \ A)
  BY FS_Subset
<1>3. Units(size) = Units(left) \cup Units(right) /\ Units(left) \cap Units(right) = {}
  BY DEF Units
<1> HIDE DEF left, right
<1>4. /\ IsFiniteSet(Units(left)) /\ Total(left) \in Nat
      /\ IsFiniteSet(Units(right)) /\ Total(right) \in Nat
  BY <1>1, <1>2, TotalType
<1>5. Total(size) = Total(left) + Total(right) - Cardinality({})
  BY <1>3, <1>4, FS_Union DEF Total
<1> QED
  BY <1>4, <1>5, FS_EmptySet DEF left, right

\* The sum over one key is its size, over none it is zero.
LEMMA TotalOne ==
  ASSUME NEW x, NEW size \in [{x} -> Nat]
  PROVE  Total(size) = size[x]
<1>1. Units(size) = {x} \X (1 .. size[x])
  BY DEF Units
<1>2. IsFiniteSet({x}) /\ Cardinality({x}) = 1
  BY FS_Singleton, Zenon
<1>3. IsFiniteSet(1 .. size[x]) /\ Cardinality(1 .. size[x]) = size[x]
  <2>1. 1 \in Int /\ size[x] \in Int /\ size[x] \in Nat
    OBVIOUS
  <2>2. IsFiniteSet(1 .. size[x])
        /\ Cardinality(1 .. size[x]) = IF 1 > size[x] THEN 0 ELSE size[x] - 1 + 1
    BY <2>1, FS_Interval, SMTT(30)
  <2> QED
    BY <2>1, <2>2
<1>4. Cardinality({x} \X (1 .. size[x])) = Cardinality({x}) * Cardinality(1 .. size[x])
  BY <1>2, <1>3, FS_Product, Zenon
<1> QED
  BY <1>1, <1>2, <1>3, <1>4 DEF Total

LEMMA TotalNone ==
  ASSUME NEW size, DOMAIN size = {}
  PROVE  Total(size) = 0
  BY FS_EmptySet DEF Total, Units

\* What the records of a set of registered keys add up to.
LEMMA SumType ==
  ASSUME IndexInv, IsFiniteSet(registered), NEW S \in SUBSET registered
  PROVE  /\ SumSizes(S) \in Nat
         /\ SumSizes(registered) = SumSizes(S) + SumSizes(registered \ S)
<1> DEFINE size == [k \in registered |-> metadata[k].size]
<1>1. size \in [registered -> Nat]
  BY DEF IndexInv, Record
<1>2. /\ [k \in S |-> size[k]] = [k \in S |-> metadata[k].size]
      /\ [k \in registered \ S |-> size[k]] = [k \in registered \ S |-> metadata[k].size]
  OBVIOUS
<1>3. [k \in S |-> size[k]] \in [S -> Nat] /\ IsFiniteSet(S)
  BY <1>1, FS_Subset
<1>4. SumSizes(registered) = Total(size)
  BY DEF SumSizes
<1> HIDE DEF size
<1>5. Total(size) = Total([k \in S |-> size[k]]) + Total([k \in registered \ S |-> size[k]])
  BY <1>1, TotalSplit, SMTT(30)
<1>6. Total([k \in S |-> size[k]]) \in Nat
  BY <1>3, TotalType
<1> QED
  BY <1>2, <1>4, <1>5, <1>6 DEF SumSizes

\* Registering a key replaces its size in the sum.
LEMMA InsertSum ==
  ASSUME NEW k \in Keys, NEW size \in Blocks, NEW now \in Stamps,
         IndexInv, IsFiniteSet(registered), Insert(k, size, now)
  PROVE  /\ IsFiniteSet(registered)'
         /\ Size(k) \in Nat /\ SumSizes(registered \ {k}) \in Nat
         /\ SumSizes(registered) = SumSizes(registered \ {k}) + Size(k)
         /\ SumSizes(registered)' = SumSizes(registered \ {k}) + size
<1>1. /\ registered' = registered \cup {k}
      /\ metadata' \in [registered' -> Record]
      /\ metadata'[k].size = size /\ size \in Nat
      /\ \A j \in registered \ {k} : metadata'[j] = metadata[j]
  BY CacheAssumption DEF Insert, IndexInv, Record, Blocks, registered
<1>2. IsFiniteSet(registered')
  BY <1>1, FS_AddElement
<1>3. SumSizes(registered \ {k}) \in Nat
  BY SumType, Zenon
<1>4. Size(k) \in Nat /\ SumSizes(registered) = SumSizes(registered \ {k}) + Size(k)
  <2>1. CASE has_piece(k)
    <3>1. [j \in {k} |-> metadata[j].size] \in [{k} -> Nat] /\ metadata[k].size \in Nat
      BY <2>1 DEF has_piece, IndexInv, Record
    <3>2. SumSizes({k}) = metadata[k].size
      BY <3>1, TotalOne DEF SumSizes
    <3>3. {k} \in SUBSET registered
      BY <2>1 DEF has_piece
    <3>4. SumSizes(registered) = SumSizes({k}) + SumSizes(registered \ {k})
      BY <3>3, SumType
    <3> QED
      BY <1>3, <2>1, <3>1, <3>2, <3>4 DEF Size
  <2>2. CASE ~has_piece(k)
    <3>1. registered \ {k} = registered
      BY <2>2 DEF has_piece
    <3> QED
      BY <1>3, <2>2, <3>1 DEF Size
  <2> QED
    BY <2>1, <2>2
<1>5. SumSizes(registered)' = SumSizes(registered \ {k}) + size
  <2> DEFINE now_sizes == [j \in registered' |-> metadata'[j].size]
  <2>1. now_sizes \in [registered' -> Nat]
    BY <1>1 DEF Record
  <2>2. /\ registered' \ (registered' \ {k}) = {k}
        /\ registered' \ {k} = registered \ {k}
    BY <1>1
  <2>3. /\ [j \in registered' \ {k} |-> now_sizes[j]] = [j \in registered \ {k} |-> metadata[j].size]
        /\ [j \in {k} |-> now_sizes[j]] \in [{k} -> Nat] /\ now_sizes[k] = size
    BY <1>1, <2>1, <2>2
  <2>4. SumSizes(registered)' = Total(now_sizes)
    BY DEF SumSizes
  <2> HIDE DEF now_sizes
  <2>5. Total(now_sizes) = Total([j \in registered' \ {k} |-> now_sizes[j]])
                             + Total([j \in registered' \ (registered' \ {k}) |-> now_sizes[j]])
    BY <1>2, <2>1, TotalSplit
  <2>6. Total([j \in {k} |-> now_sizes[j]]) = size
    BY <2>3, TotalOne
  <2> QED
    BY <2>2, <2>3, <2>4, <2>5, <2>6 DEF SumSizes
<1> QED
  BY <1>2, <1>3, <1>4, <1>5

\* Forgetting keys takes theirs out of the sum.
LEMMA ForgetSum ==
  ASSUME NEW S, IndexInv, IsFiniteSet(registered), forget(S)
  PROVE  /\ IsFiniteSet(registered)'
         /\ SumSizes(S \cap registered) \in Nat /\ SumSizes(registered)' \in Nat
         /\ SumSizes(registered) = SumSizes(S \cap registered) + SumSizes(registered)'
<1>1. /\ registered' = registered \ S
      /\ \A k \in registered \ S : metadata'[k] = metadata[k]
  BY DEF forget, Restrict, registered
<1>2. IsFiniteSet(registered')
  BY <1>1, FS_Subset
<1>3. S \cap registered \in SUBSET registered /\ registered \ (S \cap registered) = registered \ S
      /\ registered \ S \in SUBSET registered
  OBVIOUS
<1>4. SumSizes(registered) = SumSizes(S \cap registered) + SumSizes(registered \ S)
      /\ SumSizes(S \cap registered) \in Nat /\ SumSizes(registered \ S) \in Nat
  BY <1>3, SumType, Zenon
<1>5. SumSizes(registered)' = SumSizes(registered \ S)
  <2>1. [k \in registered' |-> metadata'[k].size] = [k \in registered \ S |-> metadata[k].size]
    BY <1>1
  <2> QED
    BY <2>1 DEF SumSizes
<1> QED
  BY <1>2, <1>4, <1>5

\* Removing one piece debits its record.
LEMMA RemoveSum ==
  ASSUME NEW k, IndexInv, IsFiniteSet(registered), remove_piece(k)
  PROVE  /\ IsFiniteSet(registered)' /\ SumSizes(registered)' \in Nat /\ Size(k) \in Nat
         /\ SumSizes(registered) = Size(k) + SumSizes(registered)'
<1>1. forget({k})
  BY DEF remove_piece
<1>2. /\ IsFiniteSet(registered)'
      /\ SumSizes({k} \cap registered) \in Nat /\ SumSizes(registered)' \in Nat
      /\ SumSizes(registered) = SumSizes({k} \cap registered) + SumSizes(registered)'
  BY <1>1, ForgetSum, Zenon
<1>3. SumSizes({k} \cap registered) = Size(k)
  <2>1. CASE has_piece(k)
    <3>1. [j \in {k} |-> metadata[j].size] \in [{k} -> Nat] /\ {k} \cap registered = {k}
      BY <2>1 DEF has_piece, IndexInv, Record
    <3>2. Total([j \in {k} |-> metadata[j].size]) = metadata[k].size
      BY <3>1, TotalOne
    <3> QED
      BY <2>1, <3>1, <3>2 DEF SumSizes, Size
  <2>2. CASE ~has_piece(k)
    <3>1. {k} \cap registered = {}
      BY <2>2 DEF has_piece
    <3> QED
      BY <2>2, <3>1, TotalNone, Zenon DEF SumSizes, Size
  <2> QED
    BY <2>1, <2>2
<1> QED
  BY <1>2, <1>3

-----------------------------------------------------------------------------
(* The accounting.                                                          *)

\* Only finitely many files were ever written, so the sums are sums of finitely
\* many sizes; a restart makes the account anew from the files.
FilesInv == file \in [Keys -> SUBSET Blocks] /\ IsFiniteSet(OnDisk)

AccountInv ==
  /\ IndexInv /\ FilesInv
  /\ IsFiniteSet(registered) /\ current_size \in Nat
  /\ NeverUnderAccounts

\* One file is written, or files are removed.
LEMMA FilesChange ==
  ASSUME FilesInv, file' \in [Keys -> SUBSET Blocks],
         NEW k, \A j \in Keys \ {k} : file'[j] \in {file[j], {}}
  PROVE  FilesInv'
<1>1. IsFiniteSet(OnDisk \cup {k})
  BY FS_AddElement DEF FilesInv
<1>2. OnDisk' \subseteq OnDisk \cup {k}
  BY DEF OnDisk
<1> QED
  BY <1>1, <1>2, FS_Subset DEF FilesInv

LEMMA FilesStep ==
  ASSUME IndexInv, FilesInv, [Next]_cmVars
  PROVE  FilesInv'
<1>1. CASE UNCHANGED file
  BY <1>1 DEF FilesInv, OnDisk
<1>2. ASSUME NEW k, remove_piece(k)
      PROVE  FilesInv'
  <2>1. /\ file' \in [Keys -> SUBSET Blocks]
        /\ \A j \in Keys \ {k} : file'[j] \in {file[j], {}}
    BY <1>2, Zenon DEF remove_piece, FilesInv
  <2> QED
    BY <2>1, FilesChange
<1>3. CASE DiskChanges
  <2>1. PICK h \in InfoHashes :
          \/ \E k \in h, blocks \in SUBSET Blocks : file' = [file EXCEPT ![k] = blocks]
          \/ file' = [k \in Keys |-> IF k \in h THEN {} ELSE file[k]]
    BY <1>3 DEF DiskChanges
  <2>2. ASSUME NEW k \in h, NEW blocks \in SUBSET Blocks, file' = [file EXCEPT ![k] = blocks]
        PROVE  FilesInv'
    <3>1. /\ file' \in [Keys -> SUBSET Blocks]
          /\ \A j \in Keys \ {k} : file'[j] \in {file[j], {}}
      BY <2>2, Zenon DEF FilesInv
    <3> QED
      BY <3>1, FilesChange
  <2>3. CASE file' = [k \in Keys |-> IF k \in h THEN {} ELSE file[k]]
    <3>1. /\ file' \in [Keys -> SUBSET Blocks]
          /\ \A j \in Keys \ {0} : file'[j] \in {file[j], {}}
      BY <2>3 DEF FilesInv
    <3> QED
      BY <3>1, FilesChange
  <2> QED
    BY <2>1, <2>2, <2>3
<1>4. CASE Evict
  BY <1>1, <1>2, <1>4 DEF Evict, EvictOne, EvictDone, disk
<1> QED
  BY <1>1, <1>2, <1>3, <1>4, Zenon
  DEF Next, add_piece, register_incomplete_piece, record_access, mark_verified, delete_piece,
      drop_infohash_state_if_absent, rebuild_index, cmVars, disk

\* A registration credits at least the growth.
LEMMA InsertAccounts ==
  ASSUME NEW k \in Keys, NEW size \in Blocks, NEW now \in Stamps,
         AccountInv, Insert(k, size, now)
  PROVE  /\ IsFiniteSet(registered)' /\ current_size' \in Nat /\ NeverUnderAccounts'
<1>1. /\ IsFiniteSet(registered)'
      /\ Size(k) \in Nat /\ SumSizes(registered \ {k}) \in Nat
      /\ SumSizes(registered) = SumSizes(registered \ {k}) + Size(k)
      /\ SumSizes(registered)' = SumSizes(registered \ {k}) + size
  BY InsertSum, Zenon DEF AccountInv
<1>2. /\ current_size' = current_size + SaturatingSub(size, Size(k))
      /\ current_size \in Nat /\ size \in Nat /\ current_size >= SumSizes(registered)
  BY CacheAssumption DEF Insert, AccountInv, NeverUnderAccounts, Blocks
<1> QED
  BY <1>1, <1>2 DEF SaturatingSub, NeverUnderAccounts

\* A removal debits at most what the record held.
LEMMA RemoveAccounts ==
  ASSUME NEW k, AccountInv, remove_piece(k)
  PROVE  /\ IsFiniteSet(registered)' /\ current_size' \in Nat /\ NeverUnderAccounts'
<1>1. /\ IsFiniteSet(registered)' /\ SumSizes(registered)' \in Nat /\ Size(k) \in Nat
      /\ SumSizes(registered) = Size(k) + SumSizes(registered)'
  BY RemoveSum DEF AccountInv
<1>2. /\ current_size' = SaturatingSub(current_size, Size(k))
      /\ current_size \in Nat /\ current_size >= SumSizes(registered)
  BY DEF remove_piece, AccountInv, NeverUnderAccounts
<1> QED
  BY <1>1, <1>2 DEF SaturatingSub, NeverUnderAccounts

\* A step that leaves every record's size alone leaves the account right.
LEMMA SameSizes ==
  ASSUME IndexInv, registered' = registered, \A k \in registered : metadata'[k].size = metadata[k].size
  PROVE  SumSizes(registered)' = SumSizes(registered)
<1>1. [k \in registered' |-> metadata'[k].size] = [k \in registered |-> metadata[k].size]
  OBVIOUS
<1> QED
  BY <1>1 DEF SumSizes

\* The scan registers each file at its length.
LEMMA RebuildSum ==
  ASSUME FilesInv, rebuild_index
  PROVE  /\ registered' = OnDisk /\ IsFiniteSet(registered)'
         /\ current_size' \in Nat /\ current_size' = SumSizes(registered)'
<1>1. PICK stamp \in [OnDisk -> Stamps] :
        metadata' = [k \in OnDisk |-> [last_accessed |-> stamp[k], size |-> Length(k)]]
  BY DEF rebuild_index
<1>2. registered' = OnDisk /\ \A k \in OnDisk : metadata'[k].size = Length(k)
  BY <1>1 DEF registered
<1>3. [k \in registered' |-> metadata'[k].size] = [k \in OnDisk |-> Length(k)]
  BY <1>2
<1>4. [k \in OnDisk |-> Length(k)] \in [OnDisk -> Nat]
  BY LengthType DEF OnDisk
<1>5. Total([k \in OnDisk |-> Length(k)]) \in Nat
  BY <1>4, TotalType DEF FilesInv
<1> QED
  BY <1>2, <1>3, <1>5 DEF SumSizes, rebuild_index, FilesInv

LEMMA AccountStep == AccountInv /\ [Next]_cmVars => AccountInv'
<1> SUFFICES ASSUME AccountInv, [Next]_cmVars
             PROVE  IsFiniteSet(registered)' /\ current_size' \in Nat /\ NeverUnderAccounts'
  BY IndexInvStep, FilesStep DEF AccountInv
<1>1. ASSUME NEW k \in Keys, NEW size \in Blocks, NEW now \in Stamps, Insert(k, size, now)
      PROVE  IsFiniteSet(registered)' /\ current_size' \in Nat /\ NeverUnderAccounts'
  BY <1>1, InsertAccounts
<1>2. ASSUME NEW k, remove_piece(k)
      PROVE  IsFiniteSet(registered)' /\ current_size' \in Nat /\ NeverUnderAccounts'
  BY <1>2, RemoveAccounts
<1>3. CASE UNCHANGED <<metadata, current_size>>
  <2>1. registered' = registered
    BY <1>3 DEF registered
  <2>2. SumSizes(registered)' = SumSizes(registered)
    BY <1>3, <2>1, SameSizes DEF AccountInv
  <2> QED
    BY <1>3, <2>1, <2>2 DEF AccountInv, NeverUnderAccounts
<1>4. ASSUME NEW k \in Keys, record_access(k)
      PROVE  IsFiniteSet(registered)' /\ current_size' \in Nat /\ NeverUnderAccounts'
  <2>1. PICK now \in Stamps : metadata' = [metadata EXCEPT ![k].last_accessed = now]
    BY <1>4, Zenon DEF record_access
  <2>2. registered' = registered /\ \A j \in registered : metadata'[j].size = metadata[j].size
    BY <2>1 DEF AccountInv, IndexInv, Record, registered
  <2>3. SumSizes(registered)' = SumSizes(registered)
    BY <2>2, SameSizes DEF AccountInv
  <2> QED
    BY <1>4, <2>2, <2>3 DEF record_access, AccountInv, NeverUnderAccounts
<1>5. ASSUME NEW h \in InfoHashes, drop_infohash_state_if_absent(h), ~UNCHANGED cmVars
      PROVE  IsFiniteSet(registered)' /\ current_size' \in Nat /\ NeverUnderAccounts'
  <2>1. forget(h) /\ current_size' = SaturatingSub(current_size, SumSizes(h \cap registered))
    BY <1>5 DEF drop_infohash_state_if_absent
  <2>2. /\ IsFiniteSet(registered)'
        /\ SumSizes(h \cap registered) \in Nat /\ SumSizes(registered)' \in Nat
        /\ SumSizes(registered) = SumSizes(h \cap registered) + SumSizes(registered)'
    BY <2>1, ForgetSum DEF AccountInv
  <2>3. current_size \in Nat /\ current_size >= SumSizes(registered)
    BY DEF AccountInv, NeverUnderAccounts
  <2> QED
    BY <2>1, <2>2, <2>3 DEF SaturatingSub, NeverUnderAccounts
<1>6. CASE rebuild_index
  BY <1>6, RebuildSum DEF AccountInv, NeverUnderAccounts
<1>7. CASE Evict
  BY <1>2, <1>3, <1>7 DEF Evict, EvictOne, EvictDone, index
<1> QED
  BY <1>1, <1>2, <1>3, <1>4, <1>5, <1>6, <1>7
  DEF Next, add_piece, register_incomplete_piece, mark_verified, delete_piece, DiskChanges,
      cmVars, index

\* The account starts with nothing registered and nothing on disk.
LEMMA InitAccountInv == Init => AccountInv
<1> SUFFICES ASSUME Init PROVE AccountInv
  OBVIOUS
<1>1. registered = {} /\ OnDisk = {} /\ current_size = 0 /\ file \in [Keys -> SUBSET Blocks]
  BY DEF Init, registered, OnDisk
<1>2. SumSizes(registered) = 0
  BY <1>1, TotalNone DEF SumSizes
<1> QED
  BY <1>1, <1>2, InitIndexInv, FS_EmptySet DEF AccountInv, FilesInv, NeverUnderAccounts

\* current_size never falls below the sum of the registered sizes, for any pieces
\* and callers: what add_piece credits and remove_piece and the purge debit may
\* drift, but never to the side on which the budget is overrun unnoticed.
THEOREM BudgetNeverOverrun == Spec => []NeverUnderAccounts
<1>1. AccountInv => NeverUnderAccounts
  BY DEF AccountInv
<1> QED
  BY <1>1, InitAccountInv, AccountStep, PTL DEF Spec

\* Every variable of the cache keeps its type.
LEMMA TypeStep ==
  ASSUME TypeOK, AccountInv, [Next]_cmVars
  PROVE  TypeOK'
<1>1. /\ registered' \subseteq Keys /\ metadata' \in [registered' -> Record]
      /\ file' \in [Keys -> SUBSET Blocks] /\ current_size' \in Nat
  BY AccountStep DEF AccountInv, IndexInv, FilesInv
<1>2. lru' \subseteq Stamps \X Keys
  <2>1. IndexInv'
    BY AccountStep DEF AccountInv
  <2>2. lru' = {<<metadata'[k].last_accessed, k>> : k \in registered'}
    BY <2>1 DEF IndexInv, LruMirrorsMetadata, Entry
  <2> QED
    BY <1>1, <2>2 DEF Record
<1>3. verified' \subseteq Keys /\ incomplete' \subseteq Keys
  <2> USE DEF TypeOK
  <2>1. ASSUME NEW S, forget(S) PROVE verified' \subseteq Keys /\ incomplete' \subseteq Keys
    BY <2>1 DEF forget
  <2>2. CASE UNCHANGED <<verified, incomplete>>
    BY <2>2
  <2>3. ASSUME NEW k \in Keys, mark_verified(k) \/ \E size \in Blocks : add_piece(k, size)
        PROVE  verified' \subseteq Keys /\ incomplete' \subseteq Keys
    BY <2>3 DEF mark_verified, add_piece
  <2>4. ASSUME NEW k \in Keys, NEW size \in Blocks, register_incomplete_piece(k, size)
        PROVE  verified' \subseteq Keys /\ incomplete' \subseteq Keys
    BY <2>2, <2>4 DEF register_incomplete_piece, index, cmVars
  <2>5. CASE rebuild_index
    BY <2>5 DEF rebuild_index, OnDisk
  <2>6. CASE Evict
    BY <2>1, <2>2, <2>6, Zenon DEF Evict, EvictOne, EvictDone, remove_piece, index
  <2> QED
    BY <2>1, <2>2, <2>3, <2>4, <2>5, <2>6, Zenon
    DEF Next, record_access, delete_piece, remove_piece, drop_infohash_state_if_absent,
        DiskChanges, cmVars, index
<1>4. evicting' \in BOOLEAN
  <2>1. ASSUME NEW k, NEW size, NEW now, Insert(k, size, now) PROVE evicting' \in BOOLEAN
    <3>1. evicting' = (current_size' > MaxSize)
      BY <2>1 DEF Insert
    <3> DEFINE over == current_size' > MaxSize
    <3>2. over \in BOOLEAN
      OBVIOUS
    <3>3. evicting' = over
      BY <3>1, Zenon
    <3> HIDE DEF over
    <3> QED
      BY <3>2, <3>3
  <2>2. evicting' = evicting \/ evicting' = FALSE \/ \E k, size, now : Insert(k, size, now)
    BY Zenon DEF Next, add_piece, register_incomplete_piece, record_access, mark_verified,
       delete_piece, drop_infohash_state_if_absent, Evict, EvictOne, EvictDone, rebuild_index,
       DiskChanges, cmVars, pass
  <2> QED
    BY <2>1, <2>2, ZenonT(60) DEF TypeOK
<1>5. skipped' \subseteq Keys
  <2>1. CASE EvictOne
    <3>1. \A e \in Evictable : e[2] \in Keys
      <4>1. \A e \in Stamps \X Keys : e[2] \in Keys
        OBVIOUS
      <4> QED
        BY <4>1 DEF Evictable, TypeOK
    <3>2. PICK e \in Evictable : skipped' = skipped \/ skipped' = skipped \cup {e[2]}
      BY <2>1, Zenon DEF EvictOne, pass
    <3>3. e[2] \in Keys
      BY <3>1
    <3> QED
      BY <3>2, <3>3 DEF TypeOK
  <2>2. CASE ~EvictOne
    BY <2>2, Zenon DEF TypeOK, Next, add_piece, register_incomplete_piece, Insert, record_access,
       mark_verified, delete_piece, drop_infohash_state_if_absent, Evict, EvictDone,
       rebuild_index, DiskChanges, cmVars, pass
  <2> QED
    BY <2>1, <2>2
<1>6. dirs' \subseteq InfoHashes /\ marker' \subseteq Keys
  <2>1. CASE DiskChanges
    BY <2>1 DEF DiskChanges, TypeOK, Keys
  <2>2. CASE ~DiskChanges
    BY <2>2, Zenon DEF TypeOK, Next, add_piece, register_incomplete_piece, record_access, mark_verified,
       delete_piece, remove_piece, drop_infohash_state_if_absent, Evict, EvictOne, EvictDone,
       rebuild_index, cmVars, disk
  <2> QED
    BY <2>1, <2>2
<1> QED
  BY <1>1, <1>2, <1>3, <1>4, <1>5, <1>6 DEF TypeOK

LEMMA InitTypes == Init => TypeOK
<1> SUFFICES ASSUME Init PROVE TypeOK
  OBVIOUS
<1>1. registered \subseteq Keys /\ metadata \in [registered -> Record]
      /\ file \in [Keys -> SUBSET Blocks] /\ current_size \in Nat
  BY InitAccountInv DEF AccountInv, IndexInv, FilesInv
<1> QED
  BY <1>1, Zenon DEF Init, TypeOK

\* The index, the eviction pass and the files always have the types that
\* CacheManager's fields and the directory layout give them.
THEOREM CacheTypes == Spec => []TypeOK
<1>1. (TypeOK /\ AccountInv) /\ [Next]_cmVars => (TypeOK /\ AccountInv)'
  BY TypeStep, AccountStep
<1> QED
  BY <1>1, InitTypes, InitAccountInv, PTL DEF Spec
=============================================================================
