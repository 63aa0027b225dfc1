------------------------- MODULE PieceLifecycleProofs -------------------------
(***************************************************************************)
(* Proofs about PieceLifecycle for every number and size of pieces, cache  *)
(* budget and set of disturbances: libtorrent's bitfield never vouches for *)
(* a partial file, and everything that touches the cache is a step of      *)
(* CacheManager, so that what CacheManagerProofs shows holds here.         *)
(***************************************************************************)
EXTENDS PieceLifecycle, CacheManagerProofs

\* What the threads carry from step to step names real pieces and lengths.
InHand ==
  /\ have \subseteq Keys
  /\ alerts \subseteq Keys
  /\ writing \in Keys \cup {NoKey}
  /\ engine.op \in {"finished", "partial"} => engine.key \in Keys /\ engine.size \in Blocks
  /\ engine.op \in {"read", "reply"} => engine.key \in Keys
  /\ verifier.todo \subseteq Keys
  /\ verifier.pc = "apply" => verifier.key \in Keys

\* Files and markers live in the torrent's directory.
DiskInv ==
  /\ file \in [Keys -> SUBSET Blocks]
  /\ dirs \in SUBSET {Keys}
  /\ marker \subseteq Keys
  /\ dirs = {} => marker = {} /\ \A k \in Keys : file[k] = {}

\* HaveIsWholeOrGone needs the rest only for the types of what it speaks of;
\* the refinement needs all of it, since a thread calls into the cache with a
\* key and a length it picked up steps earlier.
LifecycleInv == IndexInv /\ InHand /\ DiskInv /\ HaveIsWholeOrGone

\* A file's length is at most a piece.
LEMMA LengthBound ==
  ASSUME NEW k \in Keys
  PROVE  Length(k) \in 0 .. PieceSize
<1> DEFINE S == {n \in Blocks : \E b \in file[k] : n <= b}
<1>1. IsFiniteSet(1 .. PieceSize) /\ Cardinality(1 .. PieceSize) = PieceSize
  BY CacheAssumption, FS_Interval
<1>2. IsFiniteSet(S) /\ Cardinality(S) <= Cardinality(1 .. PieceSize)
  BY <1>1, FS_Subset, S \subseteq 1 .. PieceSize, Zenon DEF Blocks
<1>3. Cardinality(S) \in Nat
  BY <1>2, FS_CardinalityType
<1> QED
  BY <1>1, <1>2, <1>3, CacheAssumption DEF Length

-----------------------------------------------------------------------------
(* Every step of the composition is a step of CacheManager or leaves it be. *)

\* A write to the directory of the one torrent is one of DiskChanges.
LEMMA FileChange ==
  ASSUME NEW k \in Keys, NEW blocks \in SUBSET Blocks,
         dirs' = dirs \cup {Keys},
         file' = [file EXCEPT ![k] = blocks],
         marker' \in {marker \cup {k}, marker \ {k}},
         UNCHANGED <<index, pass>>
  PROVE  DiskChanges
<1>1. Keys \in InfoHashes
  BY LifecycleAssumption, Zenon
<1> QED
  BY <1>1, Zenon DEF DiskChanges

\* libtorrent writes and markers; hashing and removal do not touch the cache.
LEMMA LibtorrentRefines ==
  ASSUME LifecycleInv, LibtorrentStep
  PROVE  [Next]_cmVars
<1>1. ASSUME NEW k \in Keys, NEW b \in Blocks, WriteBlock(k, b)
      PROVE  DiskChanges
  <2>1. file[k] \cup {b} \in SUBSET Blocks /\ file[k] \in SUBSET Blocks
    BY DEF LifecycleInv, DiskInv
  <2>2. \E blocks \in {file[k] \cup {b}, file[k]} : file' = [file EXCEPT ![k] = blocks]
    BY <1>1 DEF WriteBlock, LifecycleInv, DiskInv
  <2>3. dirs' = dirs \cup {Keys}
    BY <1>1 DEF WriteBlock, LifecycleInv, DiskInv
  <2>4. marker' \in {marker \cup {k}, marker \ {k}} /\ UNCHANGED <<index, pass>>
    BY <1>1 DEF WriteBlock
  <2> QED
    BY <2>1, <2>2, <2>3, <2>4, FileChange, Zenon
<1>2. CASE WriteMarker
  <2>1. CASE marker' = marker
    BY <1>2, <2>1 DEF WriteMarker, cmVars, disk
  <2>2. CASE dirs # {} /\ marker' = marker \cup {writing}
    <3>1. writing \in Keys
      BY <1>2 DEF WriteMarker, LifecycleInv, InHand
    <3>2. file' = [file EXCEPT ![writing] = file[writing]] /\ file[writing] \in SUBSET Blocks
      BY <1>2, <3>1 DEF WriteMarker, LifecycleInv, DiskInv
    <3>3. dirs' = dirs \cup {Keys}
      BY <1>2, <2>2 DEF WriteMarker, LifecycleInv, DiskInv
    <3>4. UNCHANGED <<index, pass>>
      BY <1>2 DEF WriteMarker
    <3> QED
      BY <2>2, <3>1, <3>2, <3>3, <3>4, FileChange, Zenon DEF Next
  <2> QED
    BY <1>2, <2>1, <2>2 DEF WriteMarker
<1>3. ASSUME NEW k \in Keys, HashPiece(k)
      PROVE  UNCHANGED cmVars
  BY <1>3 DEF HashPiece
<1>4. CASE RemovalDone
  BY <1>4 DEF RemovalDone
<1> QED
  BY <1>1, <1>2, <1>3, <1>4 DEF LibtorrentStep, Next

\* The engine calls the cache with the key and the length it carries.
LEMMA EngineRefines ==
  ASSUME LifecycleInv, EngineStep
  PROVE  [Next]_cmVars
<1>1. CASE EnsureHandle
  <2>1. PICK k \in Keys : TRUE
    BY LifecycleAssumption, Zenon
  <2>2. /\ file' = [file EXCEPT ![k] = file[k]] /\ file[k] \in SUBSET Blocks
        /\ dirs' = dirs \cup {Keys}
        /\ marker' \in {marker \cup {k}, marker \ {k}}
        /\ UNCHANGED <<index, pass>>
    BY <1>1 DEF EnsureHandle, LifecycleInv, DiskInv
  <2> QED
    BY <2>2, FileChange, Zenon DEF Next
<1>2. CASE RegisterFinished
  BY <1>2 DEF RegisterFinished, LifecycleInv, InHand, Next
<1>3. CASE RegisterPartial
  BY <1>3 DEF RegisterPartial, LifecycleInv, InHand, Next
<1>4. CASE FinishRead
  <2>1. engine.key \in Keys /\ PieceSize \in Blocks
    BY <1>4, CacheAssumption DEF FinishRead, LifecycleInv, InHand, Blocks
  <2> QED
    BY <1>4, <2>1 DEF FinishRead, Next
<1>5. CASE ReadFile \/ Recheck \/ RemoveHandle
  BY <1>5, Zenon DEF ReadFile, Recheck, RemoveHandle
<1>6. ASSUME NEW k \in Keys, HandlePieceFinished(k) \/ ReadTimedOut(k) \/ StartRead(k)
      PROVE  UNCHANGED cmVars
  BY <1>6 DEF HandlePieceFinished, ReadTimedOut, StartRead
<1> QED
  BY <1>1, <1>2, <1>3, <1>4, <1>5, <1>6 DEF EngineStep

\* So do the verifier, the purge, the restart and the operator.
LEMMA OthersRefine ==
  ASSUME LifecycleInv,
         \/ VerifierStep
         \/ PurgeStep
         \/ AddTorrent
         \/ Restart
         \/ \E k \in Keys : RemoveOutside(k)
  PROVE  [Next]_cmVars
<1>1. CASE ListUnverified \/ AddTorrent \/ DeleteRow \/ ReleaseHandle \/ GiveUp
  BY <1>1 DEF ListUnverified, AddTorrent, DeleteRow, ReleaseHandle, GiveUp
<1>2. ASSUME NEW k \in Keys, VerifyPiece(k)
      PROVE  UNCHANGED cmVars
  BY <1>2 DEF VerifyPiece
<1>3. CASE ApplyVerdict
  BY <1>3 DEF ApplyVerdict, LifecycleInv, InHand, Next
<1>4. ASSUME NEW k \in Keys, UnlinkPiece(k) \/ RemoveOutside(k)
      PROVE  DiskChanges
  <2>1. file' = [file EXCEPT ![k] = {}]
    BY <1>4 DEF UnlinkPiece, RemoveOutside
  <2>2. dirs' = dirs \cup {Keys}
    BY <1>4 DEF UnlinkPiece, RemoveOutside, LifecycleInv, DiskInv
  <2>3. marker' \in {marker \cup {k}, marker \ {k}} /\ UNCHANGED <<index, pass>>
    BY <1>4 DEF UnlinkPiece, RemoveOutside
  <2> QED
    BY <2>1, <2>2, <2>3, FileChange, Zenon
<1>5. CASE RemoveDirectory
  <2>1. dirs' = dirs \ {Keys}
    BY <1>5 DEF RemoveDirectory, LifecycleInv, DiskInv
  <2>2. file' = [k \in Keys |-> IF k \in Keys THEN {} ELSE file[k]]
    BY <1>5 DEF RemoveDirectory, LifecycleInv, DiskInv
  <2>3. marker' = marker \ Keys /\ UNCHANGED <<index, pass>>
    BY <1>5 DEF RemoveDirectory
  <2> QED
    BY <2>1, <2>2, <2>3, LifecycleAssumption, Zenon DEF DiskChanges, Next
<1>6. CASE DropState
  BY <1>6, LifecycleAssumption, Zenon DEF DropState, Next
<1>7. CASE Restart
  BY <1>7 DEF Restart, Next
<1> QED
  BY <1>1, <1>2, <1>3, <1>4, <1>5, <1>6, <1>7 DEF VerifierStep, PurgeStep, Next

\* Every step of the composition is a step of the cache, or none.
LEMMA StepRefines ==
  ASSUME LifecycleInv, [LifecycleNext]_plVars
  PROVE  [Next]_cmVars
<1>1. CASE EvictStep
  BY <1>1 DEF EvictStep, Next
<1>2. CASE UNCHANGED plVars
  BY <1>2 DEF plVars
<1> QED
  BY <1>1, <1>2, LibtorrentRefines, EngineRefines, OthersRefine DEF LifecycleNext

-----------------------------------------------------------------------------
(* The invariant is inductive.                                              *)

\* The cache keeps files and markers inside the directory.
LEMMA DiskInvStep ==
  ASSUME DiskInv, [Next]_cmVars
  PROVE  DiskInv'
<1>1. ASSUME NEW k \in Keys, NEW size \in Blocks, add_piece(k, size)
      PROVE  DiskInv'
  BY <1>1 DEF add_piece, DiskInv
<1>2. ASSUME NEW k \in Keys, NEW size \in Blocks, register_incomplete_piece(k, size)
      PROVE  DiskInv'
  BY <1>2 DEF register_incomplete_piece, DiskInv, cmVars, disk
<1>3. ASSUME NEW k \in Keys, remove_piece(k)
      PROVE  DiskInv'
  BY <1>3 DEF remove_piece, DiskInv
<1>4. CASE UNCHANGED disk
  BY <1>4 DEF DiskInv, disk
<1>5. CASE DiskChanges
  <2>1. PICK h \in InfoHashes :
          \/ \E k \in h, blocks \in SUBSET Blocks :
               /\ dirs' = dirs \cup {h}
               /\ file' = [file EXCEPT ![k] = blocks]
               /\ marker' \in {marker \cup {k}, marker \ {k}}
          \/ /\ dirs' = dirs \ {h}
             /\ file' = [k \in Keys |-> IF k \in h THEN {} ELSE file[k]]
             /\ marker' = marker \ h
    BY <1>5 DEF DiskChanges
  <2>2. h = Keys
    BY LifecycleAssumption, Zenon
  <2> QED
    BY <2>1, <2>2 DEF DiskInv
<1>6. ASSUME NEW k \in Keys, delete_piece(k)
      PROVE  DiskInv'
  BY <1>3, <1>4, <1>6 DEF delete_piece, cmVars
<1>7. CASE EvictOne
  <2>1. PICK e \in Evictable : remove_piece(e[2]) \/ UNCHANGED disk
    BY <1>7, Zenon DEF EvictOne
  <2>2. remove_piece(e[2]) => DiskInv'
    BY ZenonT(60) DEF remove_piece, DiskInv
  <2> QED
    BY <1>4, <2>1, <2>2
<1> QED
  BY <1>1, <1>2, <1>4, <1>5, <1>6, <1>7, Zenon
  DEF Next, record_access, mark_verified, drop_infohash_state_if_absent, Evict,
      EvictDone, rebuild_index, cmVars

\* What the threads pick up is a piece of the torrent and a length it can have.
LEMMA InHandStep ==
  ASSUME LifecycleInv, [LifecycleNext]_plVars
  PROVE  InHand'
<1> USE DEF InHand
<1>1. CASE LibtorrentStep
  <2>1. ASSUME NEW k \in Keys, NEW b \in Blocks, WriteBlock(k, b)
        PROVE  InHand'
    BY <2>1 DEF LifecycleInv, WriteBlock
  <2>2. CASE WriteMarker
    BY <2>2 DEF LifecycleInv, WriteMarker
  <2>3. ASSUME NEW k \in Keys, HashPiece(k)
        PROVE  InHand'
    BY <2>3 DEF LifecycleInv, HashPiece
  <2>4. CASE RemovalDone
    BY <2>4 DEF LifecycleInv, RemovalDone
  <2> QED
    BY <1>1, <2>1, <2>2, <2>3, <2>4 DEF LibtorrentStep
<1>2. CASE EngineStep
  <2>1. CASE EnsureHandle
    BY <2>1 DEF LifecycleInv, EnsureHandle, CheckFiles
  <2>2. ASSUME NEW k \in Keys, HandlePieceFinished(k)
        PROVE  InHand'
    <3>1. Length(k) # 0 => Length(k) \in Blocks
      BY LengthBound, CacheAssumption DEF Blocks
    <3>2. CASE Length(k) = 0
      BY <2>2, <3>2 DEF LifecycleInv, HandlePieceFinished, libtorrent, Idle
    <3>3. CASE Length(k) # 0
      BY <2>2, <3>1, <3>3 DEF LifecycleInv, HandlePieceFinished, libtorrent, Idle
    <3> QED
      BY <3>2, <3>3
  <2>3. ASSUME NEW k \in Keys, ReadTimedOut(k)
        PROVE  InHand'
    <3>1. Length(k) \in Blocks
      BY <2>3, LengthBound, CacheAssumption DEF Blocks, ReadTimedOut
    <3> QED
      BY <2>3, <3>1 DEF LifecycleInv, ReadTimedOut, libtorrent, Idle
  <2>4. ASSUME NEW k \in Keys, StartRead(k)
        PROVE  InHand'
    BY <2>4 DEF LifecycleInv, StartRead, libtorrent, Idle
  <2>5. CASE RegisterFinished \/ RegisterPartial \/ FinishRead
    BY <2>5 DEF LifecycleInv, RegisterFinished, RegisterPartial, FinishRead, libtorrent, Idle
  <2>6. CASE ReadFile
    <3>1. CASE engine' = Idle
      BY <2>6, <3>1 DEF LifecycleInv, ReadFile, libtorrent, Idle
    <3>2. CASE engine' = [engine EXCEPT !.op = "reply", !.data = file[engine.key]]
      <4>1. engine'.key = engine.key
        BY <3>2
      <4>2. engine'.op \in {"read", "reply"} \/ engine'.op = engine.op
        BY <3>2
      <4>3. engine.op = "read" /\ UNCHANGED <<alerts, have, writing, verifier>>
        BY <2>6 DEF ReadFile, libtorrent
      <4> QED
        BY <4>1, <4>2, <4>3 DEF LifecycleInv
    <3> QED
      BY <2>6, <3>1, <3>2 DEF ReadFile
  <2>7. CASE Recheck
    BY <2>7, Zenon DEF LifecycleInv, Recheck, CheckFiles
  <2>8. CASE RemoveHandle
    BY <2>8 DEF LifecycleInv, RemoveHandle
  <2> QED
    BY <1>2, <2>1, <2>2, <2>3, <2>4, <2>5, <2>6, <2>7, <2>8 DEF EngineStep
<1>3. CASE VerifierStep
  <2>1. CASE ListUnverified
    BY <2>1 DEF LifecycleInv, IndexInv, ListUnverified, Asleep, libtorrent
  <2>2. ASSUME NEW k \in Keys, VerifyPiece(k)
        PROVE  InHand'
    BY <2>2 DEF LifecycleInv, VerifyPiece, libtorrent
  <2>3. CASE ApplyVerdict
    BY <2>3 DEF LifecycleInv, ApplyVerdict, Asleep, libtorrent
  <2> QED
    BY <1>3, <2>1, <2>2, <2>3 DEF VerifierStep
<1>4. CASE Restart
  BY <1>4 DEF Restart, Idle, Asleep
<1>5. CASE UNCHANGED <<have, alerts, writing, engine, verifier>>
  BY <1>5 DEF LifecycleInv
<1> QED
  BY <1>1, <1>2, <1>3, <1>4, <1>5
  DEF LifecycleNext, plVars, libtorrent, EvictStep, PurgeStep, DeleteRow,
      ReleaseHandle, UnlinkPiece, RemoveDirectory, GiveUp, DropState, AddTorrent,
      RemoveOutside

\* Losing bits, or losing files whole, cannot make a bit vouch for a partial file.
LEMMA LossKeepsHave ==
  ASSUME LifecycleInv, have' \subseteq have,
         \A k \in have : file'[k] \in {file[k], {}}
  PROVE  HaveIsWholeOrGone'
  BY DEF LifecycleInv, HaveIsWholeOrGone, Whole

\* The cache itself only ever removes a file whole.
LEMMA CacheUnlinksWhole ==
  ASSUME LifecycleInv,
         \/ Evict
         \/ \E k \in Keys : \/ mark_verified(k)
                            \/ delete_piece(k)
                            \/ record_access(k)
                            \/ \E size \in Blocks : \/ add_piece(k, size)
                                                    \/ register_incomplete_piece(k, size)
  PROVE  \A k \in have : file'[k] \in {file[k], {}}
<1>1. ASSUME NEW j, remove_piece(j)
      PROVE  \A k \in have : file'[k] \in {file[k], {}}
  BY <1>1 DEF remove_piece, LifecycleInv, InHand, DiskInv
<1>2. CASE file' = file
  BY <1>2
<1>3. CASE Evict
  BY <1>1, <1>2, <1>3 DEF Evict, EvictOne, EvictDone, disk
<1> QED
  BY <1>1, <1>2, <1>3 DEF mark_verified, delete_piece, record_access, add_piece,
     register_incomplete_piece, disk, cmVars

\* Every step keeps the bitfield honest: a bit is set only by a hash of the
\* whole file, and a piece with a bit is not written.
LEMMA HaveStep ==
  ASSUME LifecycleInv, [LifecycleNext]_plVars
  PROVE  HaveIsWholeOrGone'
<1>1. ASSUME NEW k \in Keys, NEW b \in Blocks, WriteBlock(k, b)
      PROVE  HaveIsWholeOrGone'
  <2>1. \A j \in have : file'[j] = file[j]
    BY <1>1 DEF WriteBlock, LifecycleInv, InHand, DiskInv
  <2> QED
    BY <1>1, <2>1, LossKeepsHave DEF WriteBlock
<1>2. ASSUME NEW k \in Keys, HashPiece(k)
      PROVE  HaveIsWholeOrGone'
  BY <1>2 DEF HashPiece, LifecycleInv, HaveIsWholeOrGone, Whole, cmVars, disk
<1>3. CASE EnsureHandle \/ Recheck
  BY <1>3, Zenon DEF EnsureHandle, Recheck, CheckFiles, HaveIsWholeOrGone, Whole, cmVars, disk
<1>4. CASE Restart
  BY <1>4 DEF Restart, HaveIsWholeOrGone
<1>5. CASE RegisterFinished \/ RegisterPartial \/ FinishRead \/ ApplyVerdict \/ EvictStep
  <2>1. have' = have
    BY <1>5 DEF RegisterFinished, RegisterPartial, FinishRead, ApplyVerdict,
                EvictStep, libtorrent
  <2>2. PieceSize \in Blocks
    BY CacheAssumption DEF Blocks
  <2>3. \A k \in have : file'[k] \in {file[k], {}}
    <3>1. CASE UNCHANGED cmVars
      BY <3>1 DEF cmVars, disk
    <3> QED
      BY <1>5, <2>2, <3>1, CacheUnlinksWhole
      DEF RegisterFinished, RegisterPartial, FinishRead, ApplyVerdict, EvictStep,
          LifecycleInv, InHand
  <2> QED
    BY <2>1, <2>3, LossKeepsHave
<1>6. ASSUME NEW k \in Keys, UnlinkPiece(k) \/ RemoveOutside(k)
      PROVE  HaveIsWholeOrGone'
  <2>1. have' = have /\ \A j \in have : file'[j] \in {file[j], {}}
    BY <1>6 DEF UnlinkPiece, RemoveOutside, libtorrent, LifecycleInv, InHand, DiskInv
  <2> QED
    BY <2>1, LossKeepsHave
<1>7. CASE have' \subseteq have /\ file' = file
  BY <1>7, LossKeepsHave
<1> QED
  BY <1>1, <1>2, <1>3, <1>4, <1>5, <1>6, <1>7, ZenonT(60)
  DEF LifecycleNext, LibtorrentStep, WriteMarker, RemovalDone, EngineStep, RemoveHandle,
      HandlePieceFinished, ReadTimedOut, StartRead, ReadFile, VerifierStep,
      ListUnverified, VerifyPiece, PurgeStep, DeleteRow, ReleaseHandle,
      RemoveDirectory, GiveUp, DropState, drop_infohash_state_if_absent,
      AddTorrent, plVars, libtorrent, cmVars, disk

\* The invariant holds before the first start and after every step.
LEMMA LifecycleInvInductive ==
  /\ LifecycleInit => LifecycleInv
  /\ LifecycleInv /\ [LifecycleNext]_plVars => LifecycleInv'
<1>1. ASSUME LifecycleInit PROVE LifecycleInv
  <2>1. IndexInv
    BY <1>1, InitIndexInv DEF LifecycleInit
  <2>2. InHand
    BY <1>1 DEF LifecycleInit, InHand, Idle, Asleep
  <2>3. DiskInv
    BY <1>1 DEF LifecycleInit, Init, DiskInv
  <2>4. HaveIsWholeOrGone
    BY <1>1 DEF LifecycleInit, HaveIsWholeOrGone
  <2> QED
    BY <2>1, <2>2, <2>3, <2>4 DEF LifecycleInv
<1>2. ASSUME LifecycleInv, [LifecycleNext]_plVars PROVE LifecycleInv'
  BY <1>2, StepRefines, IndexInvStep, InHandStep, DiskInvStep, HaveStep
  DEF LifecycleInv
<1> QED
  BY <1>1, <1>2

-----------------------------------------------------------------------------
\* A have bit is backed by a whole file or by none, for any number of pieces and
\* any disturbance: piece_is_local may trust a bit whose file is long enough.
THEOREM BitfieldHonest == LifecycleSpec => []HaveIsWholeOrGone
<1>1. LifecycleInv => HaveIsWholeOrGone
  BY DEF LifecycleInv
<1> QED
  BY <1>1, LifecycleInvInductive, PTL DEF LifecycleSpec

\* The composition of libtorrent, engine, verifier, purge and restart uses the
\* cache only as CacheManager specifies.
THEOREM UsesCacheAsSpecified == LifecycleSpec => CacheRefined
<1>1. LifecycleInit => Init
  BY DEF LifecycleInit
<1>2. LifecycleInv /\ [LifecycleNext]_plVars => [Next]_cmVars
  BY StepRefines
<1> QED
  BY <1>1, <1>2, LifecycleInvInductive, PTL DEF LifecycleSpec, CacheRefined, Spec

\* So the consistency of the index carries over to the whole composition.
THEOREM IndexConsistentThroughout ==
  LifecycleSpec => [](LruMirrorsMetadata /\ TagsConsistent)
<1>1. LifecycleSpec => Spec
  BY UsesCacheAsSpecified DEF CacheRefined
<1> QED
  BY <1>1, MirrorKept, TagsKept, PTL

\* The operations the engine and the verifier can have in hand.
Operations == [op : {"idle", "finished", "partial", "read", "reply"},
               key : Keys \cup {NoKey}, size : Nat, data : SUBSET Blocks]

Verifications == [pc : {"off", "list", "loop", "apply"}, todo : SUBSET Keys,
                  key : Keys \cup {NoKey}, whole : BOOLEAN]

LEMMA EngineTypeStep ==
  ASSUME LifecycleTypeOK, LifecycleInv, [LifecycleNext]_plVars
  PROVE  engine' \in Operations
<1>1. engine \in Operations /\ file \in [Keys -> SUBSET Blocks]
  BY DEF LifecycleTypeOK, TypeOK, Operations
<1>2. \A k \in Keys : Length(k) \in Nat
  BY LengthBound, CacheAssumption
<1>3. Idle \in Operations
  BY DEF Idle, Operations
<1>4. ASSUME NEW k \in Keys, HandlePieceFinished(k) \/ ReadTimedOut(k) \/ StartRead(k)
      PROVE  engine' \in Operations
  <2>1. \/ engine' = Idle
        \/ engine' = [op |-> "finished", key |-> k, size |-> Length(k), data |-> {}]
        \/ engine' = [op |-> "partial", key |-> k, size |-> Length(k), data |-> {}]
        \/ engine' = [op |-> "read", key |-> k, size |-> 0, data |-> {}]
    BY <1>4, Zenon DEF HandlePieceFinished, ReadTimedOut, StartRead, Idle
  <2> QED
    BY <1>2, <1>3, <2>1 DEF Operations
<1>5. CASE ReadFile /\ engine.key \in Keys
  <2>1. file[engine.key] \in SUBSET Blocks
    BY <1>1, <1>5
  <2>2. \/ engine' = Idle
        \/ engine' = [engine EXCEPT !.op = "reply", !.data = file[engine.key]]
    BY <1>5 DEF ReadFile
  <2> QED
    BY <1>1, <1>3, <2>1, <2>2, Zenon DEF Operations
<1>6. ReadFile => engine.key \in Keys
  BY DEF ReadFile, LifecycleInv, InHand
<1>7. CASE engine' \in {engine, Idle}
  BY <1>1, <1>3, <1>7
<1> QED
  BY <1>4, <1>5, <1>6, <1>7, ZenonT(60)
  DEF LifecycleNext, LibtorrentStep, WriteBlock, WriteMarker, HashPiece, RemovalDone, EngineStep, RemoveHandle,
      EnsureHandle, RegisterFinished, RegisterPartial, FinishRead, Recheck, EvictStep,
      VerifierStep, ListUnverified, VerifyPiece, ApplyVerdict, PurgeStep, DeleteRow,
      ReleaseHandle, UnlinkPiece, RemoveDirectory, GiveUp, DropState, AddTorrent, Restart,
      RemoveOutside, plVars

LEMMA VerifierTypeStep ==
  ASSUME LifecycleTypeOK, [LifecycleNext]_plVars
  PROVE  verifier' \in Verifications
<1>1. verifier \in Verifications /\ registered \subseteq Keys
  BY DEF LifecycleTypeOK, TypeOK, Verifications
<1>2. Asleep \in Verifications /\ [Asleep EXCEPT !.pc = "list"] \in Verifications
  BY Zenon DEF Asleep, Verifications
<1>3. CASE ListUnverified
  <2>1. verifier' = [pc |-> "loop", todo |-> registered \ (verified \cup incomplete),
                     key |-> NoKey, whole |-> FALSE]
    BY <1>3, Zenon DEF ListUnverified, Asleep
  <2> QED
    BY <1>1, <2>1 DEF Verifications
<1>4. ASSUME NEW k \in Keys, VerifyPiece(k) PROVE verifier' \in Verifications
  <2>1. PICK w \in BOOLEAN :
          verifier' = [pc |-> "apply", todo |-> verifier.todo \ {k}, key |-> k, whole |-> w]
    <3>1. \A sparse : (Whole(k) /\ ~sparse) \in BOOLEAN
      BY Zenon
    <3> QED
      BY <1>4, <3>1, Zenon DEF VerifyPiece
  <2>3. verifier.todo \ {k} \in SUBSET Keys
    BY <1>1 DEF Verifications
  <2> QED
    BY <2>1, <2>3 DEF Verifications
<1>5. CASE ApplyVerdict
  <2>1. verifier' = [pc |-> "loop", todo |-> verifier.todo, key |-> NoKey, whole |-> FALSE]
    BY <1>5, Zenon DEF ApplyVerdict, Asleep
  <2> QED
    BY <1>1, <2>1 DEF Verifications
<1>6. CASE verifier' = verifier
  BY <1>1, <1>6
<1>7. CASE Restart
  BY <1>2, <1>7 DEF Restart
<1> QED
  BY <1>3, <1>4, <1>5, <1>6, <1>7, ZenonT(60)
  DEF LifecycleNext, LibtorrentStep, WriteBlock, WriteMarker, HashPiece, RemovalDone, EngineStep, RemoveHandle,
      EnsureHandle, HandlePieceFinished, ReadTimedOut, StartRead, ReadFile, RegisterFinished,
      RegisterPartial, FinishRead, Recheck, EvictStep, VerifierStep, PurgeStep, DeleteRow,
      ReleaseHandle, UnlinkPiece, RemoveDirectory, GiveUp, DropState, AddTorrent,
      RemoveOutside, plVars

LEMMA LifecycleTypeStep ==
  ASSUME LifecycleTypeOK, LifecycleInv, AccountInv, [LifecycleNext]_plVars
  PROVE  LifecycleTypeOK'
<1>1. TypeOK' /\ InHand'
  BY StepRefines, TypeStep, InHandStep DEF LifecycleTypeOK
<1>2. got' \in [Keys -> SUBSET Blocks]
  <2>1. got \in [Keys -> SUBSET Blocks] /\ NothingGot \in [Keys -> SUBSET Blocks]
    BY DEF LifecycleTypeOK, NothingGot
  <2>2. ASSUME NEW k \in Keys, HashPiece(k) PROVE got' \in [Keys -> SUBSET Blocks]
    BY <2>1, <2>2 DEF HashPiece
  <2>3. ASSUME NEW k \in Keys, NEW b \in Blocks, WriteBlock(k, b)
        PROVE  got' \in [Keys -> SUBSET Blocks]
    BY <2>1, <2>3 DEF WriteBlock
  <2>4. CASE got' \in {got, NothingGot}
    BY <2>1, <2>4
  <2> QED
    BY <2>2, <2>3, <2>4, ZenonT(60)
    DEF LifecycleNext, LibtorrentStep, WriteMarker, RemovalDone, EngineStep, RemoveHandle, CheckFiles,
        EnsureHandle, HandlePieceFinished, ReadTimedOut, StartRead, ReadFile, RegisterFinished,
        RegisterPartial, FinishRead, Recheck, EvictStep, VerifierStep, ListUnverified,
        VerifyPiece, ApplyVerdict, PurgeStep, DeleteRow, ReleaseHandle, UnlinkPiece,
        RemoveDirectory, GiveUp, DropState, AddTorrent, Restart, RemoveOutside, plVars, libtorrent
<1>3. /\ row' \in BOOLEAN /\ release' \in BOOLEAN
      /\ handle' \in {"none", "active", "leaving"}
      /\ purge' \in {"idle", "release", "remove", "drop", "done"}
  <2>1. row \in BOOLEAN /\ release \in BOOLEAN /\ handle \in {"none", "active", "leaving"}
        /\ purge \in {"idle", "release", "remove", "drop", "done"}
    BY DEF LifecycleTypeOK
  <2>2. row' \in {row, TRUE, FALSE}
    BY ZenonT(60) DEF LifecycleNext, LibtorrentStep, WriteBlock, WriteMarker, HashPiece, RemovalDone,
       EngineStep, RemoveHandle, EnsureHandle, HandlePieceFinished, ReadTimedOut, StartRead, ReadFile,
       RegisterFinished, RegisterPartial, FinishRead, Recheck, EvictStep, VerifierStep,
       ListUnverified, VerifyPiece, ApplyVerdict, PurgeStep, DeleteRow, ReleaseHandle,
       UnlinkPiece, RemoveDirectory, GiveUp, DropState, AddTorrent, Restart, RemoveOutside, plVars
  <2>3. handle' \in {handle, "none", "active", "leaving"}
    BY ZenonT(60) DEF LifecycleNext, LibtorrentStep, WriteBlock, WriteMarker, HashPiece, RemovalDone,
       EngineStep, RemoveHandle, EnsureHandle, HandlePieceFinished, ReadTimedOut, StartRead, ReadFile,
       RegisterFinished, RegisterPartial, FinishRead, Recheck, EvictStep, VerifierStep,
       ListUnverified, VerifyPiece, ApplyVerdict, PurgeStep, DeleteRow, ReleaseHandle,
       UnlinkPiece, RemoveDirectory, GiveUp, DropState, AddTorrent, Restart, RemoveOutside,
       plVars, libtorrent
  <2>4. purge' \in {purge, "idle", "release", "remove", "drop", "done"}
    BY ZenonT(60) DEF LifecycleNext, LibtorrentStep, WriteBlock, WriteMarker, HashPiece, RemovalDone,
       EngineStep, RemoveHandle, EnsureHandle, HandlePieceFinished, ReadTimedOut, StartRead, ReadFile,
       RegisterFinished, RegisterPartial, FinishRead, Recheck, EvictStep, VerifierStep,
       ListUnverified, VerifyPiece, ApplyVerdict, PurgeStep, DeleteRow, ReleaseHandle,
       UnlinkPiece, RemoveDirectory, GiveUp, DropState, AddTorrent, Restart, RemoveOutside, plVars,
       removal
  <2>5. release' \in {release, TRUE, FALSE}
    BY ZenonT(60) DEF LifecycleNext, LibtorrentStep, WriteBlock, WriteMarker, HashPiece, RemovalDone,
       EngineStep, RemoveHandle, EnsureHandle, HandlePieceFinished, ReadTimedOut, StartRead, ReadFile,
       RegisterFinished, RegisterPartial, FinishRead, Recheck, EvictStep, VerifierStep,
       ListUnverified, VerifyPiece, ApplyVerdict, PurgeStep, DeleteRow, ReleaseHandle,
       UnlinkPiece, RemoveDirectory, GiveUp, DropState, AddTorrent, Restart, RemoveOutside, plVars,
       removal
  <2>6. row' \in BOOLEAN /\ release' \in BOOLEAN
    BY <2>1, <2>2, <2>5, Zenon
  <2> QED
    BY <2>1, <2>3, <2>4, <2>6
<1>4. engine' \in Operations /\ verifier' \in Verifications
  BY EngineTypeStep, VerifierTypeStep
<1> QED
  BY <1>1, <1>2, <1>3, <1>4 DEF LifecycleTypeOK, InHand, Operations, Verifications

LEMMA LifecycleInitTypes == LifecycleInit => LifecycleTypeOK
<1> SUFFICES ASSUME LifecycleInit PROVE LifecycleTypeOK
  OBVIOUS
<1>1. TypeOK
  BY InitTypes DEF LifecycleInit
<1> QED
  BY <1>1, Zenon DEF LifecycleInit, LifecycleTypeOK, Idle, Asleep, NothingGot

\* The engine's, the verifier's and libtorrent's view of the pieces always have
\* their types, whatever disturbs them.
THEOREM LifecycleTypes == LifecycleSpec => []LifecycleTypeOK
<1> DEFINE I == LifecycleTypeOK /\ LifecycleInv /\ AccountInv
<1>1. LifecycleInit => I
  BY LifecycleInitTypes, LifecycleInvInductive, InitAccountInv DEF LifecycleInit
<1>2. I /\ [LifecycleNext]_plVars => I'
  BY LifecycleTypeStep, LifecycleInvInductive, StepRefines, AccountStep
<1> QED
  BY <1>1, <1>2, PTL DEF LifecycleSpec

-----------------------------------------------------------------------------
(* With crashes and failing calls as the only disturbances.                 *)

Quiet == Disturbances \subseteq {"crash"}

\* Nothing else runs, and an eviction pass suspends the engine between two of
\* its operations.
NothingElse ==
  /\ purge = "idle" /\ ~release
  /\ verifier.pc = "off" /\ handle \in {"none", "active"}
  /\ engine.op # "idle" => ~evicting

\* A verified piece is whole on disk.  An alert is handled while the bit it
\* announced is still set, so what it makes the engine register is whole.
WholeInv ==
  /\ verified \subseteq Keys /\ \A k \in verified : Whole(k)
  /\ alerts \subseteq have
  /\ handle = "none" => alerts = {}
  /\ engine.op \in {"finished", "read", "reply"} => Whole(engine.key)
  /\ engine.op = "reply" => engine.data = Blocks

\* A record is no larger than its file, and what the engine found is no smaller
\* than the record it will replace: nothing is registered at a smaller size.
SizesInv ==
  /\ \A k \in registered : metadata[k].size <= Length(k)
  /\ engine.op \in {"finished", "partial"} =>
       Size(engine.key) <= engine.size /\ engine.size <= Length(engine.key)
  /\ current_size = SumSizes(registered)

QuietInv ==
  /\ LifecycleInv /\ AccountInv /\ LifecycleTypeOK
  /\ NothingElse /\ WholeInv /\ SizesInv

\* A whole file has full length, no file has none, and writing only adds to it.
LEMMA LengthFacts ==
  ASSUME NEW k \in Keys
  PROVE  /\ Whole(k) => Length(k) = PieceSize
         /\ file[k] = {} => Length(k) = 0
<1>1. IsFiniteSet(1 .. PieceSize) /\ Cardinality(1 .. PieceSize) = PieceSize
  BY CacheAssumption, FS_Interval
<1>2. ASSUME Whole(k) PROVE Length(k) = PieceSize
  <2>1. {n \in Blocks : \E b \in file[k] : n <= b} = 1 .. PieceSize
    BY <1>2, CacheAssumption DEF Whole, Blocks
  <2> QED
    BY <1>1, <2>1, Zenon DEF Length
<1>3. ASSUME file[k] = {} PROVE Length(k) = 0
  <2>1. {n \in Blocks : \E b \in file[k] : n <= b} = {}
    BY <1>3
  <2> QED
    BY <2>1, FS_EmptySet DEF Length
<1> QED
  BY <1>2, <1>3

LEMMA LengthGrows ==
  ASSUME NEW k \in Keys, file[k] \subseteq file'[k]
  PROVE  Length(k) \in Nat /\ Length(k)' \in Nat /\ Length(k) <= Length(k)'
<1> DEFINE S == {n \in Blocks : \E b \in file[k] : n <= b}
           T == {n \in Blocks : \E b \in file'[k] : n <= b}
<1>1. IsFiniteSet(1 .. PieceSize)
  BY CacheAssumption, FS_Interval
<1>2. S \in SUBSET T /\ T \in SUBSET (1 .. PieceSize)
  BY DEF Blocks
<1>3. Length(k) = Cardinality(S) /\ Length(k)' = Cardinality(T)
  BY DEF Length
<1> HIDE DEF S, T
<1>4. IsFiniteSet(T)
  BY <1>1, <1>2, FS_Subset, Zenon
<1>5. IsFiniteSet(S) /\ Cardinality(S) <= Cardinality(T)
  BY <1>2, <1>4, FS_Subset, Zenon
<1> QED
  BY <1>3, <1>4, <1>5, FS_CardinalityType

\* A step that only adds blocks to files, and leaves the index alone.
Grows ==
  /\ UNCHANGED <<metadata, verified, current_size, evicting>>
  /\ \A k \in Keys : file[k] \subseteq file'[k] /\ file'[k] \subseteq Blocks

LEMMA GrowthKeeps ==
  ASSUME QuietInv, Grows
  PROVE  /\ verified' \subseteq Keys /\ \A k \in verified' : Whole(k)'
         /\ \A k \in registered' : metadata'[k].size <= Length(k)'
         /\ current_size' = SumSizes(registered)'
         /\ \A k \in Keys : /\ Whole(k) => Whole(k)'
                            /\ Length(k) \in Nat /\ Length(k)' \in Nat /\ Length(k) <= Length(k)'
                            /\ Size(k)' = Size(k)
<1>1. registered' = registered /\ registered \subseteq Keys /\ metadata \in [registered -> Record]
  BY DEF Grows, registered, QuietInv, LifecycleInv, IndexInv
<1>2. \A k \in Keys : Length(k) \in Nat /\ Length(k)' \in Nat /\ Length(k) <= Length(k)'
  BY LengthGrows DEF Grows
<1>3. \A k \in Keys : Whole(k) => Whole(k)'
  BY Zenon DEF Grows, Whole
<1>4. \A k \in Keys : Size(k)' = Size(k)
  BY <1>1 DEF Grows, Size, has_piece
<1>5. SumSizes(registered)' = SumSizes(registered)
  BY <1>1, SameSizes DEF Grows, QuietInv, LifecycleInv
<1>6. \A k \in registered' : metadata'[k].size <= Length(k)'
  <2> SUFFICES ASSUME NEW k \in registered PROVE metadata[k].size <= Length(k)'
    BY <1>1 DEF Grows
  <2>1. metadata[k].size \in Nat /\ metadata[k].size <= Length(k) /\ k \in Keys
    BY <1>1 DEF Record, QuietInv, SizesInv
  <2> QED
    BY <1>2, <2>1
<1> QED
  BY <1>2, <1>3, <1>4, <1>5, <1>6 DEF QuietInv, WholeInv, SizesInv, Grows

\* The engine's operation, when it is not one of the steps of its own.
LEMMA SameEngine ==
  ASSUME QuietInv, Grows, engine' = engine
  PROVE  /\ SizesInv'
         /\ engine'.op # "idle" => ~evicting'
         /\ engine'.op \in {"finished", "read", "reply"} => Whole(engine.key)'
         /\ engine'.op = "reply" => engine'.data = Blocks
<1>1. /\ engine.op \in {"finished", "partial"} => engine.key \in Keys /\ engine.size \in Blocks
      /\ engine.op \in {"read", "reply"} => engine.key \in Keys
  BY DEF QuietInv, LifecycleInv, InHand
<1>2. engine'.op \in {"finished", "partial"} =>
        Size(engine.key)' <= engine'.size /\ engine'.size <= Length(engine.key)'
  <2> SUFFICES ASSUME engine.op \in {"finished", "partial"}
               PROVE  Size(engine.key)' <= engine.size /\ engine.size <= Length(engine.key)'
    OBVIOUS
  <2>1. engine.key \in Keys /\ engine.size \in Nat
    BY <1>1, CacheAssumption DEF Blocks
  <2>2. Size(engine.key) <= engine.size /\ engine.size <= Length(engine.key)
    BY DEF QuietInv, SizesInv
  <2>3. /\ Length(engine.key) \in Nat /\ Length(engine.key)' \in Nat
        /\ Length(engine.key) <= Length(engine.key)' /\ Size(engine.key)' = Size(engine.key)
    BY <2>1, GrowthKeeps
  <2> QED
    BY <2>1, <2>2, <2>3
<1>3. engine'.op \in {"finished", "read", "reply"} => Whole(engine.key)'
  <2> SUFFICES ASSUME engine.op \in {"finished", "read", "reply"} PROVE Whole(engine.key)'
    OBVIOUS
  <2>1. engine.key \in Keys /\ Whole(engine.key)
    BY <1>1 DEF QuietInv, WholeInv
  <2> QED
    BY <2>1, GrowthKeeps
<1>4. SizesInv'
  BY <1>2, GrowthKeeps DEF SizesInv
<1> QED
  BY <1>3, <1>4 DEF QuietInv, NothingElse, WholeInv, Grows

\* libtorrent only adds blocks, and sets a bit with the alert.
LEMMA LibtorrentQuiet ==
  ASSUME QuietInv, LibtorrentStep
  PROVE  NothingElse' /\ WholeInv' /\ SizesInv'
<1>1. /\ file \in [Keys -> SUBSET Blocks] /\ have \subseteq Keys
      /\ purge = "idle" /\ ~release /\ verifier.pc = "off" /\ handle \in {"none", "active"}
      /\ alerts \subseteq have /\ (handle = "none" => alerts = {})
  BY DEF QuietInv, LifecycleInv, DiskInv, InHand, NothingElse, WholeInv
<1>2. Grows /\ engine' = engine
  <2>1. ASSUME NEW k \in Keys, NEW b \in Blocks, WriteBlock(k, b)
        PROVE  Grows
    BY <1>1, <2>1 DEF WriteBlock, Grows, index, pass
  <2>2. ASSUME file' = file, UNCHANGED <<index, pass>>
        PROVE  Grows
    <3>1. UNCHANGED <<metadata, verified, current_size, evicting>>
      BY <2>2 DEF index, pass
    <3>2. \A k \in Keys : file[k] \subseteq file'[k] /\ file'[k] \subseteq Blocks
      BY <1>1, <2>2
    <3> QED
      BY <3>1, <3>2 DEF Grows
  <2> QED
    BY <2>1, <2>2 DEF LibtorrentStep, WriteBlock, WriteMarker, HashPiece, RemovalDone, cmVars, disk
<1>3. /\ purge' = purge /\ release' = release /\ verifier' = verifier
      /\ handle' \in {"none", "active"} /\ alerts' \subseteq have'
      /\ handle' = "none" => alerts' = {}
  BY <1>1 DEF LibtorrentStep, WriteBlock, WriteMarker, HashPiece, RemovalDone, removal
<1> QED
  BY <1>1, <1>2, <1>3, SameEngine, GrowthKeeps DEF NothingElse, WholeInv

\* The engine's looks at the disk: what it will register, or answer with, is what
\* a whole file or a length it found justifies.
LEMMA LooksQuiet ==
  ASSUME QuietInv, Quiet,
         \/ EnsureHandle \/ Recheck \/ ReadFile
         \/ \E k \in Keys : HandlePieceFinished(k) \/ ReadTimedOut(k) \/ StartRead(k)
  PROVE  NothingElse' /\ WholeInv' /\ SizesInv'
<1>1. /\ file \in [Keys -> SUBSET Blocks] /\ have \subseteq Keys
      /\ purge = "idle" /\ ~release /\ verifier.pc = "off" /\ handle \in {"none", "active"}
      /\ alerts \subseteq have /\ (handle = "none" => alerts = {})
      /\ HaveIsWholeOrGone
  BY DEF QuietInv, LifecycleInv, DiskInv, InHand, NothingElse, WholeInv
<1>2. /\ file' = file /\ UNCHANGED <<index, pass>> /\ UNCHANGED <<purge, release, verifier>>
  BY Zenon DEF removal, EnsureHandle, Recheck, ReadFile, HandlePieceFinished, ReadTimedOut, StartRead, cmVars, disk
<1>3. Grows /\ evicting' = evicting
  <2>1. UNCHANGED <<metadata, verified, current_size, evicting>>
    BY <1>2 DEF index, pass
  <2>2. \A k \in Keys : file[k] \subseteq file'[k] /\ file'[k] \subseteq Blocks
    BY <1>1, <1>2
  <2> QED
    BY <2>1, <2>2 DEF Grows
<1>4. \A k \in Keys : (Whole(k) => Whole(k)') /\ Length(k)' = Length(k) /\ Size(k)' = Size(k)
  <2>1. \A k \in Keys : Length(k)' = Length(k)
    BY <1>2 DEF Length
  <2> QED
    BY <1>3, <2>1, GrowthKeeps
<1>5. CASE EnsureHandle \/ Recheck
  <2>1. engine' = engine /\ handle' \in {"active"} /\ alerts = {}
    BY <1>1, <1>5, ZenonT(60) DEF EnsureHandle, Recheck, Quiet
  <2>2. alerts' \subseteq have'
    BY <1>5, <2>1 DEF EnsureHandle, Recheck, CheckFiles
  <2> QED
    BY <1>1, <1>2, <1>3, <2>1, <2>2, SameEngine, GrowthKeeps, ZenonT(60) DEF NothingElse, WholeInv
<1>6. ASSUME UNCHANGED <<handle, have>>, alerts' \subseteq alerts,
             engine'.op # "idle" => ~evicting,
             engine'.op \in {"finished", "partial"} =>
               /\ engine'.key \in Keys
               /\ Size(engine.key)' <= engine'.size /\ engine'.size <= Length(engine.key)',
             engine'.op \in {"finished", "read", "reply"} => Whole(engine.key)',
             engine'.op = "reply" => engine'.data = Blocks
      PROVE  NothingElse' /\ WholeInv' /\ SizesInv'
  <2>1. SizesInv'
    BY <1>3, <1>6, GrowthKeeps DEF SizesInv
  <2>2. WholeInv'
    BY <1>1, <1>3, <1>6, GrowthKeeps DEF WholeInv
  <2>3. NothingElse'
    BY <1>1, <1>2, <1>3, <1>6 DEF NothingElse
  <2> QED
    BY <2>1, <2>2, <2>3
<1>7. ASSUME NEW k \in Keys, HandlePieceFinished(k) \/ ReadTimedOut(k)
      PROVE  NothingElse' /\ WholeInv' /\ SizesInv'
  <2>1. /\ UNCHANGED <<handle, have>> /\ alerts' \subseteq alerts /\ ~evicting
    BY <1>7, Zenon DEF HandlePieceFinished, ReadTimedOut, EngineFree, libtorrent
  <2>2. Size(k) <= Length(k)
    <3>1. Length(k) \in Nat
      BY LengthType
    <3> QED
      BY <3>1 DEF Size, has_piece, QuietInv, SizesInv
  <2>3. CASE HandlePieceFinished(k) /\ Length(k) # 0
    <3>1. engine' = [Idle EXCEPT !.op = "finished", !.key = k, !.size = Length(k)]
      BY <2>3, Zenon DEF HandlePieceFinished
    <3>2. engine'.op = "finished" /\ engine'.key = k /\ engine'.size = Length(k)
      BY <3>1 DEF Idle
    <3>3. Whole(k)
      BY <1>1, <2>3, LengthFacts, Zenon DEF HandlePieceFinished, HaveIsWholeOrGone
    <3>4. Whole(k)' /\ Size(k)' <= Length(k) /\ Length(k) <= Length(k)'
      BY <1>4, <2>2, <3>3, LengthType
    <3> QED
      BY <1>6, <2>1, <3>2, <3>4
  <2>4. CASE HandlePieceFinished(k) /\ Length(k) = 0
    <3>1. engine'.op = "idle"
      BY <2>4, Zenon DEF HandlePieceFinished, Idle
    <3> QED
      BY <1>6, <2>1, <3>1
  <2>5. CASE ReadTimedOut(k)
    <3>1. engine' = [Idle EXCEPT !.op = "partial", !.key = k, !.size = Length(k)]
      BY <2>5, Zenon DEF ReadTimedOut
    <3>2. engine'.op = "partial" /\ engine'.key = k /\ engine'.size = Length(k)
      BY <3>1 DEF Idle
    <3>3. Size(k)' <= Length(k) /\ Length(k) <= Length(k)'
      BY <1>4, <2>2, LengthType
    <3> QED
      BY <1>6, <2>1, <3>2, <3>3
  <2> QED
    BY <1>7, <2>3, <2>4, <2>5
<1>8. ASSUME NEW k \in Keys, StartRead(k)
      PROVE  NothingElse' /\ WholeInv' /\ SizesInv'
  <2>1. /\ UNCHANGED <<handle, have>> /\ alerts' \subseteq alerts /\ ~evicting
        /\ piece_is_local(k)
    BY <1>8, ZenonT(60) DEF StartRead, EngineFree, libtorrent
  <2>2. engine'.op = "read" /\ engine'.key = k
    BY <1>8, ZenonT(60) DEF StartRead, Idle
  <2>3. Whole(k)
    <3>1. CASE k \in verified
      BY <3>1 DEF QuietInv, WholeInv
    <3>2. CASE k \in have /\ ~has_stale_piece(k)
      BY <1>1, <3>2, LengthFacts, CacheAssumption DEF HaveIsWholeOrGone, has_stale_piece
    <3> QED
      BY <2>1, <3>1, <3>2 DEF piece_is_local, is_piece_complete_in_cache
  <2> QED
    BY <1>4, <1>6, <2>1, <2>2, <2>3
<1>9. CASE ReadFile
  <2>1. /\ UNCHANGED <<handle, have>> /\ alerts' \subseteq alerts /\ engine.op = "read"
    BY <1>9 DEF ReadFile, libtorrent
  <2>2. ~evicting /\ engine.key \in Keys /\ Whole(engine.key)
    BY <2>1 DEF QuietInv, NothingElse, WholeInv, LifecycleInv, InHand
  <2>3. CASE engine' = Idle
    <3>1. engine'.op = "idle"
      BY <2>3 DEF Idle
    <3> QED
      BY <1>6, <2>1, <3>1
  <2>4. CASE engine' = [engine EXCEPT !.op = "reply", !.data = file[engine.key]]
    <3>1. engine'.op \in {"reply", engine.op} /\ engine'.key = engine.key
      BY <2>4
    <3>2. engine'.op = "reply" => engine'.data = Blocks
      <4>1. DOMAIN engine' = DOMAIN engine
        BY <2>4
      <4> QED
        BY <2>1, <2>2, <2>4 DEF Whole
    <3> QED
      BY <1>4, <1>6, <2>1, <2>2, <3>1, <3>2
  <2> QED
    BY <1>9, <2>3, <2>4 DEF ReadFile
<1> QED
  BY <1>5, <1>7, <1>8, <1>9

\* A registration at a size no smaller than the record's and no larger than the
\* file's keeps the account exact.
LEMMA InsertExact ==
  ASSUME QuietInv, NEW k \in Keys, NEW size \in Blocks, NEW now \in Stamps,
         Insert(k, size, now), file' = file, Size(k) <= size, size <= Length(k)
  PROVE  /\ \A j \in registered' : metadata'[j].size <= Length(j)'
         /\ current_size' = SumSizes(registered)'
<1>1. /\ Size(k) \in Nat /\ SumSizes(registered \ {k}) \in Nat
      /\ SumSizes(registered) = SumSizes(registered \ {k}) + Size(k)
      /\ SumSizes(registered)' = SumSizes(registered \ {k}) + size
  BY InsertSum DEF QuietInv, AccountInv
<1>2. /\ current_size' = current_size + SaturatingSub(size, Size(k))
      /\ current_size = SumSizes(registered) /\ size \in Nat
  BY CacheAssumption DEF Insert, QuietInv, SizesInv, Blocks
<1>3. current_size' = SumSizes(registered)'
  BY <1>1, <1>2 DEF SaturatingSub
<1>4. /\ registered' = registered \cup {k} /\ metadata'[k].size = size
      /\ \A j \in registered \ {k} : metadata'[j] = metadata[j]
  BY ZenonT(60) DEF Insert, registered
<1>5. \A j : Length(j)' = Length(j)
  BY DEF Length
<1> QED
  BY <1>3, <1>4, <1>5 DEF QuietInv, SizesInv

\* What is left to show of a step that ends the engine's operation.
LEMMA EngineEnds ==
  ASSUME QuietInv, engine'.op = "idle",
         UNCHANGED <<file, handle, have, alerts, verifier, purge, release>>,
         \A k \in verified' \ verified : k \in Keys /\ Whole(k),
         \A k \in registered' : metadata'[k].size <= Length(k)',
         current_size' = SumSizes(registered)'
  PROVE  NothingElse' /\ WholeInv' /\ SizesInv'
<1>1. NothingElse'
  BY Zenon DEF QuietInv, NothingElse
<1>2. WholeInv'
  BY DEF QuietInv, WholeInv, Whole
<1>3. SizesInv'
  BY DEF SizesInv
<1> QED
  BY <1>1, <1>2, <1>3, ZenonT(60)

LEMMA RegistrationsQuiet ==
  ASSUME QuietInv, RegisterFinished \/ RegisterPartial \/ FinishRead
  PROVE  NothingElse' /\ WholeInv' /\ SizesInv'
<1>1. /\ engine'.op = "idle" /\ UNCHANGED <<handle, have, alerts, verifier, purge, release>>
  BY DEF RegisterFinished, RegisterPartial, FinishRead, Idle, libtorrent, removal
<1>2. CASE UNCHANGED cmVars
  <2>1. UNCHANGED <<metadata, verified, current_size, file>> /\ registered' = registered
    BY <1>2 DEF cmVars, index, disk, registered
  <2>2. SumSizes(registered)' = SumSizes(registered)
    BY <2>1, SameSizes DEF QuietInv, LifecycleInv
  <2>3. \A k : Length(k)' = Length(k)
    BY <2>1 DEF Length
  <2> QED
    BY <1>1, <2>1, <2>2, <2>3, EngineEnds DEF QuietInv, SizesInv
<1>3. ASSUME NEW k \in Keys, NEW size \in Blocks, Size(k) <= size, size <= Length(k),
             NEW now \in Stamps, Insert(k, size, now), file' = file,
             (verified' = verified \cup {k} /\ Whole(k)) \/ verified' = verified \ {k}
      PROVE  NothingElse' /\ WholeInv' /\ SizesInv'
  <2>1. /\ \A j \in registered' : metadata'[j].size <= Length(j)'
        /\ current_size' = SumSizes(registered)'
    BY <1>3, InsertExact
  <2>2. \A j \in verified' \ verified : j \in Keys /\ Whole(j)
    BY <1>3
  <2> QED
    BY <1>1, <1>3, <2>1, <2>2, EngineEnds
<1>4. CASE RegisterFinished
  <2>1. /\ engine.op = "finished" /\ add_piece(engine.key, engine.size)
        /\ engine.key \in Keys /\ engine.size \in Blocks
        /\ Size(engine.key) <= engine.size /\ engine.size <= Length(engine.key)
        /\ Whole(engine.key)
    BY <1>4 DEF RegisterFinished, QuietInv, LifecycleInv, InHand, SizesInv, WholeInv
  <2>2. PICK now \in Stamps : Insert(engine.key, engine.size, now)
    BY <2>1 DEF add_piece
  <2>3. file' = file /\ verified' = verified \cup {engine.key}
    BY <2>1 DEF add_piece
  <2> QED
    BY <1>3, <2>1, <2>2, <2>3
<1>5. CASE RegisterPartial
  <2>1. /\ engine.op = "partial" /\ register_incomplete_piece(engine.key, engine.size)
        /\ engine.key \in Keys /\ engine.size \in Blocks
        /\ Size(engine.key) <= engine.size /\ engine.size <= Length(engine.key)
    BY <1>5 DEF RegisterPartial, QuietInv, LifecycleInv, InHand, SizesInv
  <2>2. CASE UNCHANGED <<index, file>>
    <3>1. UNCHANGED <<metadata, verified, current_size>> /\ registered' = registered
      BY <2>2 DEF index, registered
    <3>2. SumSizes(registered)' = SumSizes(registered)
      BY <3>1, SameSizes DEF QuietInv, LifecycleInv
    <3>3. \A k : Length(k)' = Length(k)
      BY <2>2 DEF Length
    <3> QED
      BY <1>1, <2>2, <3>1, <3>2, <3>3, EngineEnds, ZenonT(60) DEF QuietInv, SizesInv
  <2>3. CASE /\ \E now \in Stamps : Insert(engine.key, engine.size, now)
             /\ verified' = verified \ {engine.key} /\ file' = file
    <3>1. PICK now \in Stamps : Insert(engine.key, engine.size, now)
      BY <2>3
    <3> QED
      BY <1>3, <2>1, <2>3, <3>1
  <2> QED
    BY <2>1, <2>2, <2>3 DEF register_incomplete_piece, cmVars, disk
<1>6. CASE FinishRead
  <2>1. engine.op = "reply" /\ engine.key \in Keys /\ Whole(engine.key)
    BY <1>6 DEF FinishRead, QuietInv, LifecycleInv, InHand, WholeInv
  <2>2. CASE record_access(engine.key)
    <3>1. PICK now \in Stamps : metadata' = [metadata EXCEPT ![engine.key].last_accessed = now]
      BY <2>2, ZenonT(60) DEF record_access
    <3>2. registered' = registered /\ \A j \in registered : metadata'[j].size = metadata[j].size
      BY <3>1 DEF QuietInv, LifecycleInv, IndexInv, Record, registered
    <3>3. SumSizes(registered)' = SumSizes(registered)
      BY <3>2, SameSizes DEF QuietInv, LifecycleInv
    <3>4. UNCHANGED <<verified, current_size, file>>
      BY <2>2 DEF record_access, disk
    <3>5. \A k : Length(k)' = Length(k)
      BY <3>4 DEF Length
    <3> QED
      BY <1>1, <3>2, <3>3, <3>4, <3>5, EngineEnds DEF QuietInv, SizesInv
  <2>3. CASE ~has_piece(engine.key) /\ add_piece(engine.key, PieceSize)
    <3>1. PICK now \in Stamps : Insert(engine.key, PieceSize, now)
      BY <2>3 DEF add_piece
    <3>2. file' = file /\ verified' = verified \cup {engine.key}
      BY <2>3 DEF add_piece
    <3>3. PieceSize \in Blocks /\ Size(engine.key) = 0 /\ 0 <= PieceSize
      BY <2>3, CacheAssumption DEF Blocks, Size
    <3>4. Length(engine.key) = PieceSize /\ PieceSize <= Length(engine.key)
      BY <2>1, LengthFacts, CacheAssumption
    <3> QED
      BY <1>3, <2>1, <3>1, <3>2, <3>3, <3>4
  <2> QED
    BY <1>2, <1>6, <2>2, <2>3 DEF FinishRead
<1> QED
  BY <1>4, <1>5, <1>6

\* An eviction takes file, record and flags of a piece together, while the
\* engine has nothing in hand.
LEMMA EvictQuiet ==
  ASSUME QuietInv, EvictStep
  PROVE  NothingElse' /\ WholeInv' /\ SizesInv'
<1>1. /\ evicting /\ UNCHANGED <<handle, have, alerts, engine, verifier, purge, release>>
      /\ engine.op = "idle"
  BY DEF EvictStep, Evict, EvictOne, EvictDone, libtorrent, removal, QuietInv, NothingElse
<1>2. CASE UNCHANGED <<index, file>>
  <2>1. UNCHANGED <<metadata, verified, current_size>> /\ registered' = registered
    BY <1>2 DEF index, registered
  <2>2. SumSizes(registered)' = SumSizes(registered)
    BY <2>1, SameSizes DEF QuietInv, LifecycleInv
  <2>3. \A k : Length(k)' = Length(k)
    BY <1>2 DEF Length
  <2> QED
    BY <1>1, <1>2, <2>1, <2>2, <2>3, EngineEnds DEF QuietInv, SizesInv
<1>3. ASSUME NEW k, remove_piece(k)
      PROVE  NothingElse' /\ WholeInv' /\ SizesInv'
  <2>1. /\ SumSizes(registered)' \in Nat /\ Size(k) \in Nat
        /\ SumSizes(registered) = Size(k) + SumSizes(registered)'
    BY <1>3, RemoveSum DEF QuietInv, AccountInv
  <2>2. current_size' = SumSizes(registered)'
    BY <1>3, <2>1 DEF remove_piece, SaturatingSub, QuietInv, SizesInv
  <2>3. /\ registered' = registered \ {k} /\ verified' = verified \ {k}
        /\ \A j \in registered \ {k} : metadata'[j] = metadata[j]
    BY <1>3 DEF remove_piece, forget, Restrict, registered
  <2>4. \A j \in Keys \ {k} : file'[j] = file[j]
    BY <1>3 DEF remove_piece, QuietInv, AccountInv, FilesInv
  <2>5. \A j \in Keys \ {k} : Length(j)' = Length(j) /\ (Whole(j) => Whole(j)')
    BY <2>4 DEF Length, Whole
  <2>6. registered \subseteq Keys
    BY DEF QuietInv, LifecycleInv, IndexInv
  <2>7. SizesInv'
    BY <1>1, <2>2, <2>3, <2>5, <2>6 DEF QuietInv, SizesInv
  <2>8. WholeInv'
    BY <1>1, <2>3, <2>5 DEF QuietInv, WholeInv
  <2>9. NothingElse'
    BY <1>1 DEF QuietInv, NothingElse
  <2> QED
    BY <2>7, <2>8, <2>9
<1> QED
  BY <1>2, <1>3 DEF EvictStep, Evict, EvictOne, EvictDone, disk

LEMMA RestartQuiet ==
  ASSUME QuietInv, Quiet, Restart
  PROVE  NothingElse' /\ WholeInv' /\ SizesInv'
<1>1. /\ current_size' = SumSizes(registered)' /\ registered' = OnDisk
  BY RebuildSum DEF Restart, QuietInv, AccountInv
<1>2. /\ engine'.op = "idle" /\ verifier'.pc = "off" /\ purge' = "idle" /\ ~release' /\ handle' = "none"
      /\ alerts' = {} /\ verified' = {} /\ file' = file
  BY DEF Restart, Quiet, rebuild_index, Idle, Asleep, disk
<1>3. \A k \in registered' : metadata'[k].size <= Length(k)'
  <2>1. \A k \in OnDisk : metadata'[k].size = Length(k)
    BY DEF Restart, rebuild_index
  <2>2. \A k \in OnDisk : Length(k)' = Length(k) /\ Length(k) \in Nat
    BY <1>2, LengthType DEF Length, OnDisk
  <2> QED
    BY <1>1, <2>1, <2>2
<1> QED
  BY <1>1, <1>2, <1>3 DEF NothingElse, WholeInv, SizesInv

LEMMA QuietStep ==
  ASSUME QuietInv, Quiet, [LifecycleNext]_plVars
  PROVE  QuietInv'
<1>1. LifecycleInv' /\ AccountInv' /\ LifecycleTypeOK'
  <2>1. LifecycleInv /\ AccountInv /\ LifecycleTypeOK
    BY DEF QuietInv
  <2> QED
    BY <2>1, StepRefines, AccountStep, LifecycleInvInductive, LifecycleTypeStep
<1>2. NothingElse' /\ WholeInv' /\ SizesInv'
  <2>1. CASE LibtorrentStep
    BY <2>1, LibtorrentQuiet
  <2>2. CASE EngineStep
    BY <2>2, LooksQuiet, RegistrationsQuiet DEF EngineStep, RemoveHandle, QuietInv, NothingElse
  <2>3. CASE EvictStep
    BY <2>3, EvictQuiet
  <2>4. CASE Restart
    BY <2>4, RestartQuiet
  <2>5. CASE AddTorrent \/ UNCHANGED plVars
    <3>1. /\ UNCHANGED <<engine, handle, have, alerts, verifier, purge, release>> /\ UNCHANGED cmVars
      BY <2>5 DEF AddTorrent, plVars, libtorrent, removal
    <3>2. UNCHANGED <<metadata, verified, current_size, evicting, file>>
      BY <3>1 DEF cmVars, index, pass, disk
    <3>3. Grows
      BY <3>2 DEF Grows, QuietInv, AccountInv, FilesInv
    <3> QED
      BY <3>1, <3>3, SameEngine, GrowthKeeps DEF QuietInv, NothingElse, WholeInv
  <2>6. ~(VerifierStep \/ PurgeStep \/ \E k \in Keys : RemoveOutside(k))
    BY DEF Quiet, QuietInv, NothingElse, VerifierStep, ListUnverified, VerifyPiece, ApplyVerdict,
           PurgeStep, DeleteRow, ReleaseHandle, UnlinkPiece, RemoveDirectory, GiveUp, DropState,
           RemoveOutside
  <2> QED
    BY <2>1, <2>2, <2>3, <2>4, <2>5, <2>6 DEF LifecycleNext
<1> QED
  BY <1>1, <1>2 DEF QuietInv

LEMMA QuietInit ==
  ASSUME LifecycleInit
  PROVE  QuietInv
<1>1. LifecycleInv /\ AccountInv /\ LifecycleTypeOK
  BY LifecycleInvInductive, InitAccountInv, LifecycleInitTypes DEF LifecycleInit
<1>2. registered = {} /\ current_size = 0 /\ verified = {}
  BY DEF LifecycleInit, Init, registered
<1>3. SumSizes(registered) = 0
  BY <1>2, TotalNone DEF SumSizes
<1>4. /\ engine.op = "idle" /\ verifier.pc = "off" /\ purge = "idle" /\ ~release
      /\ handle = "none" /\ alerts = {}
  BY DEF LifecycleInit, Idle, Asleep
<1> QED
  BY <1>1, <1>2, <1>3, <1>4 DEF QuietInv, NothingElse, WholeInv, SizesInv

LEMMA QuietInvariant ==
  ASSUME Quiet
  PROVE  LifecycleSpec => []QuietInv
<1>1. QuietInv /\ [LifecycleNext]_plVars => QuietInv'
  BY QuietStep
<1> QED
  BY <1>1, QuietInit, PTL DEF LifecycleSpec

\* With crashes and failing calls as the only disturbances, a piece that
\* is_piece_complete_in_cache accepts is whole, for any pieces, blocks and budget.
THEOREM CompletePiecesWhole ==
  ASSUME Disturbances \subseteq {"crash"}
  PROVE  LifecycleSpec => []CompleteInCacheIsWhole
<1>1. QuietInv => CompleteInCacheIsWhole
  BY DEF QuietInv, WholeInv, CompleteInCacheIsWhole, is_piece_complete_in_cache
<1>2. Quiet
  BY DEF Quiet
<1> QED
  BY <1>1, <1>2, QuietInvariant, PTL

\* ... and every read that is answered is answered with the whole piece, although
\* read_from_disk reads the file a step after begin_waiting looked at it.
THEOREM ReadsAnsweredWhole ==
  ASSUME Disturbances \subseteq {"crash"}
  PROVE  LifecycleSpec => []RepliesWhole
<1>1. QuietInv => RepliesWhole
  BY DEF QuietInv, WholeInv, RepliesWhole
<1>2. Quiet
  BY DEF Quiet
<1> QED
  BY <1>1, <1>2, QuietInvariant, PTL

\* ... and current_size never drifts from the sum of the records: no piece is
\* registered again at a smaller size than before.
THEOREM AccountStaysExact ==
  ASSUME Disturbances \subseteq {"crash"}
  PROVE  LifecycleSpec => []AccountedExactly
<1>1. QuietInv => AccountedExactly
  BY DEF QuietInv, SizesInv, AccountedExactly
<1>2. Quiet
  BY DEF Quiet
<1> QED
  BY <1>1, <1>2, QuietInvariant, PTL
=============================================================================
