---------------------------- MODULE PieceLifecycle ----------------------------
(***************************************************************************)
(* The life of one torrent's pieces across everything that touches them:   *)
(* libtorrent's disk thread writes blocks and markers and hashes pieces,   *)
(* the download engine registers, reads and rechecks them, the start-up    *)
(* verifier re-hashes what a restart found, a removal purges them while the*)
(* same torrent may be added again, and the process may crash at any point.*)
(*                                                                         *)
(* The cache index and the files are CacheManager's; only the engine thread*)
(* registers pieces, so an eviction pass suspends it.  The steps a thread  *)
(* takes without the cache mutex (stat, file read, hash, directory removal)*)
(* are steps of their own.                                                 *)
(***************************************************************************)
EXTENDS CacheManager

CONSTANT Disturbances  \* which of the disturbances below may happen

ASSUME LifecycleAssumption ==
  /\ InfoHashes = {Keys}
  /\ Keys # {}
  /\ Disturbances \subseteq {"crash", "late alert", "purge", "rm", "sparse", "verify"}

NoKey == 0

ASSUME NoKeyAssumption == NoKey \notin Keys

VARIABLES
  row,      \* the torrent has a database row
  handle,   \* libtorrent's handle: "none", "active" or "leaving"
  have,     \* libtorrent's bitfield: pieces that passed their hash
  got,      \* key -> blocks libtorrent has written since the last check
  writing,  \* the piece whose block is written and whose marker is not yet
  alerts,   \* piece_finished events the engine has not handled
  engine,   \* the engine's operation in progress
  verifier, \* the cache-verify thread
  purge,    \* where remove_torrent is: "idle", "release", "remove", "drop" or "done"
  release   \* a RemoveHandle command is in the engine's channel

libtorrent == <<handle, have, got, writing>>
removal == <<purge, release>>
plVars == <<cmVars, row, libtorrent, alerts, engine, verifier, removal>>

Idle == [op |-> "idle", key |-> NoKey, size |-> 0, data |-> {}]

Asleep == [pc |-> "off", todo |-> {}, key |-> NoKey, whole |-> FALSE]

Whole(k) == file[k] = Blocks

NothingGot == [k \in Keys |-> {}]

-----------------------------------------------------------------------------
(* libtorrent's storage, PieceStorage, under its per-info-hash lock.        *)

\* write_piece: the directory is made if needed and the block written; a piece
\* libtorrent has is not written again.  A write that fails is reported, and
\* libtorrent does not have the block.
WriteBlock(k, b) ==
  /\ handle # "none"
  /\ writing = NoKey
  /\ k \notin have
  /\ b \notin got[k]
  /\ dirs' = {Keys}
  /\ \/ /\ file' = [file EXCEPT ![k] = @ \cup {b}]
        /\ got' = [got EXCEPT ![k] = @ \cup {b}]
        /\ writing' = k
     \/ Faulty /\ UNCHANGED <<file, got, writing>>
  /\ UNCHANGED <<index, pass, marker, row, handle, have, alerts, engine, verifier, removal>>

\* ... then the marker, whose failure is only logged.
WriteMarker ==
  /\ writing # NoKey
  /\ \/ dirs # {} /\ marker' = marker \cup {writing}
     \/ (dirs = {} \/ Faulty) /\ marker' = marker
  /\ writing' = NoKey
  /\ UNCHANGED <<index, pass, dirs, file, row, handle, have, got, alerts, engine, verifier, removal>>

\* async_hash: a match sets the bit and posts the alert; a mismatch (the file
\* was removed meanwhile) makes libtorrent fetch the whole piece again.
HashPiece(k) ==
  /\ handle # "none"
  /\ writing = NoKey
  /\ k \notin have
  /\ got[k] = Blocks
  /\ \/ /\ Whole(k)
        /\ have' = have \cup {k}
        /\ alerts' = alerts \cup {k}
        /\ got' = got
     \/ /\ ~Whole(k)
        /\ got' = [got EXCEPT ![k] = {}]
        /\ UNCHANGED <<have, alerts>>
  /\ UNCHANGED <<cmVars, row, handle, writing, engine, verifier, removal>>

\* Mutant: a check trusts the length of the file.
CheckLengths ==
  /\ have' = {k \in Keys : Length(k) = PieceSize}
  /\ got' = NothingGot
  /\ alerts' \in {alerts \cup A : A \in SUBSET have'}

\* A check of the files, at add or on force_recheck: the bitfield is what
\* hashes right.  Whether a check posts alerts is libtorrent's choice.
CheckFiles ==
  /\ have' = {k \in Keys : Whole(k)}
  /\ got' = NothingGot
  /\ alerts' \in {alerts \cup A : A \in SUBSET have'}

\* session.remove_torrent only posts the removal; this is where it happens.
RemovalDone ==
  /\ handle = "leaving"
  /\ writing = NoKey
  /\ handle' = "none"
  /\ have' = {}
  /\ got' = NothingGot
  /\ UNCHANGED <<cmVars, row, writing, alerts, engine, verifier, removal>>

-----------------------------------------------------------------------------
(* The engine thread.                                                       *)

EngineFree == engine = Idle /\ ~evicting

\* ensure_handle, for an add or a read.  A read that was taken before its
\* torrent's row was deleted may come after the deletion.
EnsureHandle ==
  /\ EngineFree
  /\ row \/ purge # "idle"
  /\ handle = "none"
  /\ handle' = "active"
  /\ dirs' = {Keys}
  /\ CheckFiles
  /\ UNCHANGED <<index, pass, file, marker, row, writing, engine, verifier, removal>>

\* handle_piece_finished: stat without the cache lock, then add_piece at the
\* length found.  An absent file registers nothing.
HandlePieceFinished(k) ==
  /\ EngineFree
  /\ k \in alerts
  /\ alerts' = alerts \ {k}
  /\ engine' = IF Length(k) = 0 THEN Idle
               ELSE [Idle EXCEPT !.op = "finished", !.key = k, !.size = Length(k)]
  /\ UNCHANGED <<cmVars, row, libtorrent, verifier, removal>>

RegisterFinished ==
  /\ engine.op = "finished"
  /\ add_piece(engine.key, engine.size)
  /\ engine' = Idle
  /\ UNCHANGED <<row, libtorrent, alerts, verifier, removal>>

\* A read over the piece timed out: what is on disk and not verified is
\* registered as incomplete, at the length found without the lock.
ReadTimedOut(k) ==
  /\ EngineFree
  /\ handle = "active"
  /\ Length(k) > 0
  /\ k \notin verified
  /\ engine' = [Idle EXCEPT !.op = "partial", !.key = k, !.size = Length(k)]
  /\ UNCHANGED <<cmVars, row, libtorrent, alerts, verifier, removal>>

\* Mutant: a partial piece is registered like a finished one.
RegisterPartialAsFinished ==
  /\ engine.op = "partial"
  /\ add_piece(engine.key, engine.size)
  /\ engine' = Idle
  /\ UNCHANGED <<row, libtorrent, alerts, verifier, removal>>

RegisterPartial ==
  /\ engine.op = "partial"
  /\ register_incomplete_piece(engine.key, engine.size)
  /\ engine' = Idle
  /\ UNCHANGED <<row, libtorrent, alerts, verifier, removal>>

\* Mutant: the verified flag is not consulted.
CompleteByLength(k) ==
  /\ has_piece(k)
  /\ metadata[k].size >= PieceSize
  /\ Length(k) >= PieceSize

is_piece_complete_in_cache(k) ==
  /\ k \in verified
  /\ has_piece(k)
  /\ metadata[k].size >= PieceSize
  /\ Length(k) >= PieceSize

has_stale_piece(k) == Length(k) < PieceSize

piece_is_local(k) ==
  /\ handle = "active"
  /\ (k \in have /\ ~has_stale_piece(k)) \/ is_piece_complete_in_cache(k)

\* begin_waiting: a read whose piece is local goes to the disk.
StartRead(k) ==
  /\ EngineFree
  /\ piece_is_local(k)
  /\ engine' = [Idle EXCEPT !.op = "read", !.key = k]
  /\ UNCHANGED <<cmVars, row, libtorrent, alerts, verifier, removal>>

\* read_from_disk: a file that is gone or short meanwhile is PieceNotReady.
ReadFile ==
  /\ engine.op = "read"
  /\ engine' = IF has_stale_piece(engine.key) THEN Idle
               ELSE [engine EXCEPT !.op = "reply", !.data = file[engine.key]]
  /\ UNCHANGED <<cmVars, row, libtorrent, alerts, verifier, removal>>

\* ... then the access is recorded (when the read found the piece cached) or
\* the piece is registered at its expected size.
FinishRead ==
  /\ engine.op = "reply"
  /\ \/ record_access(engine.key)
     \/ has_piece(engine.key) /\ UNCHANGED cmVars
     \/ ~has_piece(engine.key) /\ add_piece(engine.key, PieceSize)
  /\ engine' = Idle
  /\ UNCHANGED <<row, libtorrent, alerts, verifier, removal>>

\* A read meets a bit whose file is missing or short: force_recheck.
Recheck ==
  /\ EngineFree
  /\ handle = "active"
  /\ writing = NoKey
  /\ \E k \in have : has_stale_piece(k)
  /\ "late alert" \in Disturbances \/ alerts = {}
  /\ CheckFiles
  /\ UNCHANGED <<cmVars, row, handle, writing, engine, verifier, removal>>

\* remove_handle, the command.
RemoveHandle ==
  /\ EngineFree
  /\ release
  /\ release' = FALSE
  /\ handle' = IF handle = "active" THEN "leaving" ELSE handle
  /\ UNCHANGED <<cmVars, row, have, got, writing, alerts, engine, verifier, purge>>

EngineStep ==
  \/ EnsureHandle
  \/ RemoveHandle
  \/ \E k \in Keys : HandlePieceFinished(k) \/ ReadTimedOut(k) \/ StartRead(k)
  \/ RegisterFinished
  \/ RegisterPartial
  \/ ReadFile
  \/ FinishRead
  \/ Recheck
-----------------------------------------------------------------------------
(* The cache-verify thread: it lists its candidates once, hashes each file  *)
(* without any lock and applies the verdict later.                          *)

ListUnverified ==
  /\ verifier.pc = "list"
  /\ ~CacheLocked
  /\ verifier' = [Asleep EXCEPT !.pc = "loop",
                                !.todo = registered \ (verified \cup incomplete)]
  /\ UNCHANGED <<cmVars, row, libtorrent, alerts, engine, removal>>

\* verify_single_piece: the length, the allocation and the hash of the file.  A
\* whole piece of zeroes looks sparse and is purged like a partial one.
VerifyPiece(k) ==
  /\ verifier.pc = "loop"
  /\ k \in verifier.todo
  /\ \E sparse \in {FALSE, "sparse" \in Disturbances} :
       verifier' = [pc |-> "apply", todo |-> verifier.todo \ {k}, key |-> k,
                    whole |-> Whole(k) /\ ~sparse]
  /\ UNCHANGED <<cmVars, row, libtorrent, alerts, engine, removal>>

ApplyVerdict ==
  /\ verifier.pc = "apply"
  /\ IF verifier.whole THEN mark_verified(verifier.key) ELSE delete_piece(verifier.key)
  /\ verifier' = [Asleep EXCEPT !.pc = "loop", !.todo = verifier.todo]
  /\ UNCHANGED <<row, libtorrent, alerts, engine, removal>>

VerifierStep ==
  \/ ListUnverified
  \/ \E k \in Keys : VerifyPiece(k)
  \/ ApplyVerdict

-----------------------------------------------------------------------------
(* remove_torrent of the last reference, and the torrent added again.       *)

DeleteRow ==
  /\ "purge" \in Disturbances
  /\ purge \in {"idle", "done"}
  /\ row
  /\ row' = FALSE
  /\ purge' = "release"
  /\ UNCHANGED <<cmVars, libtorrent, alerts, engine, verifier, release>>

\* release_engine_handle queues a command and does not wait for it; a second
\* one is not queued behind the first here.
ReleaseHandle ==
  /\ purge = "release"
  /\ ~release
  /\ release' = TRUE
  /\ purge' = "remove"
  /\ UNCHANGED <<cmVars, row, libtorrent, alerts, engine, verifier>>

\* The directory is removed without a lock, entry by entry.
UnlinkPiece(k) ==
  /\ purge = "remove"
  /\ file[k] # {} \/ k \in marker
  /\ file' = [file EXCEPT ![k] = {}]
  /\ marker' = marker \ {k}
  /\ UNCHANGED <<index, pass, dirs, row, libtorrent, alerts, engine, verifier, removal>>

RemoveDirectory ==
  /\ purge = "remove"
  /\ marker = {}
  /\ \A k \in Keys : file[k] = {}
  /\ dirs' = {}
  /\ purge' = "drop"
  /\ UNCHANGED <<index, pass, file, marker, row, libtorrent, alerts, engine, verifier, release>>

\* A writer kept the directory from becoming empty, or an unlink failed.
GiveUp ==
  /\ purge = "remove"
  /\ dirs # {}
  /\ purge' = "done"
  /\ UNCHANGED <<cmVars, row, libtorrent, alerts, engine, verifier, release>>

\* Mutant: the index is dropped although the directory is back.
DropAlways ==
  /\ purge = "drop"
  /\ ~CacheLocked
  /\ current_size' = SaturatingSub(current_size, SumSizes(registered))
  /\ forget(Keys)
  /\ purge' = "done"
  /\ UNCHANGED <<pass, disk, row, libtorrent, alerts, engine, verifier, release>>

DropState ==
  /\ purge = "drop"
  /\ drop_infohash_state_if_absent(Keys)
  /\ purge' = "done"
  /\ UNCHANGED <<row, libtorrent, alerts, engine, verifier, release>>

AddTorrent ==
  /\ ~row
  /\ row' = TRUE
  /\ UNCHANGED <<cmVars, libtorrent, alerts, engine, verifier, removal>>

PurgeStep ==
  \/ DeleteRow
  \/ ReleaseHandle
  \/ \E k \in Keys : UnlinkPiece(k)
  \/ RemoveDirectory
  \/ GiveUp
  \/ DropState

-----------------------------------------------------------------------------
(* Disturbances from outside.                                               *)

\* The process dies and starts again: the scan registers what is on disk, and
\* the verifier is spawned when the torrent is still in the database.
Restart ==
  /\ "crash" \in Disturbances
  /\ rebuild_index
  /\ handle' = "none"
  /\ have' = {}
  /\ got' = NothingGot
  /\ writing' = NoKey
  /\ alerts' = {}
  /\ engine' = Idle
  /\ verifier' = IF "verify" \in Disturbances /\ row
                    THEN [Asleep EXCEPT !.pc = "list"] ELSE Asleep
  /\ purge' = "idle"
  /\ release' = FALSE
  /\ row' = row

\* Someone removes a piece file behind the cache's back.
RemoveOutside(k) ==
  /\ "rm" \in Disturbances
  /\ file[k] # {}
  /\ file' = [file EXCEPT ![k] = {}]
  /\ UNCHANGED <<index, pass, dirs, marker, row, libtorrent, alerts, engine, verifier, removal>>

-----------------------------------------------------------------------------
LibtorrentStep ==
  \/ \E k \in Keys, b \in Blocks : WriteBlock(k, b)
  \/ WriteMarker
  \/ \E k \in Keys : HashPiece(k)
  \/ RemovalDone

EvictStep ==
  /\ Evict
  /\ UNCHANGED <<row, libtorrent, alerts, engine, verifier, removal>>

LifecycleInit ==
  /\ Init
  /\ row = FALSE
  /\ handle = "none"
  /\ have = {}
  /\ got = NothingGot
  /\ writing = NoKey
  /\ alerts = {}
  /\ engine = Idle
  /\ verifier = Asleep
  /\ purge = "idle"
  /\ release = FALSE

LifecycleNext ==
  \/ LibtorrentStep
  \/ EngineStep
  \/ EvictStep
  \/ VerifierStep
  \/ PurgeStep
  \/ AddTorrent
  \/ Restart
  \/ \E k \in Keys : RemoveOutside(k)

LifecycleSpec == LifecycleInit /\ [][LifecycleNext]_plVars

-----------------------------------------------------------------------------
(* Properties.                                                              *)

\* Every variable has its type.
LifecycleTypeOK ==
  /\ TypeOK
  /\ row \in BOOLEAN
  /\ handle \in {"none", "active", "leaving"}
  /\ have \subseteq Keys
  /\ got \in [Keys -> SUBSET Blocks]
  /\ writing \in Keys \cup {NoKey}
  /\ alerts \subseteq Keys
  /\ engine \in [op : {"idle", "finished", "partial", "read", "reply"},
                 key : Keys \cup {NoKey}, size : Nat, data : SUBSET Blocks]
  /\ verifier \in [pc : {"off", "list", "loop", "apply"}, todo : SUBSET Keys,
                   key : Keys \cup {NoKey}, whole : BOOLEAN]
  /\ purge \in {"idle", "release", "remove", "drop", "done"}
  /\ release \in BOOLEAN

\* Everything that happens to the cache here is something CacheManager allows:
\* what is shown of its index for arbitrary callers holds for these.
CacheRefined == Spec

\* A bit of libtorrent's bitfield never vouches for a partial file: the file of
\* a piece libtorrent has is whole or gone, through evictions, purges, deletions
\* by the verifier, re-adds and restarts.  piece_is_local trusts the bit of any
\* file that is long enough.
HaveIsWholeOrGone ==
  \A k \in have : Whole(k) \/ file[k] = {}

\* A piece that is_piece_complete_in_cache accepts is whole on disk: its three
\* checks (verified flag, registered size, file length) together never accept
\* a file with the right length and missing blocks.
CompleteInCacheIsWhole ==
  \A k \in Keys : is_piece_complete_in_cache(k) => Whole(k)

\* A read is answered with the whole piece, whichever of libtorrent's bit and
\* the cache vouched for it, although the file is read a step after the check.
RepliesWhole ==
  engine.op = "reply" => engine.data = Blocks

\* The piece's file was there before the step and is not after it.
Unlinked(k) == file[k] # {} /\ file'[k] = {}

\* An eviction pass takes no piece that libtorrent is still writing: its file
\* would lose blocks libtorrent believes it has.
EvictsNothingInFlight ==
  [][EvictStep => \A k \in Keys : Unlinked(k) => got[k] = {} \/ k \in have]_plVars

\* The cache-verify thread purges no piece that libtorrent is writing or has
\* completed since the thread listed its candidates.
VerifierSparesDownloads ==
  [][ApplyVerdict => \A k \in Keys : Unlinked(k) => got[k] = {} /\ k \notin have]_plVars

\* current_size is exactly what the registered records add up to: growing partial
\* pieces, completions, evictions, undeletable files and restarts leave no drift
\* behind.
AccountedExactly ==
  current_size = SumSizes(registered)

=============================================================================
