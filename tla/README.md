# A TLA+ verification of torrentfs

torrentfs mounts BitTorrent contents as a FUSE file system.  Reads are served
from a piece cache on disk; what is missing is downloaded through libtorrent.
This directory holds TLA+ models of the parts of it whose correctness depends on
interleavings, crashes and failures, the TLC configurations that check them, and
proofs checked by TLAPS.  `PROJECT.json` maps every definition to the lines it
models and lists the runs, the mutants of every property, the findings, the
hazards and the theorems.

## The system

| Part | Where | Here |
|---|---|---|
| `MetadataWriter`, metadata flushes | `infrastructure/cache`, `download/engine`, `main` | `MetadataStore`, abstractly `DurableMap` |
| `CacheManager`: index, tags, LRU, eviction, restart scan | `infrastructure/cache` | `CacheManager` |
| start on a cache directory: load, migration of flat files, scratch files of other processes | `infrastructure/cache` | `CacheStart` |
| `PieceStore`, registration and local reads in the engine | `download/piece_store`, `download/engine` | `PieceLifecycle`, `ReadRange` |
| `PieceStorage` in the libtorrent wrapper, its lock registry | `libtorrent-sys/wrapper` | `PieceLifecycle`, `PieceLocks` |
| cache-verify thread | `fuse/fs_service` | `PieceLifecycle` |
| removal and purge of a torrent, re-add | `services/torrent` | `PieceLifecycle`, `Namespace` |
| parked reads, cold flights, peer waiting | `download/engine` | `EngineReads` |
| `PieceScheduler`, finished pieces, `AlertConsumer` | `download/piece_scheduler`, `infrastructure/alert` | `PieceScheduler`, `Downloads` |
| `PendingTable`, `WorkerPool`, deadline checker | `fuse/mod`, `fuse/worker_pool` | `PendingReplies`, abstractly `ReadReplies` |
| bytes of a read, range cache | `fuse/fs_service`, `download/engine` | `ReadRange` |
| `.torrent` files, renames, adds, `data/` | `fuse/fs_service`, `fuse/inodes`, `fuse/lookup`, `services/torrent` | `Namespace` over `Inodes`, `Mirror` |
| database: transactions, file tables, migrations | `infrastructure/db` | `Catalogue`, `FileTree`, `Migrations` |
| `.stats` files and the snapshot behind them | `download/engine`, `fuse/stats` | `StatsSnapshot`, `ReaderDemand` |
| daemon start and shutdown, `entrypoint.sh` | `main`, `entrypoint.sh` | `Container`; engine stop and flush in `MetadataStore` |
| configuration | `infrastructure/config` | the time limits in `EngineReads`, the priorities in `PieceScheduler` |

The FUSE dispatcher hands reads to workers, which ask the engine, one actor
thread that owns every libtorrent handle.  libtorrent writes blocks from its own
disk thread through `PieceStorage`; the engine learns of finished pieces by
alerts and registers them with `CacheManager`, which is shared under one mutex.
A detached thread verifies after a restart what the scan found.  Removing a
torrent deletes its row, releases its handle and removes its piece directory
without the mutex.

## Modules

**`MetadataStore`.**  The map is its version, the number of changes made to it.
Variables follow the fields `metadata_dirty`, `snapshot_generation`,
`published_generation`, plus the snapshots the two writers (engine, main) hold
and the file: what the file system shows (`visible`) and what a power loss may
leave (`maybe`).  `Write` is `MetadataWriter::write` call by call: gate, scratch,
fsync, rename, directory fsync; each may fail within the fault budget.  The
engine flushes on its tick and once more when its loop ends, main on start, on
shutdown and on drop; `Crash`, `PowerLoss` and `Start` may come at any point.

**`DurableMap`.**  What a reader of `cache_metadata.txt` may rely on: the file
only moves forward while the machine stays up, and a power loss reveals only a
version that was published whole.

**`CacheManager`.**  One action per mutator, each atomic under the mutex, except
that an eviction pass takes one step per victim with the mutex held
(`evicting`).  A piece file is the set of its written blocks; its length reaches
to the last of them, so a sparse file is distinguishable from a whole one by
content but not by length.  Timestamps are any of `Stamps`: the wall clock may
repeat or step back.  As a module of its own it is an open system: the files
change arbitrarily (`DiskChanges`) and callers call in any order.

**`PieceLifecycle`** extends it with the callers: libtorrent (`WriteBlock`,
`WriteMarker`, `HashPiece`, `CheckFiles`), the engine, the verifier, the purge
with a concurrent re-add, restarts and an operator's `rm`.  Whatever a thread
does without the mutex (stat then register, check then read, list then hash then
verdict, directory removal entry by entry) is several steps.  `Disturbances`
selects which of crash, verifier, purge, late alerts and outside deletion can
happen.  The release of the handle is a command the purge does not wait for, so
files vanish under an active handle too.

`MC*.tla` and `*.cfg` are the instances for TLC; `*Proofs.tla` hold the proofs.

**`PendingReplies`.**  The dispatcher, the workers, the deadline checker, unlink
and the stop of the pool around `PendingTable`: groups of readers of one range, a
bounded table and a bounded queue.  **`ReadReplies`** is what a client may rely
on: each read is answered once, with the bytes of its range or an error.  The
engine's errors become the two errnos the code makes of them, `ENODATA` for an
empty or slow swarm and `EIO` for the others, the one an unlink answers with too.

**`EngineReads`.**  The engine's loop takes one command and then polls every
parked read by one step.  A `PendingRead` keeps its phase, the time spent in it,
what it saw of the swarm and the stale pieces it met; `cold` and `sourceless` are
the probe its torrent shares and that probe's verdict.  The raw `[timeouts]`
settings are constants; the windows and the budget are computed from them as the
code does.  On a handle that fails every call a read parks without a reader.

**`PieceScheduler`, `Downloads`.**  The scheduler's operations are functions on
its record, which also holds the priorities libtorrent was last given.
`Downloads` runs them against reads, evictions, rechecks, handles that come and
go, and the way of a completion: libtorrent's queue, the notification flag, the
consumer's thread, the channel, the engine.  A read that times out is answered
with the pieces before the first missing one and registers those.

**`Namespace`** over **`Inodes`** and **`Catalogue`**, and **`Mirror`** over it and
**`FileTree`.**  Inodes, open handles,
detached add threads, `processing_torrents`, `persist_errors`, engine handles and
the caches of `data/` (landed and provisional roots, listings).  The database is
one value that `Catalogue`'s transactions map to the next, `Inodes` the table that
a restart rebuilds from it; `FileTree` says what the tables of directories, closure
and files give back for a torrent, and `Mirror` what `data/` shows of the torrents
that are stored or on their way.  After the commit of a removal the rows that still
carry the info hash are counted; when that fails, handle and pieces stay.

**`Container`.**  Containers started, also beside each other, on one host directory:
the supervisor script command by command, its traps, the daemon's start, session
loss and shutdown, and the mounts the host sees.  The script's checks of its
arguments, the configuration, the FUSE device and the state paths come before any
mount: `Refusals` lets them end a start with one of their exit codes, and their
conditions are not modelled.

**`Migrations`.**  Opening a new database, or one of any of the versions 1 to 6,
step by step, with a kill between any two writes.

**`StatsSnapshot`, `ReaderDemand`.**  What the engine publishes and a `.stats`
file derives from it; when the loop publishes while somebody reads such files.

**`ReadRange`.**  The three places that turn an offset and a size into pieces and
chunks, the range cache and its invalidation.

**`PieceLocks`.**  The registry of mutexes per info hash, storages that come and
go, the disk thread writing a block in halves, readers that hold the lock.

**`CacheStart`.**  Several processes starting on one directory that nothing
locks, and a file system that may refuse a move or a removal.

`MCEngineReads`, `MCMount` and `MCOperations` put parts that share no state into one run; `part`
says whose behaviour it is, so the state space is a sum and not a product.

Abstractions: the two unlinks of `remove_piece` are one step; an empty file is
an absent one; in `PieceLifecycle` a read covers one piece; hit and miss counters
and the mode without hash checks are left out; whether a check posts alerts is
libtorrent's choice; the cache lock can only be given up on
(`SkipShutdownFlush`), never poisoned.  In `EngineReads` commands take no time
and a second spans one idle pass.  `PieceScheduler` has one torrent of one file.
`FileTree` keeps names, sizes and order, no bencode.  `CacheStart` counts
`kill(pid, 0)` and the removal that follows as one step.

## What the runs show

| Run | Instance | Result |
|---|---|---|
| `metadata_store` | 3 changes, 2 failing calls | `NoLostUpdate`, `NoRollback`, `ImplementsDurableMap`, `EventuallyPublished`, `ShutdownEnds` hold |
| `metadata_wedged` | an engine that may hang | `ShutdownEnds` fails |
| `cache_manager` | 2 info hashes of 1 piece, 2 blocks, budget of 1 piece | `LruMirrorsMetadata`, `TagsConsistent`, `NeverUnderAccounts`, `EvictionEnds` hold |
| `piece_lifecycle` | 1 piece, every disturbance | `HaveIsWholeOrGone`, `CacheRefined` hold |
| `pending_replies` | 3 reads of 2 ranges, table and queue of 1 | `ReplyHeldOnce`, `GaugeCountsPending`, `GroupsAreServed`, `UnlinkTakesItsOwn`, `ImplementsReadReplies`, `BackpressureEnds` hold |
| `engine_reads` | 2 reads of a torrent, 1 disturbance; 2 pieces, budget of 1, crashes and failures | `ParkedOnce`, `ReadersAreParked`, `SharedProbe`, `WithinBudget`, `VerdictSpeaksForSwarm`; `CompleteInCacheIsWhole`, `RepliesWhole`, `AccountedExactly` hold |
| `mount` | the tree: 2 contents, 2 files, 5 requests, 1 failure, 1 crash; the mount: 2 starts, 3 containers | `RowsHaveNames`, `ClosedTorrentsKept`, `HandlesHaveRows`, `CachesAreCurrent`, `MirrorListsTorrent`; `MountsAccountedFor` hold |
| `operations` | seven parts | `AskedForWhatIsRead`, `FinishedPiecesHandled` (downloads), `UpgradeKeepsTorrents` (migrations), `WatcherSeesFresh` (demand), `ReportIsBacked`, `PrivateTrackersIsolated` (stats), `ReadIsSlice` (range), `GuardedReadIsOneState` (locks), `StartsInOrder` (start) hold |
| `piece_outside` | 1 piece, `rm` | `CompleteInCacheIsWhole` fails |
| `piece_verifier` | 1 piece, crash, verifier | `VerifierSparesDownloads` fails |
| `piece_evicted` | 2 pieces, crash | `EvictsNothingInFlight` fails |
| `engine_orphan` | as `engine_reads` | `HandlesAreListed` fails |

Five disagreements between comments and code came out of this, each with a
counterexample (`findings` in `PROJECT.json`):

- The shutdown flush bounds its wait for the cache lock but not for the mutex
  inside `MetadataWriter`, which an engine hung in a metadata write holds.
- The verified flag of a piece outlives the recheck that discovers its file is
  gone; while the piece downloads again, a file with only its last block written
  passes `is_piece_complete_in_cache`.
- The verifier applies `delete_piece` to a candidate list that may be out of
  date, and can delete a file that libtorrent is writing.
- A crash between a block and its marker leaves a partial piece without the tag
  that protects it from eviction.
- A read that reaches the engine behind the release of its deleted torrent makes
  the handle again, and nothing removes it, although the release is there so that
  the daemon does not "keep announcing a deleted torrent" (`torrent.rs:228-233`).

`CompleteInCacheIsWhole`, `RepliesWhole` and `AccountedExactly` are claimed under
crashes and failing calls only, with the alerts of a piece handled before a
recheck.  Each of outside deletion, the verifier, a purge with a re-add and an
alert handled after a recheck breaks the first two the way the second
disagreement above does: a verified flag meets a new, partial file.  The first
three of them also make the accounting drift upwards, because a record that is
registered again at a smaller size is not debited; `NeverUnderAccounts` is what
remains true.

### Exceptions the properties state

Where the code leaves a window open that no comment denies, the property names
it instead of leaving it out of the model, with a ghost variable.  The properties
do not catch these cases; they say that nothing else goes wrong around them.

- `WithinBudget` excepts reads that meet a stale piece inside the piece wait: the
  recheck restarts that wait, and the total is no longer bounded by
  `read_wait_budget_secs` (`engine.rs:2634-2653`).
- `AskedForWhatIsRead` excepts a piece evicted while its completion is on its way
  (`engine.rs:3362-3374`) and one evicted during a check that outlasts its read's
  window.  Nothing calls the scheduler's `piece_evicted`; other evictions reach it
  through the recheck of the next read.
- `UpgradeKeepsTorrents` excepts a kill between `migrate_v6`'s commit and
  `user_version = 6`: the file does not open again (`database.rs:76-80`).  A kill
  between the commit of v4 and the loop of the versions below 3 leaves the
  directories unbuilt.
- `RowsHaveNames` and `ClosedTorrentsKept` except what a directory rename
  overtook (it does not wait for adds below it) and what a failed transaction left
  behind.  A second write and close while an add of the name is in flight is never
  persisted (`fs_service.rs:1080`) and promises nothing.
- `HandlesHaveRows` excepts a hash whose remaining rows could not be counted
  (`torrent.rs:264-270, 441-447`; ghost `uncounted`) and an add that a directory
  rename overtook.  It is about what adding, removing and renaming ask of the
  engine; the handles that late reads make again are `engine_orphan`'s subject.  It
  has no converse: an unlink of one name racing with an add of
  another of the same info hash can leave a row without a handle until the next
  read makes one.
- `MountsAccountedFor` excepts a session that ends between readiness and
  `mount --bind`, which binds an empty directory no detach recognises
  (`entrypoint.sh:1521`), and a lock taken on a mount that is on its way off the
  directory (`entrypoint.sh:1231`).
- `ReadIsSlice` lets the answer of a read that timed out on a piece be short, and
  the range cache repeat it (`fs_service.rs:2056-2093`); both are prefixes.
- `GuardedReadIsOneState` excepts a file on which a write failed half-way.
- `ReportIsBacked` speaks of files rendered from one snapshot; each figure is a
  look of its own (`stats.rs:884-891`).
- `ReadersAreParked` excepts a handle that is gone or fails every call: the gradient
  of a new reader cannot be computed and the read waits without one
  (`piece_scheduler.rs:180-197`).
- `HaveIsWholeOrGone` allows a bit whose file is gone, which the next read meets as
  stale and rechecks.
- `MirrorListsTorrent` compares the tree shown while an add is in flight with the
  tables below the torrent's own folder, which the former leaves out (see below).
- `StartsInOrder` claims a complete index only for a start beside which no other
  process ran: of two that migrate at once, one stops with a warning and leaves
  the rest to the other (`cache/mod.rs:531, 655`).  Where the file system refuses a
  move or a removal, what was to be moved or removed may stay (ghost `failed`).

### Bounds

- `MaxVersion = 3`, `MaxFaults = 2`: an engine snapshot, a newer shutdown
  snapshot and a change that neither has; a failure in each writer.
- `PieceSize = 2`: two blocks are the fewest that make a sparse file of full
  length.  `MaxSize = 2`: the second piece exceeds the budget.  Two pieces give
  eviction a choice; two stamps give equal, later and earlier timestamps.
- `SizeBound` caps `current_size`, which drifts upwards without limit when a
  record shrinks; it leaves room for a second piece beyond the budget.
- `piece_lifecycle` has one piece because every disturbance is on; what it checks
  concerns each piece by itself, and both properties are proved for any number.
- `pending_replies`: two readers of one range and one of another are the fewest
  that coalesce beside a second group; a table and a queue of one make both full.
- `engine_reads`, first part: two reads share a probe.  The windows are 1 or 2
  seconds, so that a phase can end in the middle of another read's; one setting is
  given, one is absent and two are zero.  `Timed` measures the age of one
  read, since the other's would only multiply states.  The second part is a piece to keep
  and one to evict.
- `mount`: two names in the root, two directories, of which one can become the
  other's parent; five
  requests make and close two files and rename one over the other, beside writes,
  add threads, a failure and a restart.  (With six, 4.0 million states, the
  properties hold as well.)
  Two containers that publish and one that may not, two starts in all: a newcomer
  meets whatever a predecessor left or is still doing, with one fault and one
  recovery of a session.
- `operations`: two reads that overlap in one piece of three, a cache of two and a
  half pieces, two mishaps; every version from 0 to 6, two torrents of one title with
  three rows, one kill; a
  file that begins inside a piece and ends with the short last one; two storages
  and two files under one lock; two processes, two piece keys and a name that is
  none, each in either layout at first.

### Fairness

`FairSpec` of `MetadataStore` lets each thread that can run do so: the engine
loop ticks on a timer, main's waits have a time limit, and a file-system call
returns (it may fail only finitely often, the fault budget).  No mutation, signal
or crash is forced.  `WedgedSpec` drops the fairness of the engine alone.
`FairSpec` of `CacheManager` lets an eviction pass continue: it is a loop on one
thread.  `BackpressureEnds` assumes that the dispatcher, the workers and the
deadline checker run, that deadlines pass, and that the engine returns from every
job; that it does so within the budget, with one exception, is `WithinBudget`.  `FinishedPiecesHandled` assumes that the consumer's thread
goes round its loop, woken or by `SAFETY_NET_TIMEOUT`, and that the engine
receives what is in its channel.

`pending_replies` and `engine_reads` do not check for deadlock: once every read
is answered and nothing is left to disturb, they may stop.

## What is proved

TLAPS proves, for every value of the constants:

- `StorageProofs`, about two parts that share no state.  `MetadataStore`:
  `TypeOK`, `NoLostUpdate`, `NoRollback` and the refinement of `DurableMap`.
  `NoLostUpdate` is not inductive: `IndInv` adds who can write in which phase and
  that one writer at a time is past the gate (`ThreadsInv`, `GateInv`), that
  generations order the snapshots in hand like the maps they copy (`SnapInv`), that
  a snapshot the gate stops is no newer than the file and one it lets through no
  older (`GateInv`), and that a change neither flagged nor on disk is in a snapshot
  in hand (`UpdateInv`).  `PieceLocks`: `GuardedReadIsOneState`.  `LocksInv` adds
  that the registry gives one mutex per info hash (`RegistryInv`), who holds it
  (`HoldInv`), that a file belongs to one info hash even after its path is gone
  (`PathInv`), that a half-written block is the one being written or one whose
  write failed (`TornInv`), and that what a reader has read so far is what the file
  has (`DataInv`).
- `CacheManagerProofs`: `TypeOK`, `LruMirrorsMetadata`, `TagsConsistent` and
  `NeverUnderAccounts`.  `IndexInv` adds the types of the records; lemmas
  `InsertPreserves` and `ForgetPreserves` carry the two ways the index changes.
  `AccountInv` adds to it that the account is a natural number and that only
  finitely many pieces are registered, which after a restart follows from finitely
  many having a file (`FilesInv`).  A sum of sizes is the number of blocks they
  stand for (`Units`, `Total`), so that what inserting, replacing and forgetting a
  record does to it are facts about cardinalities and need no induction.
- `PieceLifecycleProofs`: `LifecycleTypeOK`, `HaveIsWholeOrGone` and
  `CacheRefined`, that the composition is an implementation of `CacheManager`'s
  specification, so that both index invariants hold of it too
  (`IndexConsistentThroughout`).  `LifecycleInv` adds what each thread has in hand
  between two of its steps (`InHand`) and that files exist only in an existing
  directory (`DiskInv`).  With `Disturbances \subseteq {"crash"}`, the case the
  second part of `engine_reads` checks, also `CompleteInCacheIsWhole`, `RepliesWhole` and
  `AccountedExactly`.  `QuietInv` adds that verified pieces are whole, that an alert
  is handled while its have bit is still set and what the engine then has in hand
  (`WholeInv`), and that no record is larger than its file and none is replaced by a
  smaller one (`SizesInv`); the last is why the account does not drift.
- `PendingRepliesProofs`: `ReplyHeldOnce`, `GaugeCountsPending`,
  `GroupsAreServed`, `UnlinkTakesItsOwn`, and that every step of the front end
  is a step of `ReadReplies` or a stutter (`AnswersOnceWithItsRange`, the safety
  part of `ImplementsReadReplies`).  `FrontEndInv` adds that `by_range` and
  `groups` mirror each other and a group's waiters asked for its range
  (`TableInv`), that what a thread is about to answer with is an answer to each
  reply in its hand (`HeldInv`), and that no more tickets were given out than
  reads reached the table (`CountInv`), from which the gauge and the capacity
  follow.
- `OneReadProofs` and `EngineReadsProofs`: `ParkedOnce`, `ReadersAreParked`,
  `SharedProbe`, `WithinBudget` and the action property `VerdictSpeaksForSwarm`.
  `EngineInv` adds
  that a call is in the channel, in `pending_reads` or in the pass, once
  (`QueuesInv`, `InboxInv`), and, for each parked read (`Sound`), that its age is at
  most the windows of the phases before (`Before`) and the time spent in this one,
  which is within its own window (`Window`); `BudgetFacts` adds the windows up for
  every configuration.  A read polled in the last pass has time left
  (`PolledInv`), so that the next second does not overrun its window.  The verdict
  is a property of one step: `OneRead` says what polling or starting one read may
  do to it and that it leaves the others alone.  `OneReadProofs` has the invariant
  and what happens to one read, `EngineReadsProofs` the loop, the callers and the
  theorems.
- `DownloadsProofs`: `AskedForWhatIsRead`.  Most of it is about the scheduler's
  operators: what `resolve_target` wants, that `recompute` asks for it, and what
  `piece_ready`, an eviction or a recheck takes back.  `DownloadsInv` adds the
  shape of the scheduler's record (`SchedulerInv`), what is on disk and on its way
  (`DiskInv`), that reads wait only while the torrent is known and the engine is up
  (`ReadsInv`), and that outside of a recheck the priorities follow the wants but
  for the pieces excused (`Follows`).
- `OperationsProofs`: `WatcherSeesFresh` (`DemandInv`: a look is still unseen or
  has opened a window that outlasts it), `ReportIsBacked` and
  `PrivateTrackersIsolated` (`StatsInv`: the swarm clocks are no older than the
  handle), `StartsInOrder` (`StartInv`: what an undisturbed start has done by each
  of its phases).

Each inductive invariant was model-checked on the instance of its run first.

The assumptions are those stated beside the constants: natural bounds, disjoint
info hashes, a positive piece size and, in `PieceLifecycle`, one torrent with at
least one piece; finitely many reads, a table and a queue of at least one slot,
and workers that are neither the dispatcher nor the checker (`PendingReplies`); a
setting that is absent or one number, positive defaults and a positive
`RECHECK_WAIT_CAP` (`EngineReads`; `engine.rs:728` has 10); a file that fits its
pieces and priorities that are naturals (`PieceScheduler`); a
`READER_DEMAND_TTL` of at least two intervals (`ReaderDemand`).  The
bounds that keep TLC finite (`MaxDisturbances`, `MaxStorages`, `MaxWrites` and the
like) are arbitrary naturals in the proofs.

The type invariants of `MetadataStore`, `CacheManager`, `PieceLifecycle`,
`PendingReplies` and `EngineReads` are proved and left out of the runs.

Only model-checked, and why:

- the liveness properties `EventuallyPublished`, `ShutdownEnds`, `EvictionEnds`,
  `BackpressureEnds` and `FinishedPiecesHandled`, and the fairness half of
  `ImplementsReadReplies`: fairness is beyond the prover;
- `ReadIsSlice` and `MirrorListsTorrent`, whose operators fold over sequences, and
  `UpgradeKeepsTorrents`, whose renumbering does: what a fold computes for every
  input takes an induction that the library states with an operator parameter;
- `RowsHaveNames`, `ClosedTorrentsKept`, `HandlesHaveRows`, `CachesAreCurrent` and
  `MountsAccountedFor`: the invariants of `Namespace` and `Container` are not
  worked out yet.

## Further observations

Behaviour the models show that is neither excepted above nor denied by a comment:

- A snapshot published from inside a poll pass shows no waiting reads and resets
  the slow-swarm clocks (`engine.rs:2395, 2413, 2673, 2717, 3052`).
- While a multi-file torrent is added, `data/` shows its files directly under the
  entry of the `.torrent` file; once the row is there, one level deeper, under the
  torrent's own folder: `extract_bencode_files` joins the `path` list alone
  (`lookup.rs:1142-1192`, whose comment speaks of "matching `FileInfo.path`"),
  libtorrent's `file_path()` "prepends the torrent name" (`metadata/mod.rs:744`).  A
  path looked up in between is not found later.
- A rename over a file cancels no read of the torrent it replaces: they are answered
  by the engine or at their deadline.
- `is_watched` is computed before `recv_timeout`, so a watcher may wait one
  interval more than `READER_DEMAND_TTL` suggests.
- Closing a reader's handle while a writer's buffer is partial removes row and
  inode (`fs_service.rs:1054-1064`); the key of a persist error is not moved by
  renames; a rename whose transaction fails leaves the inode under the new name.
- After a restart, a row whose directory has no row appears in the root of
  `metadata/` (`inodes.rs:443-450`).
- `recover_stale_mountpoint` runs before the lock is taken; a stop just after the
  daemon's own exit was reaped reports 0 (`entrypoint.sh:1220, 1540-1549`).
- Scratch files are judged by process ids of the own pid namespace; two containers
  that share a cache volume see each other's as dead.  `StartsInOrder` assumes one
  namespace.

## Not modelled

- Bencode decoding, SQL, configuration parsing, environment handling, messages,
  `.stats` text: conversions without state.
- Metrics and error types but for the gauge of pending reads and the errno of a
  failed read: counters and mappings without control.
- The checks `entrypoint.sh` makes of arguments, configuration and paths.
- Attributes, permissions and extended attributes: answered from constants.
- The settings passed through to libtorrent, and the C API around it: marshalling.
  libtorrent itself appears as far as the code relies on it, marked external.
- `read_piece_range` of `PieceStore` and `piece_evicted` of the scheduler have no
  callers.
- The text of what a stalled read reports; which of its waits it names is modelled.
