---------------------------- MODULE MetadataStore ----------------------------
(***************************************************************************)
(* Persistence of the piece-cache metadata: CacheManager's snapshots, the  *)
(* MetadataWriter that publishes them, and the two threads that flush (the *)
(* download engine on its tick, main on shutdown), with write failures,    *)
(* process crashes, power loss and restarts.                               *)
(*                                                                         *)
(* The map is abstracted to its version, the number of mutations applied   *)
(* to it; a snapshot, a scratch file and cache_metadata.txt hold the       *)
(* version they were copied from.  A torn file is the version Torn.        *)
(***************************************************************************)
EXTENDS Integers

CONSTANTS
  MaxVersion,   \* bound on the number of mutations the model explores
  MaxFaults     \* bound on the number of failing file-system calls

ASSUME BoundsAssumption == MaxVersion \in Nat /\ MaxFaults \in Nat

Writers == {"engine", "main"}

Torn == -1

VARIABLES
  main,        \* progress of the main thread, "down" when no process runs
  engine,      \* progress of the engine thread
  abandoned,   \* main gave up waiting for the engine thread
  pc,          \* per writer, how far MetadataWriter::write has come
  snap,        \* per writer, the CacheMetadataSnapshot in hand
  mapVersion,  \* CacheManager.metadata
  dirty,       \* CacheManager.metadata_dirty
  generation,  \* CacheManager.snapshot_generation
  published,   \* MetadataWriter.published_generation
  visible,     \* content of cache_metadata.txt as the file system shows it
  maybe,       \* contents a power loss may leave in its place
  faults       \* failing calls left in the fault budget

vars == <<main, engine, abandoned, pc, snap, mapVersion, dirty, generation,
          published, visible, maybe, faults>>

threads == <<main, engine, abandoned>>
file == <<visible, maybe>>

-----------------------------------------------------------------------------
(* The two locks.  Only a shutdown or start-up flush keeps the cache lock   *)
(* over several steps; the mutex inside MetadataWriter is held from the     *)
(* generation gate to the end of the write.                                 *)

\* Mutant: the writer mutex is kept until the failure is recorded.
HoldingUntilMarked == {"gated", "written", "synced", "renamed", "failed"}

Holding == {"gated", "written", "synced", "renamed"}

CacheLockFree == pc["main"] = "idle"

WriterLockFree == \A w \in Writers : pc[w] \notin Holding

Live == {"serving", "stopping", "flushing", "exiting"}

Init ==
  /\ main = "down"
  /\ engine = "stopped"
  /\ abandoned = FALSE
  /\ pc = [w \in Writers |-> "idle"]
  /\ snap = [w \in Writers |-> [gen |-> 0, ver |-> 0]]
  /\ mapVersion = 0
  /\ dirty = FALSE
  /\ generation = 0
  /\ published = 0
  /\ visible = 0
  /\ maybe = {0}
  /\ faults = MaxFaults

-----------------------------------------------------------------------------
(* Taking a snapshot.                                                       *)

\* next_snapshot: copy the map and tag the copy with the next generation.
NextSnapshot(w, version) ==
  /\ generation' = generation + 1
  /\ snap' = [snap EXCEPT ![w] = [gen |-> generation + 1, ver |-> version]]
  /\ pc' = [pc EXCEPT ![w] = "taken"]

\* Every mutator changes the map and sets the dirty flag under the cache lock.
Mutate ==
  /\ main \in Live
  /\ CacheLockFree
  /\ mapVersion < MaxVersion
  /\ mapVersion' = mapVersion + 1
  /\ dirty' = TRUE
  /\ UNCHANGED <<threads, pc, snap, generation, published, file, faults>>

\* The engine's tick: take_dirty_snapshot clears the flag, the write follows.
EngineTick ==
  /\ engine \in {"running", "stopping"}
  /\ pc["engine"] = "idle"
  /\ CacheLockFree
  /\ dirty
  /\ dirty' = FALSE
  /\ NextSnapshot("engine", mapVersion)
  /\ UNCHANGED <<threads, mapVersion, published, file, faults>>

\* The loop has ended: one last flush, when there is something to flush.
EngineFinalFlush ==
  /\ engine = "stopping"
  /\ pc["engine"] = "idle"
  /\ CacheLockFree
  /\ engine' = "draining"
  /\ dirty' = FALSE
  /\ \/ dirty /\ NextSnapshot("engine", mapVersion)
     \/ ~dirty /\ UNCHANGED <<generation, snap, pc>>
  /\ UNCHANGED <<main, abandoned, mapVersion, published, file, faults>>

EngineExit ==
  /\ engine = "draining"
  /\ pc["engine"] = "idle"
  /\ engine' = "stopped"
  /\ UNCHANGED <<main, abandoned, pc, snap, mapVersion, dirty, generation,
                 published, file, faults>>

\* Mutant: the failed flush is forgotten.
EngineForgetsFailure ==
  /\ pc["engine"] = "failed"
  /\ CacheLockFree
  /\ pc' = [pc EXCEPT !["engine"] = "idle"]
  /\ UNCHANGED <<threads, snap, mapVersion, dirty, generation, published, file, faults>>

\* mark_metadata_dirty after a failed write of the engine's snapshot.
EngineMarkDirty ==
  /\ pc["engine"] = "failed"
  /\ CacheLockFree
  /\ pc' = [pc EXCEPT !["engine"] = "idle"]
  /\ dirty' = TRUE
  /\ UNCHANGED <<threads, snap, mapVersion, generation, published, file, faults>>

-----------------------------------------------------------------------------
(* MetadataWriter::write, step by step, and what its callers do with the    *)
(* result.                                                                  *)

\* The main thread after its write: start-up serves or gives up, the shutdown
\* and drop flushes keep the map dirty when they failed.
MainResult(ok) ==
  /\ dirty' = ~ok
  /\ main' = CASE main = "starting" -> IF ok THEN "serving" ELSE "down"
               [] main = "flushing" -> "exiting"
               [] main = "dropping" -> "dropped"
  /\ engine' = IF main = "starting" /\ ok THEN "running" ELSE engine
  /\ UNCHANGED abandoned

Return(w, ok) ==
  \/ /\ w = "engine"
     /\ pc' = [pc EXCEPT ![w] = IF ok THEN "idle" ELSE "failed"]
     /\ UNCHANGED <<threads, dirty>>
  \/ /\ w = "main"
     /\ pc' = [pc EXCEPT ![w] = "idle"]
     /\ MainResult(ok)

\* Mutant: no generation gate, the last writer wins.
Ungated(w) ==
  /\ pc[w] = "taken"
  /\ WriterLockFree
  /\ pc' = [pc EXCEPT ![w] = "gated"]
  /\ UNCHANGED <<threads, dirty, snap, mapVersion, generation, published, file, faults>>

\* Lock the writer and pass the gate: a newer snapshot is already on disk, or
\* this one goes on to its scratch file.
Gate(w) ==
  /\ pc[w] = "taken"
  /\ WriterLockFree
  /\ \/ published >= snap[w].gen /\ Return(w, TRUE)
     \/ /\ published < snap[w].gen
        /\ pc' = [pc EXCEPT ![w] = "gated"]
        /\ UNCHANGED <<threads, dirty>>
  /\ UNCHANGED <<snap, mapVersion, generation, published, file, faults>>

\* A call of the write fails: the scratch is removed, the error returned.
Fail(w) ==
  /\ pc[w] \in {"gated", "written", "synced"}
  /\ faults > 0
  /\ faults' = faults - 1
  /\ Return(w, FALSE)
  /\ UNCHANGED <<snap, mapVersion, generation, published, file>>

WriteScratch(w) ==
  /\ pc[w] = "gated"
  /\ pc' = [pc EXCEPT ![w] = "written"]
  /\ UNCHANGED <<threads, snap, mapVersion, dirty, generation, published, file, faults>>

SyncScratch(w) ==
  /\ pc[w] = "written"
  /\ pc' = [pc EXCEPT ![w] = "synced"]
  /\ UNCHANGED <<threads, snap, mapVersion, dirty, generation, published, file, faults>>

\* Mutant: the scratch is renamed before it is synced, and a power loss may
\* leave a torn file.
RenameUnsynced(w) ==
  /\ pc[w] = "written"
  /\ pc' = [pc EXCEPT ![w] = "renamed"]
  /\ visible' = snap[w].ver
  /\ maybe' = maybe \cup {snap[w].ver, Torn}
  /\ UNCHANGED <<threads, snap, mapVersion, dirty, generation, published, faults>>

\* rename(2) shows the new content at once; a power loss may still undo it.
Rename(w) ==
  /\ pc[w] = "synced"
  /\ pc' = [pc EXCEPT ![w] = "renamed"]
  /\ visible' = snap[w].ver
  /\ maybe' = maybe \cup {snap[w].ver}
  /\ UNCHANGED <<threads, snap, mapVersion, dirty, generation, published, faults>>

\* The best-effort directory fsync, then the generation is published.
SyncDirectory(w) ==
  /\ pc[w] = "renamed"
  /\ \/ maybe' = {visible} /\ UNCHANGED faults
     \/ faults > 0 /\ faults' = faults - 1 /\ UNCHANGED maybe
  /\ published' = snap[w].gen
  /\ Return(w, TRUE)
  /\ UNCHANGED <<snap, mapVersion, generation, visible>>

Write(w) ==
  \/ Gate(w)
  \/ Fail(w)
  \/ WriteScratch(w)
  \/ SyncScratch(w)
  \/ Rename(w)
  \/ SyncDirectory(w)

-----------------------------------------------------------------------------
(* The process: CacheManager::new, wait_for_shutdown, and its death.        *)

\* A new manager and writer.  rebuild_index loads the file, reconciles it with
\* the directory (which may change it), and saves the result as the first
\* snapshot before anything else runs.
Start ==
  /\ main = "down"
  /\ main' = "starting"
  /\ \E v \in {visible, visible + 1} \cap (0 .. MaxVersion) :
       /\ mapVersion' = v
       /\ snap' = [snap EXCEPT !["main"] = [gen |-> 1, ver |-> v]]
  /\ pc' = [pc EXCEPT !["main"] = "taken"]
  /\ generation' = 1
  /\ published' = 0
  /\ dirty' = FALSE
  /\ UNCHANGED <<engine, abandoned, file, faults>>

RequestShutdown ==
  /\ main = "serving"
  /\ main' = "stopping"
  /\ engine' = "stopping"
  /\ UNCHANGED <<abandoned, pc, snap, mapVersion, dirty, generation, published,
                 file, faults>>

\* shutdown_within: the engine thread was joined, or its budget elapsed.
JoinEngine ==
  /\ main = "stopping"
  /\ main' = "flushing"
  /\ abandoned' = (engine # "stopped")
  /\ UNCHANGED <<engine, pc, snap, mapVersion, dirty, generation, published,
                 file, faults>>

\* CacheManager::flush under the cache lock.
ShutdownFlush ==
  /\ main = "flushing"
  /\ CacheLockFree
  /\ NextSnapshot("main", mapVersion)
  /\ UNCHANGED <<threads, mapVersion, dirty, published, file, faults>>

\* lock_within gave up on the cache lock: the flush is skipped.
SkipShutdownFlush ==
  /\ main = "flushing"
  /\ CacheLockFree
  /\ main' = "exiting"
  /\ UNCHANGED <<engine, abandoned, pc, snap, mapVersion, dirty, generation,
                 published, file, faults>>

\* The daemon's state is dropped: CacheManager::drop flushes a dirty map.
DropFlush ==
  /\ main = "exiting"
  /\ ~abandoned
  /\ dirty
  /\ CacheLockFree
  /\ main' = "dropping"
  /\ NextSnapshot("main", mapVersion)
  /\ UNCHANGED <<engine, abandoned, mapVersion, dirty, published, file, faults>>

\* Every thread is gone; Start replaces what the process held in memory.
Die ==
  /\ main' = "down"
  /\ engine' = "stopped"
  /\ abandoned' = FALSE
  /\ pc' = [w \in Writers |-> "idle"]
  /\ UNCHANGED <<snap, mapVersion, dirty, generation, published, faults>>

Exit ==
  /\ main \in {"exiting", "dropped"}
  /\ Die
  /\ UNCHANGED file

Crash ==
  /\ main # "down"
  /\ Die
  /\ UNCHANGED file

PowerLoss ==
  /\ Die
  /\ visible' \in maybe
  /\ maybe' = {visible'}

Next ==
  \/ Mutate
  \/ EngineTick
  \/ EngineFinalFlush
  \/ EngineExit
  \/ EngineMarkDirty
  \/ \E w \in Writers : Write(w)
  \/ Start
  \/ RequestShutdown
  \/ JoinEngine
  \/ ShutdownFlush
  \/ SkipShutdownFlush
  \/ DropFlush
  \/ Exit
  \/ Crash
  \/ PowerLoss

Spec == Init /\ [][Next]_vars

(* Threads that can run do run, and the disk stops failing once its fault   *)
(* budget is spent.  Nothing forces a mutation, a signal or a crash.        *)
Fairness ==
  /\ WF_vars(EngineTick)
  /\ WF_vars(EngineFinalFlush)
  /\ WF_vars(EngineExit)
  /\ WF_vars(EngineMarkDirty)
  /\ \A w \in Writers : WF_vars(Write(w))
  /\ WF_vars(JoinEngine)
  /\ WF_vars(ShutdownFlush \/ SkipShutdownFlush)
  /\ WF_vars(Exit)

FairSpec == Spec /\ Fairness

(* The same threads when the engine's file-system call may hang for ever.   *)
WedgedSpec ==
  /\ Spec
  /\ WF_vars(JoinEngine)
  /\ WF_vars(ShutdownFlush \/ SkipShutdownFlush)
  /\ WF_vars(Write("main"))
  /\ WF_vars(Exit)

-----------------------------------------------------------------------------
(* Properties.                                                              *)

Phases == {"down", "starting", "serving", "stopping", "flushing", "exiting",
           "dropping", "dropped"}

\* Every variable has its type.
TypeOK ==
  /\ main \in Phases
  /\ engine \in {"stopped", "running", "stopping", "draining"}
  /\ abandoned \in BOOLEAN
  /\ pc \in [Writers -> {"idle", "taken", "failed"} \cup Holding]
  /\ snap \in [Writers -> [gen : Nat, ver : Nat]]
  /\ mapVersion \in Nat
  /\ dirty \in BOOLEAN
  /\ generation \in Nat
  /\ published \in Nat
  /\ visible \in Nat
  /\ maybe \in SUBSET Nat
  /\ faults \in 0 .. MaxFaults

\* A clean map is on disk: when the daemon runs, no flush is under way and
\* metadata_dirty is clear, cache_metadata.txt holds the current map.  A failed
\* write, a skipped stale snapshot or a flush by the other thread never loses
\* the last change.
NoLostUpdate ==
  (main \in Live \cup {"dropped"} /\ ~dirty /\ \A w \in Writers : pc[w] = "idle")
     => visible = mapVersion

\* The published file never moves back to an older map while the machine stays
\* up, whichever of the engine's late snapshot and the shutdown flush comes
\* last (the generation gate); only a power loss may undo an unsynced rename.
NoRollback ==
  [][visible' >= visible \/ PowerLoss]_vars

\* The store implements the abstract durable map.
Abstract == INSTANCE DurableMap
  WITH mem <- mapVersion, disk <- visible, recoverable <- maybe

\* Readers of the file see the promise of DurableMap: no torn content, no
\* version the map never had, no version older than the last hardened one.
ImplementsDurableMap == Abstract!Spec

\* A change made while the daemon serves reaches the file, unless the daemon
\* stops serving first: the periodic flush retries failed writes.
EventuallyPublished ==
  \A v \in 1 .. MaxVersion :
    (main = "serving" /\ mapVersion = v) ~> (visible >= v \/ main # "serving")

\* A requested shutdown ends, whatever the engine thread and the flush do.
ShutdownEnds ==
  main = "stopping" ~> main = "down"
=============================================================================
