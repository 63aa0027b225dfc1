----------------------------- MODULE StorageProofs -----------------------------
(***************************************************************************)
(* Proofs about the two parts that guard a file several threads use, which *)
(* share no state: the metadata store (MetadataStore) and the locks of the *)
(* piece files (PieceLocks).                                               *)
(***************************************************************************)
EXTENDS MetadataStore, PieceLocks, TLAPS

-----------------------------------------------------------------------------
(* MetadataStore, for every bound: the type invariant, that no update is    *)
(* lost, that the published file never rolls back, and that the store       *)
(* implements DurableMap.                                                   *)

Active(w) == pc[w] # "idle"

\* Where the main thread can be while it writes, and what is not running yet.
ThreadsInv ==
  /\ Active("main") => main \in {"starting", "flushing", "dropping"}
  /\ main \in {"starting", "dropping"} => Active("main")
  /\ main \in {"down", "starting"} => engine = "stopped" /\ pc["engine"] = "idle"
  /\ pc["main"] # "failed"

\* The file holds a version of the map, and so does all a power loss can show.
FileInv ==
  /\ visible <= mapVersion
  /\ visible \in maybe
  /\ \A r \in maybe : r <= visible

\* Generations order the snapshots in hand like the maps they copy.
SnapInv ==
  /\ published <= generation
  /\ \A w \in Writers : Active(w) => snap[w].gen \in 1 .. generation
                                     /\ snap[w].ver <= mapVersion
  /\ Active("main") => snap["main"].gen = generation
                       /\ snap["main"].ver = mapVersion
  /\ Active("main") /\ Active("engine") => snap["engine"].gen < generation

\* The gate is right about what a snapshot would do to the file.
GateInv ==
  /\ \A v, w \in Writers : pc[v] \in Holding /\ pc[w] \in Holding => v = w
  /\ \A w \in Writers : pc[w] \in Holding => published < snap[w].gen
  /\ \A w \in Writers : pc[w] = "renamed" => visible = snap[w].ver
  /\ \A w \in Writers : Active(w) /\ snap[w].gen <= published => snap[w].ver <= visible
  /\ \A w \in Writers :
       (Active(w) /\ published < snap[w].gen /\ \A v \in Writers : pc[v] # "renamed")
          => visible <= snap[w].ver

\* A change that is neither flagged nor on disk is in a snapshot in hand.
UpdateInv ==
  (main \in Live \cup {"dropping", "dropped"} /\ ~dirty)
    => \/ visible = mapVersion
       \/ \E w \in Writers : Active(w) /\ snap[w].ver = mapVersion

IndInv == TypeOK /\ ThreadsInv /\ FileInv /\ SnapInv /\ GateInv /\ UpdateInv

-----------------------------------------------------------------------------
\* The invariant holds before the first start.
LEMMA InitIndInv == Init => IndInv
  <1>. SUFFICES ASSUME Init PROVE IndInv
    OBVIOUS
  <1>1. TypeOK
    <2>1. /\ abandoned \in BOOLEAN
          /\ dirty \in BOOLEAN
      BY Zenon DEF Init
    <2>2. pc \in [Writers -> {"idle", "taken", "failed"} \cup Holding]
      BY DEF Init
    <2>3. snap \in [Writers -> [gen : Nat, ver : Nat]]
      BY DEF Init
    <2>4. faults \in 0 .. MaxFaults
      BY BoundsAssumption DEF Init
    <2>. QED
      BY <2>1, <2>2, <2>3, <2>4 DEF Init, TypeOK, Phases
  <1>2. ThreadsInv /\ FileInv /\ SnapInv /\ GateInv /\ UpdateInv
    BY DEF Init, ThreadsInv, FileInv, SnapInv, GateInv, UpdateInv, Active,
           Writers, Holding, Live
  <1>. QED
    BY <1>1, <1>2 DEF IndInv

\* The return of a write, for either caller and outcome.
LEMMA ReturnPreserves ==
  ASSUME TypeOK, ThreadsInv, NEW w \in Writers, NEW ok \in BOOLEAN,
         Active(w), pc[w] # "failed", Return(w, ok)
  PROVE  /\ main' \in Phases
         /\ engine' \in {"stopped", "running", "stopping", "draining"}
         /\ abandoned' \in BOOLEAN
         /\ dirty' \in BOOLEAN
         /\ pc' \in [Writers -> {"idle", "taken", "failed"} \cup Holding]
         /\ ThreadsInv'
  <1>1. CASE w = "engine"
    BY <1>1 DEF Return, TypeOK, ThreadsInv, threads, Active, Writers, Holding
  <1>2. CASE w = "main"
    <2>1. main \in {"starting", "flushing", "dropping"}
      BY <1>2 DEF ThreadsInv
    <2>2. /\ pc' = [pc EXCEPT ![w] = "idle"]
          /\ dirty' = ~ok
          /\ main' = CASE main = "starting" -> IF ok THEN "serving" ELSE "down"
                       [] main = "flushing" -> "exiting"
                       [] main = "dropping" -> "dropped"
          /\ engine' = IF main = "starting" /\ ok THEN "running" ELSE engine
          /\ abandoned' = abandoned
      BY <1>2, Zenon DEF Return, MainResult
    <2>3. main' \in {"serving", "down", "exiting", "dropped"}
          /\ (main' = "down" => main = "starting" /\ engine' = engine)
      BY <2>1, <2>2
    <2>4. dirty' \in BOOLEAN
      <3>1. CASE ok = TRUE
        BY <2>2, <3>1
      <3>2. CASE ok = FALSE
        BY <2>2, <3>2
      <3>. QED
        BY <3>1, <3>2, Zenon
    <2>. QED
      BY <1>2, <2>1, <2>2, <2>3, <2>4 DEF TypeOK, ThreadsInv, Active, Writers, Phases
  <1>. QED
    BY <1>1, <1>2 DEF Writers

\* A mutation flags the map, so nothing goes missing.
LEMMA MutatePreserves == IndInv /\ Mutate => IndInv'
  BY BoundsAssumption
  DEF IndInv, Mutate, threads, file, CacheLockFree, TypeOK, ThreadsInv, FileInv,
      SnapInv, GateInv, UpdateInv, Active, Writers, Holding, Live, Phases

\* What a new snapshot does to the types.
LEMMA NextSnapshotType ==
  ASSUME TypeOK, NEW w \in Writers, NEW v \in Nat, NextSnapshot(w, v)
  PROVE  /\ generation' \in Nat
         /\ snap' \in [Writers -> [gen : Nat, ver : Nat]]
         /\ pc' \in [Writers -> {"idle", "taken", "failed"} \cup Holding]
  BY DEF TypeOK, NextSnapshot, Writers

\* The engine thread outside MetadataWriter::write.
LEMMA EngineStepPreserves ==
  IndInv /\ (EngineTick \/ EngineFinalFlush \/ EngineExit \/ EngineMarkDirty) => IndInv'
  <1>. SUFFICES ASSUME IndInv,
                       EngineTick \/ EngineFinalFlush \/ EngineExit \/ EngineMarkDirty
                PROVE  IndInv'
    OBVIOUS
  <1>. USE DEF IndInv, TypeOK, ThreadsInv, FileInv, SnapInv, GateInv, UpdateInv,
               threads, file, NextSnapshot, CacheLockFree, Active, Writers,
               Holding, Live, Phases
  <1>1. CASE EngineTick
    <2>1. TypeOK'
      <3>1. dirty' \in BOOLEAN
        BY <1>1, Zenon DEF EngineTick
      <3>. QED
        BY <1>1, <3>1, NextSnapshotType DEF EngineTick
    <2>2. ThreadsInv' /\ FileInv' /\ SnapInv'
      BY <1>1 DEF EngineTick
    <2>3. GateInv'
      BY <1>1 DEF EngineTick
    <2>4. UpdateInv'
      BY <1>1 DEF EngineTick
    <2>. QED
      BY <2>1, <2>2, <2>3, <2>4
  <1>2. CASE EngineFinalFlush
    <2>1. TypeOK'
      <3>1. dirty' \in BOOLEAN
        BY <1>2, Zenon DEF EngineFinalFlush
      <3>. QED
        BY <1>2, <3>1, NextSnapshotType DEF EngineFinalFlush
    <2>2. ThreadsInv' /\ FileInv' /\ SnapInv'
      BY <1>2 DEF EngineFinalFlush
    <2>3. GateInv'
      BY <1>2 DEF EngineFinalFlush
    <2>4. UpdateInv'
      BY <1>2 DEF EngineFinalFlush
    <2>. QED
      BY <2>1, <2>2, <2>3, <2>4
  <1>3. CASE EngineExit
    BY <1>3 DEF EngineExit
  <1>4. CASE EngineMarkDirty
    BY <1>4 DEF EngineMarkDirty
  <1>. QED
    BY <1>1, <1>2, <1>3, <1>4

\* Start-up, shutdown and the ways the process ends.
LEMMA ProcessStepPreserves ==
  ASSUME IndInv,
         \/ Start
         \/ RequestShutdown
         \/ JoinEngine
         \/ ShutdownFlush
         \/ SkipShutdownFlush
         \/ DropFlush
         \/ Exit
         \/ Crash
         \/ PowerLoss
  PROVE  IndInv'
  <1>. USE DEF IndInv, TypeOK, ThreadsInv, FileInv, SnapInv, GateInv, UpdateInv,
               threads, file, NextSnapshot, CacheLockFree, Active, Writers,
               Holding, Live, Phases
  <1>1. CASE Start
    <2>1. PICK v \in {visible, visible + 1} :
            /\ mapVersion' = v
            /\ snap' = [snap EXCEPT !["main"] = [gen |-> 1, ver |-> v]]
      BY <1>1, Zenon DEF Start
    <2>2. v \in Nat /\ visible <= v
      BY <2>1
    <2>3. dirty' \in BOOLEAN
      BY <1>1, Zenon DEF Start
    <2>4. TypeOK'
      BY <1>1, <2>1, <2>2, <2>3 DEF Start
    <2>5. ThreadsInv' /\ FileInv' /\ SnapInv'
      BY <1>1, <2>1, <2>2 DEF Start
    <2>6. GateInv' /\ UpdateInv'
      BY <1>1, <2>1, <2>2 DEF Start
    <2>. QED
      BY <2>4, <2>5, <2>6
  <1>2. CASE RequestShutdown
    BY <1>2 DEF RequestShutdown
  <1>3. CASE JoinEngine
    BY <1>3 DEF JoinEngine
  <1>4. CASE ShutdownFlush
    BY <1>4 DEF ShutdownFlush
  <1>5. CASE SkipShutdownFlush
    BY <1>5 DEF SkipShutdownFlush
  <1>6. CASE DropFlush
    BY <1>6 DEF DropFlush
  <1>7. CASE Exit
    BY <1>7, Zenon DEF Exit, Die
  <1>8. CASE Crash
    BY <1>8, Zenon DEF Crash, Die
  <1>9. CASE PowerLoss
    <2>1. visible' \in Nat /\ visible' <= visible /\ maybe' = {visible'}
      BY <1>9 DEF PowerLoss
    <2>2. abandoned' \in BOOLEAN
      BY <1>9, Zenon DEF PowerLoss, Die
    <2>3. TypeOK'
      BY <1>9, <2>1, <2>2 DEF PowerLoss, Die
    <2>4. ThreadsInv' /\ FileInv' /\ SnapInv' /\ GateInv' /\ UpdateInv'
      BY <1>9, <2>1 DEF PowerLoss, Die
    <2>. QED
      BY <2>3, <2>4
  <1>. QED
    BY <1>1, <1>2, <1>3, <1>4, <1>5, <1>6, <1>7, <1>8, <1>9

\* MetadataWriter::write, step by step, for either writer.
LEMMA WritePreserves ==
  ASSUME IndInv, NEW w \in Writers, Write(w)
  PROVE  IndInv'
  <1>. USE DEF IndInv, Active, Writers, Holding, Live
  <1>0. CASE pc[w] = "taken" /\ WriterLockFree /\ published >= snap[w].gen
             /\ Return(w, TRUE)
             /\ UNCHANGED <<snap, mapVersion, generation, published, file, faults>>
    <2>1. TypeOK' /\ ThreadsInv'
      BY <1>0, ReturnPreserves, Zenon DEF TypeOK, file
    <2>2. FileInv' /\ SnapInv' /\ GateInv'
      BY <1>0, ZenonT(60)
      DEF Return, file, TypeOK, FileInv, SnapInv, GateInv
    <2>3. UpdateInv'
      <3>1. snap[w].ver <= visible /\ visible <= mapVersion
        BY <1>0 DEF GateInv, FileInv
      <3>2. CASE w = "engine"
        BY <1>0, <3>1, <3>2 DEF Return, threads, file, TypeOK, UpdateInv
      <3>3. CASE w = "main"
        <4>1. visible' = mapVersion'
          BY <1>0, <3>1, <3>3 DEF SnapInv, TypeOK, file
        <4>. QED
          BY <4>1 DEF UpdateInv
      <3>. QED
        BY <3>2, <3>3
    <2>. QED
      BY <2>1, <2>2, <2>3
  <1>1. CASE Gate(w)
    <2>1. CASE pc' = [pc EXCEPT ![w] = "gated"] /\ published < snap[w].gen
               /\ UNCHANGED <<threads, dirty>>
      <3>1. TypeOK' /\ ThreadsInv'
        BY <1>1, <2>1 DEF Gate, file, threads, TypeOK, ThreadsInv, Phases
      <3>2. FileInv' /\ SnapInv'
        BY <1>1, <2>1 DEF Gate, file, TypeOK, FileInv, SnapInv
      <3>3. GateInv'
        BY <1>1, <2>1 DEF Gate, WriterLockFree, file, TypeOK, GateInv
      <3>4. UpdateInv'
        BY <1>1, <2>1 DEF Gate, file, threads, TypeOK, UpdateInv
      <3>. QED
        BY <3>1, <3>2, <3>3, <3>4
    <2>. QED
      BY <1>0, <1>1, <2>1, Zenon DEF Gate
  <1>2. CASE Fail(w)
    <2>1. TypeOK' /\ ThreadsInv'
      <3>1. faults' \in 0 .. MaxFaults
        BY <1>2, BoundsAssumption DEF Fail, TypeOK
      <3>. QED
        BY <1>2, <3>1, ReturnPreserves, Zenon DEF Fail, TypeOK, file
    <2>2. FileInv' /\ SnapInv' /\ GateInv'
      BY <1>2, ZenonT(60) DEF Fail, Return, file, TypeOK, FileInv, SnapInv, GateInv
    <2>3. UpdateInv'
      <3>1. CASE w = "engine"
        BY <1>2, <3>1 DEF Fail, Return, threads, file, TypeOK, UpdateInv
      <3>2. CASE w = "main"
        BY <1>2, <3>2, Zenon DEF Fail, Return, MainResult, UpdateInv
      <3>. QED
        BY <3>1, <3>2
    <2>. QED
      BY <2>1, <2>2, <2>3
  <1>3. CASE WriteScratch(w)
    BY <1>3
    DEF WriteScratch, threads, file, TypeOK, ThreadsInv, FileInv, SnapInv,
        GateInv, UpdateInv
  <1>4. CASE SyncScratch(w)
    BY <1>4
    DEF SyncScratch, threads, file, TypeOK, ThreadsInv, FileInv, SnapInv,
        GateInv, UpdateInv
  <1>5. CASE Rename(w)
    <2>1. visible <= snap[w].ver /\ snap[w].ver <= mapVersion
      BY <1>5 DEF Rename, GateInv, SnapInv
    <2>2. TypeOK' /\ ThreadsInv'
      BY <1>5, Zenon DEF Rename, threads, TypeOK, ThreadsInv
    <2>3. FileInv' /\ SnapInv'
      BY <1>5, <2>1 DEF Rename, threads, TypeOK, FileInv, SnapInv
    <2>4. GateInv'
      BY <1>5, <2>1 DEF Rename, threads, TypeOK, GateInv, FileInv, SnapInv
    <2>5. UpdateInv'
      BY <1>5, <2>1 DEF Rename, threads, TypeOK, UpdateInv
    <2>. QED
      BY <2>2, <2>3, <2>4, <2>5
  <1>6. CASE SyncDirectory(w)
    <2>0. Return(w, TRUE) /\ pc[w] = "renamed" /\ published' = snap[w].gen
          /\ UNCHANGED <<snap, mapVersion, generation, visible>>
      BY <1>6, Zenon DEF SyncDirectory
    <2>1. TypeOK' /\ ThreadsInv'
      <3>0. maybe' \in SUBSET Nat
        BY <1>6, Zenon DEF SyncDirectory, TypeOK
      <3>1. faults' \in 0 .. MaxFaults
        BY <1>6, BoundsAssumption DEF SyncDirectory, TypeOK
      <3>2. snap' \in [Writers -> [gen : Nat, ver : Nat]] /\ published' \in Nat
        BY <2>0 DEF TypeOK
      <3>. QED
        BY <2>0, <3>0, <3>1, <3>2, ReturnPreserves, Zenon DEF TypeOK
    <2>2. FileInv' /\ SnapInv'
      <3>1. FileInv'
        BY <1>6, Zenon DEF SyncDirectory, TypeOK, FileInv
      <3>2. \A v \in Writers : Active(v)' => Active(v)
        BY <2>0, Zenon DEF Return, TypeOK
      <3>. QED
        BY <2>0, <3>1, <3>2 DEF TypeOK, SnapInv
    <2>3. GateInv'
      <3>1. pc'[w] = "idle" /\ \A v \in Writers : v # w => pc'[v] = pc[v]
        BY <2>0, Zenon DEF Return, TypeOK
      <3>2. \A v \in Writers : v # w => pc[v] \notin Holding
        BY <2>0 DEF GateInv
      <3>3. visible = snap[w].ver
        BY <2>0 DEF GateInv
      <3>4. ASSUME NEW v \in Writers, v # w, Active(v)
            PROVE  /\ snap[v].gen <= snap[w].gen => snap[v].ver <= visible
                   /\ snap[w].gen < snap[v].gen => visible <= snap[v].ver
        BY <2>0, <3>3, <3>4 DEF SnapInv, TypeOK
      <3>. QED
        BY <2>0, <3>1, <3>2, <3>4 DEF GateInv
    <2>4. UpdateInv'
      <3>1. CASE w = "engine"
        BY <2>0, <3>1 DEF Return, threads, TypeOK, UpdateInv, GateInv
      <3>2. CASE w = "main"
        <4>1. visible' = mapVersion'
          BY <2>0, <3>2 DEF SnapInv, GateInv, TypeOK
        <4>. QED
          BY <4>1 DEF UpdateInv
      <3>. QED
        BY <3>1, <3>2
    <2>. QED
      BY <2>1, <2>2, <2>3, <2>4
  <1>. QED
    BY <1>1, <1>2, <1>3, <1>4, <1>5, <1>6 DEF Write

\* Every step keeps the invariant.
LEMMA IndInvStep == IndInv /\ [Next]_vars => IndInv'
  <1>. SUFFICES ASSUME IndInv, [Next]_vars PROVE IndInv'
    OBVIOUS
  <1>1. CASE UNCHANGED vars
    BY <1>1
    DEF vars, IndInv, TypeOK, ThreadsInv, FileInv, SnapInv, GateInv, UpdateInv, Active
  <1>2. CASE Next
    BY <1>2, MutatePreserves, EngineStepPreserves, WritePreserves,
       ProcessStepPreserves
    DEF Next
  <1>. QED
    BY <1>1, <1>2

\* The inductive invariant holds in every reachable state: types, thread
\* phases, and how generations, snapshots in hand and the file are ordered.
THEOREM Invariance == Spec => []IndInv
  BY InitIndInv, IndInvStep, PTL DEF Spec

(***************************************************************************)
(* Every variable keeps its type.                                          *)
(***************************************************************************)
THEOREM TypeCorrect == Spec => []TypeOK
  BY Invariance, PTL DEF IndInv

(***************************************************************************)
(* No flush, failed write, skipped snapshot or restart loses a change: a   *)
(* clean map is the map on disk.                                           *)
(***************************************************************************)
THEOREM NothingLost == Spec => []NoLostUpdate
  <1>1. IndInv => NoLostUpdate
    BY DEF IndInv, UpdateInv, NoLostUpdate, Active
  <1>. QED
    BY Invariance, <1>1, PTL

(***************************************************************************)
(* The generation gate keeps an older snapshot from replacing a newer one. *)
(***************************************************************************)
THEOREM NeverRollsBack == Spec => NoRollback
  <1>1. IndInv /\ [Next]_vars => [visible' >= visible \/ PowerLoss]_vars
    <2>. SUFFICES ASSUME IndInv, Next, ~PowerLoss PROVE visible' >= visible
      OBVIOUS
    <2>1. ASSUME NEW w \in Writers, Rename(w) PROVE visible' >= visible
      BY <2>1 DEF Rename, IndInv, TypeOK, GateInv, Writers, Holding, Active
    <2>2. CASE UNCHANGED visible
      BY <2>2 DEF IndInv, TypeOK
    <2>. QED
      BY <2>1, <2>2, Zenon
      DEF Next, Mutate, EngineTick, EngineFinalFlush, EngineExit, EngineMarkDirty,
          Write, Gate, Fail, WriteScratch, SyncScratch, SyncDirectory, Start,
          RequestShutdown, JoinEngine, ShutdownFlush, SkipShutdownFlush,
          DropFlush, Exit, Crash, file
  <1>. QED
    BY Invariance, <1>1, PTL DEF Spec, NoRollback

(***************************************************************************)
(* The store implements the durable map of module DurableMap.              *)
(***************************************************************************)
THEOREM Refinement == Spec => ImplementsDurableMap
  <1>1. Init => Abstract!Init
    BY DEF Init, Abstract!Init
  <1>2. IndInv /\ [Next]_vars => [Abstract!Next]_(Abstract!dmVars)
    <2>. SUFFICES ASSUME IndInv, [Next]_vars
                  PROVE  Abstract!Next \/ UNCHANGED <<mapVersion, visible, maybe>>
      BY DEF Abstract!dmVars
    <2>1. CASE Mutate
      BY <2>1 DEF Mutate, file, Abstract!Next, Abstract!Change
    <2>2. ASSUME NEW w \in Writers, Rename(w) PROVE Abstract!Publish
      <3>1. visible <= snap[w].ver /\ snap[w].ver <= mapVersion /\ snap[w].ver \in Nat
        BY <2>2 DEF Rename, IndInv, TypeOK, GateInv, SnapInv, Writers, Holding, Active
      <3>. QED
        BY <2>2, <3>1 DEF Rename, Abstract!Publish, IndInv, TypeOK
    <2>3. ASSUME NEW w \in Writers, SyncDirectory(w)
          PROVE  Abstract!Harden \/ UNCHANGED <<mapVersion, visible, maybe>>
      BY <2>3 DEF SyncDirectory, Abstract!Harden
    <2>4. CASE Start
      BY <2>4 DEF Start, file, Abstract!Next, Abstract!Load
    <2>5. CASE PowerLoss
      BY <2>5 DEF PowerLoss, Die, Abstract!Next, Abstract!PowerLoss
    <2>6. CASE UNCHANGED <<mapVersion, visible, maybe>>
      BY <2>6
    <2>. QED
      BY <2>1, <2>2, <2>3, <2>4, <2>5, <2>6, Zenon
      DEF Next, EngineTick, EngineFinalFlush, EngineExit, EngineMarkDirty, Write,
          Gate, Fail, WriteScratch, SyncScratch, RequestShutdown, JoinEngine,
          ShutdownFlush, SkipShutdownFlush, DropFlush, Exit, Crash, Die, file,
          vars, Abstract!Next
  <1>. QED
    BY Invariance, <1>1, <1>2, PTL DEF Spec, ImplementsDurableMap, Abstract!Spec

-----------------------------------------------------------------------------
(* PieceLocks.  A guarded read sees one state of its piece file, for every  *)
(* number of torrents, readers, blocks, storages, evictions and failing     *)
(* writes.                                                                  *)

States == {"none", "half", "whole"}

LockHeld == {"open", "write", "rest", "unlock"}

Mutex == [exclusive : BOOLEAN, shared : SUBSET Readers]

\* The disk thread's calls and the readers', with the mutex and the file of each.
Writing == [pc : {"lock"} \cup LockHeld, hash : Hashes, block : Blocks, mutex : Nat, file : Nat]

Waiting == [pc : {"lock"}, hash : Hashes, mutex : Nat]

Guarded == [pc : {"reading", "unlock"}, hash : Hashes, mutex : Nat, file : Nat,
            data : Seq(States)]

\* What the structures hold.
LockTypes ==
  /\ mutexes \in Seq(Mutex)
  /\ g_piece_locks \in [Hashes -> Nat]
  /\ \A h \in Hashes : g_piece_locks[h] <= Len(mutexes)
  /\ \A i \in Indices : m_storages[i] \in Hashes
  /\ files \in Seq([Blocks -> States])
  /\ piece_path \in [Hashes -> Nat]
  /\ \A h \in Hashes : piece_path[h] <= Len(files)
  /\ writer \in {Idle} \cup Writing
  /\ readers \in [Readers -> {Idle} \cup Waiting \cup Guarded]

\* The registry gives one mutex per info hash, and who asked for it has the one
\* that is registered still.
RegistryInv ==
  /\ \A h1, h2 \in Hashes : g_piece_locks[h1] = g_piece_locks[h2] /\ g_piece_locks[h1] # 0 => h1 = h2
  /\ writer # Idle => writer.mutex = g_piece_locks[writer.hash] /\ writer.mutex # 0
  /\ \A r \in Readers : readers[r] # Idle =>
       readers[r].mutex = g_piece_locks[readers[r].hash] /\ readers[r].mutex # 0

\* A mutex is held by those who passed it, and by the writer alone or by readers.
HoldInv ==
  /\ \A m \in 1..Len(mutexes) :
       mutexes[m].exclusive => /\ writer.pc \in LockHeld /\ writer.mutex = m
                               /\ mutexes[m].shared = {}
  /\ writer.pc \in LockHeld => mutexes[writer.mutex].exclusive
  /\ \A r \in Readers : readers[r].pc \in {"reading", "unlock"} =>
       r \in mutexes[readers[r].mutex].shared

\* A file is only ever one info hash's, also when its path is gone.
PathInv ==
  /\ \A h1, h2 \in Hashes : piece_path[h1] = piece_path[h2] /\ piece_path[h1] # 0 => h1 = h2
  /\ writer.pc \in {"write", "rest"} =>
       /\ writer.file \in 1..Len(files)
       /\ \A h \in Hashes : piece_path[h] = writer.file => h = writer.hash
  /\ \A r \in Readers : Reading(r) =>
       /\ readers[r].file \in 1..Len(files)
       /\ \A h \in Hashes : piece_path[h] = readers[r].file => h = readers[r].hash
       /\ writer.pc \in {"write", "rest"} /\ writer.file = readers[r].file =>
            writer.hash = readers[r].hash

\* A half-written block is the one being written or one whose write failed.
TornInv ==
  \A f \in 1..Len(files), b \in Blocks :
    files[f][b] = "half" =>
      \/ <<f, b>> \in torn
      \/ writer.pc = "rest" /\ writer.file = f /\ writer.block = b

\* What a reader has read is what the file has.
DataInv ==
  \A r \in Readers : Reading(r) =>
    /\ Len(readers[r].data) <= NumBlocks
    /\ \A b \in 1..Len(readers[r].data) : readers[r].data[b] = files[readers[r].file][b]

LocksInv == LockTypes /\ RegistryInv /\ HoldInv /\ PathInv /\ TornInv /\ DataInv

\* Replacing one element of a sequence.
LEMMA UpdateSeq ==
  ASSUME NEW S, NEW s \in Seq(S), NEW i \in 1..Len(s), NEW v \in S
  PROVE  /\ [s EXCEPT ![i] = v] \in Seq(S)
         /\ Len([s EXCEPT ![i] = v]) = Len(s)
         /\ [s EXCEPT ![i] = v][i] = v
         /\ \A j \in 1..Len(s) : j # i => [s EXCEPT ![i] = v][j] = s[j]
  OBVIOUS

LEMMA InitLocksInv == LocksInit => LocksInv
  BY LocksAssumption DEF LocksInit, LocksInv, LockTypes, RegistryInv, HoldInv, PathInv, TornInv, DataInv,
     Idle, Reading, LockHeld, Indices

\* What a reader that is not idle has in hand.
LEMMA ReaderTypes ==
  ASSUME LocksInv, NEW r \in Readers
  PROVE  /\ readers[r] # Idle =>
              /\ readers[r].hash \in Hashes
              /\ readers[r].mutex \in 1..Len(mutexes)
              /\ readers[r].mutex = g_piece_locks[readers[r].hash]
              /\ readers[r].pc \in {"lock", "reading", "unlock"}
         /\ readers[r].pc # "idle" => readers[r] # Idle
         /\ readers[r].pc \in {"reading", "unlock"} => readers[r] \in Guarded
         /\ readers[r].pc = "lock" => readers[r] \in Waiting
<1>1. readers[r] \in {Idle} \cup Waiting \cup Guarded
  BY DEF LocksInv, LockTypes
<1>2. /\ readers[r] # Idle => readers[r].hash \in Hashes /\ readers[r].mutex \in Nat
                               /\ readers[r].pc \in {"lock", "reading", "unlock"}
      /\ readers[r].pc # "idle" => readers[r] # Idle
      /\ readers[r].pc \in {"reading", "unlock"} => readers[r] \in Guarded
      /\ readers[r].pc = "lock" => readers[r] \in Waiting
  BY <1>1 DEF Idle, Waiting, Guarded
<1>3. Len(mutexes) \in Nat
  BY DEF LocksInv, LockTypes
<1> QED
  BY <1>2, <1>3 DEF LocksInv, LockTypes, RegistryInv

\* What the disk thread has in hand.
LEMMA WriterTypes ==
  ASSUME LocksInv
  PROVE  /\ writer # Idle =>
              /\ writer \in Writing /\ writer.hash \in Hashes /\ writer.block \in Blocks
              /\ writer.mutex \in 1..Len(mutexes)
              /\ writer.mutex = g_piece_locks[writer.hash]
         /\ writer.pc # "idle" => writer # Idle
<1>1. writer \in {Idle} \cup Writing
  BY DEF LocksInv, LockTypes
<1>2. /\ writer # Idle => /\ writer \in Writing /\ writer.hash \in Hashes
                           /\ writer.mutex \in Nat /\ writer.block \in Blocks
      /\ writer.pc # "idle" => writer # Idle
  BY <1>1 DEF Idle, Writing
<1>3. Len(mutexes) \in Nat
  BY DEF LocksInv, LockTypes
<1> QED
  BY <1>2, <1>3 DEF LocksInv, LockTypes, RegistryInv

\* While a reader reads a file the disk thread writes another.
LEMMA ReadersExcludeWriter ==
  ASSUME LocksInv, NEW r \in Readers, Reading(r), writer.pc \in {"write", "rest"}
  PROVE  writer.file # readers[r].file
<1> SUFFICES ASSUME writer.file = readers[r].file PROVE FALSE
  OBVIOUS
<1>1. writer # Idle /\ readers[r] # Idle
  BY DEF Idle, Reading
<1>2. writer.mutex = readers[r].mutex
  BY <1>1 DEF LocksInv, PathInv, RegistryInv
<1>3. writer \in Writing
  BY <1>1 DEF LocksInv, LockTypes
<1>4. mutexes[writer.mutex].exclusive /\ writer.mutex \in 1..Len(mutexes)
  BY <1>1, <1>3 DEF LocksInv, LockTypes, RegistryInv, HoldInv, LockHeld, Writing
<1> QED
  BY <1>2, <1>4 DEF LocksInv, HoldInv, Reading

\* The property follows.
LEMMA LocksInvSuffices == LocksInv => GuardedReadIsOneState
<1> SUFFICES ASSUME LocksInv, NEW r \in Readers, Reading(r), NEW b \in 1..Len(readers[r].data)
             PROVE  /\ readers[r].data[b] = files[readers[r].file][b]
                    /\ readers[r].data[b] = "half" => <<readers[r].file, b>> \in torn
  BY DEF GuardedReadIsOneState
<1>1. readers[r] \in Guarded
  BY DEF LocksInv, LockTypes, Reading, Idle, Waiting, Guarded
<1>2. readers[r].file \in 1..Len(files) /\ Len(readers[r].data) \in Nat
  BY <1>1 DEF LocksInv, LockTypes, PathInv, Guarded
<1>3. b \in Blocks
  BY <1>2, LocksAssumption DEF LocksInv, DataInv, Blocks
<1> QED
  BY <1>2, <1>3, ReadersExcludeWriter, Zenon DEF LocksInv, DataInv, TornInv

\* Asking the registry for the mutex of h: none is lost or changed, and a new one
\* is held by nobody.
LEMMA LookupKeeps ==
  ASSUME LocksInv, NEW h \in Hashes, NEW id, get_piece_lock(h, id)
  PROVE  /\ mutexes' \in Seq(Mutex)
         /\ Len(mutexes) <= Len(mutexes')
         /\ \A m \in 1..Len(mutexes) : mutexes'[m] = mutexes[m]
         /\ \A m \in 1..Len(mutexes') : m \notin 1..Len(mutexes) => mutexes'[m] = NewMutex
         /\ g_piece_locks' \in [Hashes -> Nat]
         /\ \A k \in Hashes : g_piece_locks'[k] <= Len(mutexes')
         /\ \A k \in Hashes : g_piece_locks[k] # 0 => g_piece_locks'[k] = g_piece_locks[k]
         /\ g_piece_locks'[h] = id /\ id \in 1..Len(mutexes')
         /\ \A h1, h2 \in Hashes :
              g_piece_locks'[h1] = g_piece_locks'[h2] /\ g_piece_locks'[h1] # 0 => h1 = h2
<1>1. CASE g_piece_locks[h] # 0
  BY <1>1 DEF get_piece_lock, LocksInv, LockTypes, RegistryInv
<1>2. CASE g_piece_locks[h] = 0
  <2>1. /\ id = Len(mutexes) + 1
        /\ mutexes' = Append(mutexes, NewMutex)
        /\ g_piece_locks' = [g_piece_locks EXCEPT ![h] = id]
    BY <1>2 DEF get_piece_lock
  <2>2. /\ mutexes \in Seq(Mutex)
        /\ Len(mutexes) \in Nat /\ g_piece_locks \in [Hashes -> Nat]
    BY DEF LocksInv, LockTypes
  <2>3. NewMutex \in Mutex
    BY DEF NewMutex, Mutex
  <2>4. /\ Len(mutexes') = Len(mutexes) + 1
        /\ mutexes' \in Seq(Mutex)
        /\ \A m \in 1..Len(mutexes) : mutexes'[m] = mutexes[m]
        /\ mutexes'[Len(mutexes) + 1] = NewMutex
    BY <2>1, <2>2, <2>3
  <2>5. \A k \in Hashes : g_piece_locks[k] <= Len(mutexes)
    BY DEF LocksInv, LockTypes
  <2>6. /\ g_piece_locks' \in [Hashes -> Nat] /\ g_piece_locks'[h] = id
        /\ \A k \in Hashes : k # h => g_piece_locks'[k] = g_piece_locks[k]
    BY <2>1, <2>2
  <2>7. \A m \in 1..Len(mutexes') : m \notin 1..Len(mutexes) => m = Len(mutexes) + 1
    BY <2>2, <2>4
  <2>8. \A k \in Hashes : g_piece_locks'[k] <= Len(mutexes')
    BY <2>1, <2>2, <2>4, <2>5, <2>6
  <2>9. \A h1, h2 \in Hashes :
          g_piece_locks'[h1] = g_piece_locks'[h2] /\ g_piece_locks'[h1] # 0 => h1 = h2
    BY <2>1, <2>2, <2>5, <2>6 DEF LocksInv, RegistryInv
  <2>10. \A m \in 1..Len(mutexes') : m \notin 1..Len(mutexes) => mutexes'[m] = NewMutex
    BY <2>4, <2>7, Zenon
  <2>11. /\ Len(mutexes) <= Len(mutexes')
         /\ id \in 1..Len(mutexes')
    BY <2>1, <2>2, <2>4
  <2>12. \A k \in Hashes : g_piece_locks[k] # 0 => g_piece_locks'[k] = g_piece_locks[k]
    BY <1>2, <2>6
  <2> QED
    BY <2>4, <2>6, <2>8, <2>9, <2>10, <2>11, <2>12, Zenon
<1> QED
  BY <1>1, <1>2

\* The disk thread gets on with its call.
LEMMA WriterUpdate ==
  ASSUME NEW w \in Writing, NEW p \in {"lock"} \cup LockHeld
  PROVE  /\ [w EXCEPT !.pc = p] \in Writing
         /\ [w EXCEPT !.pc = p].pc = p
         /\ [w EXCEPT !.pc = p].hash = w.hash
         /\ [w EXCEPT !.pc = p].block = w.block
         /\ [w EXCEPT !.pc = p].mutex = w.mutex
         /\ [w EXCEPT !.pc = p].file = w.file
         /\ [w EXCEPT !.pc = p] # Idle
  BY DEF Writing, LockHeld, Idle

LEMMA WriterOpens ==
  ASSUME NEW w \in Writing, NEW f \in Nat, writer' = [w EXCEPT !.pc = "write", !.file = f]
  PROVE  /\ writer' \in Writing /\ writer'.pc = "write" /\ writer'.hash = w.hash
         /\ writer'.mutex = w.mutex /\ writer'.file = f /\ writer' # Idle
  BY Zenon DEF Writing, LockHeld, Idle

\* Taking or giving up the exclusive hold on a mutex, and a shared one.
LEMMA ExclusiveUpdate ==
  ASSUME mutexes \in Seq(Mutex), NEW i \in 1..Len(mutexes), NEW e \in BOOLEAN,
         mutexes' = [mutexes EXCEPT ![i].exclusive = e]
  PROVE  /\ mutexes' \in Seq(Mutex) /\ Len(mutexes') = Len(mutexes)
         /\ mutexes'[i].exclusive = e /\ mutexes'[i].shared = mutexes[i].shared
         /\ \A m \in 1..Len(mutexes) : m # i => mutexes'[m] = mutexes[m]
<1> DEFINE v == [mutexes[i] EXCEPT !.exclusive = e]
<1>1. mutexes[i] \in Mutex
  OBVIOUS
<1>2. v \in Mutex /\ v.exclusive = e /\ v.shared = mutexes[i].shared
  BY <1>1 DEF Mutex
<1>3. mutexes' = [mutexes EXCEPT ![i] = v]
  OBVIOUS
<1> HIDE DEF v
<1> QED
  BY <1>2, <1>3, UpdateSeq

LEMMA SharedUpdate ==
  ASSUME mutexes \in Seq(Mutex), NEW i \in 1..Len(mutexes), NEW S \in SUBSET Readers,
         mutexes' = [mutexes EXCEPT ![i].shared = S]
  PROVE  /\ mutexes' \in Seq(Mutex) /\ Len(mutexes') = Len(mutexes)
         /\ mutexes'[i].exclusive = mutexes[i].exclusive /\ mutexes'[i].shared = S
         /\ \A m \in 1..Len(mutexes) : m # i => mutexes'[m] = mutexes[m]
<1> DEFINE v == [mutexes[i] EXCEPT !.shared = S]
<1>1. mutexes[i] \in Mutex
  OBVIOUS
<1>2. v \in Mutex /\ v.exclusive = mutexes[i].exclusive /\ v.shared = S
  BY <1>1 DEF Mutex
<1>3. mutexes' = [mutexes EXCEPT ![i] = v]
  OBVIOUS
<1> HIDE DEF v
<1> QED
  BY <1>2, <1>3, UpdateSeq

\* Each action keeps the invariant.
LEMMA RemoveKeeps ==
  ASSUME LocksInv, NEW i \in 1..MaxStorages, remove_torrent(i)
  PROVE  LocksInv'
<1>1. LockTypes'
  BY DEF remove_torrent, LocksInv, LockTypes, Indices
<1> QED
  BY <1>1 DEF remove_torrent, LocksInv, RegistryInv, HoldInv, PathInv, TornInv, DataInv, Reading

LEMMA WriteKeeps ==
  ASSUME LocksInv, NEW i \in 1..MaxStorages, NEW b \in Blocks, async_write(i, b)
  PROVE  LocksInv'
<1> DEFINE h == m_storages[i]
<1> PICK id \in 1..(Len(mutexes) + 1) :
      /\ get_piece_lock(h, id)
      /\ writer' = [pc |-> "lock", hash |-> h, block |-> b, mutex |-> id, file |-> 0]
  BY DEF async_write
<1>1. h \in Hashes
  BY DEF async_write, LocksInv, LockTypes
<1> HIDE DEF h
<1>2. /\ writer = Idle
      /\ UNCHANGED <<m_storages, m_next_index, piece_path, files, readers, torn>>
  BY DEF async_write
<1>3. Len(mutexes) \in Nat /\ Len(mutexes') \in Nat
  BY <1>1, LookupKeeps DEF LocksInv, LockTypes
<1>4. /\ writer' \in Writing /\ writer'.pc = "lock" /\ writer' # Idle
      /\ writer'.hash = h /\ writer'.mutex = id
  BY <1>1, <1>3 DEF Writing, Idle
<1>5. LockTypes'
  BY <1>1, <1>2, <1>4, LookupKeeps DEF LocksInv, LockTypes, Indices
<1>6. RegistryInv'
  <2>1. \A r \in Readers : readers[r] # Idle =>
           readers[r].hash \in Hashes /\ readers[r].mutex = g_piece_locks[readers[r].hash]
           /\ readers[r].mutex # 0
    BY ReaderTypes DEF LocksInv, RegistryInv
  <2> QED
    BY <1>1, <1>2, <1>4, <2>1, LookupKeeps, SMTT(30) DEF RegistryInv
<1>7. HoldInv'
  <2>1. ~(writer.pc \in LockHeld) /\ ~(writer'.pc \in LockHeld)
    BY <1>2, <1>4 DEF Idle, LockHeld
  <2>2. \A m \in 1..Len(mutexes') : ~mutexes'[m].exclusive
    BY <1>1, <2>1, LookupKeeps DEF LocksInv, HoldInv, NewMutex
  <2>3. \A r \in Readers : readers[r].pc \in {"reading", "unlock"} =>
          readers[r].mutex \in 1..Len(mutexes)
    BY ReaderTypes
  <2> QED
    BY <1>1, <1>2, <2>1, <2>2, <2>3, LookupKeeps, SMTT(30) DEF LocksInv, HoldInv
<1>8. PathInv' /\ TornInv' /\ DataInv'
  BY <1>2, <1>4 DEF LocksInv, PathInv, TornInv, DataInv, Reading, Idle
<1> QED
  BY <1>5, <1>6, <1>7, <1>8 DEF LocksInv

LEMMA LockExclusiveKeeps ==
  ASSUME LocksInv, LockExclusive
  PROVE  LocksInv'
<1> DEFINE i == writer.mutex
<1>1. /\ writer.pc = "lock" /\ writer # Idle /\ writer \in Writing /\ i \in 1..Len(mutexes)
      /\ writer.hash \in Hashes /\ i = g_piece_locks[writer.hash]
  BY WriterTypes DEF LockExclusive
<1>2. /\ ~mutexes[i].exclusive /\ mutexes[i].shared = {}
      /\ mutexes' = [mutexes EXCEPT ![i].exclusive = TRUE]
      /\ UNCHANGED <<g_piece_locks, m_storages, m_next_index, piece_path, files, readers, torn>>
  BY DEF LockExclusive
<1>3. /\ writer' \in Writing /\ writer'.pc = "open" /\ writer' # Idle
      /\ writer'.hash = writer.hash /\ writer'.mutex = i
  BY <1>1, WriterUpdate, Zenon DEF LockExclusive, LockHeld
<1> HIDE DEF i
<1>4. mutexes \in Seq(Mutex)
  BY DEF LocksInv, LockTypes
<1>5. /\ mutexes' \in Seq(Mutex) /\ Len(mutexes') = Len(mutexes)
      /\ mutexes'[i].exclusive /\ mutexes'[i].shared = {}
      /\ \A m \in 1..Len(mutexes) : m # i => mutexes'[m] = mutexes[m]
  BY <1>1, <1>2, <1>4, ExclusiveUpdate, Zenon
<1>6. LockTypes'
  BY <1>2, <1>3, <1>5 DEF LocksInv, LockTypes, Indices
<1>7. RegistryInv'
  BY <1>1, <1>2, <1>3 DEF LocksInv, RegistryInv, i
<1>8. HoldInv'
  <2>1. \A m \in 1..Len(mutexes) : ~mutexes[m].exclusive
    BY <1>1 DEF LocksInv, HoldInv, LockHeld
  <2>2. \A r \in Readers : readers[r].pc \in {"reading", "unlock"} =>
          readers[r].mutex \in 1..Len(mutexes) /\ readers[r].mutex # i
    BY <1>2, ReaderTypes DEF LocksInv, HoldInv
  <2> QED
    BY <1>1, <1>2, <1>3, <1>5, <2>1, <2>2 DEF LocksInv, HoldInv, LockHeld
<1>9. PathInv' /\ TornInv' /\ DataInv'
  BY <1>1, <1>2, <1>3 DEF LocksInv, PathInv, TornInv, DataInv, Reading
<1> QED
  BY <1>6, <1>7, <1>8, <1>9 DEF LocksInv

\* The steps of write_piece under its lock leave the locks alone.
LEMMA StillHeld ==
  ASSUME LocksInv, writer \in Writing, writer.pc \in LockHeld,
         writer' # Idle, writer'.pc \in LockHeld, writer'.hash = writer.hash,
         writer'.mutex = writer.mutex, UNCHANGED <<g_piece_locks, mutexes, readers>>
  PROVE  RegistryInv' /\ HoldInv'
<1>1. writer # Idle
  BY DEF LockHeld, Idle
<1> QED
  BY <1>1 DEF LocksInv, RegistryInv, HoldInv

LEMMA OpenKeeps ==
  ASSUME LocksInv, OpenFile
  PROVE  LocksInv'
<1> DEFINE h == writer.hash
<1>1. writer.pc = "open" /\ writer \in Writing /\ h \in Hashes
  BY WriterTypes DEF OpenFile
<1>2. UNCHANGED <<g_piece_locks, mutexes, m_storages, m_next_index, readers, torn>>
  BY DEF OpenFile
<1>3. /\ piece_path \in [Hashes -> Nat] /\ \A k \in Hashes : piece_path[k] <= Len(files)
      /\ files \in Seq([Blocks -> States]) /\ Len(files) \in Nat
  BY DEF LocksInv, LockTypes
<1>4. CASE /\ piece_path[h] # 0
           /\ writer' = [writer EXCEPT !.pc = "write", !.file = piece_path[h]]
           /\ UNCHANGED <<piece_path, files>>
  <2>1. /\ writer' \in Writing /\ writer'.pc = "write" /\ writer' # Idle /\ writer'.hash = h
        /\ writer'.mutex = writer.mutex /\ writer'.file = piece_path[h]
    <3>1. piece_path[h] \in Nat
      BY <1>1, <1>3
    <3> QED
      BY <1>1, <1>4, <3>1, WriterOpens, Zenon
  <2>2. LockTypes'
    BY <1>2, <1>4, <2>1 DEF LocksInv, LockTypes, Indices
  <2>3. RegistryInv' /\ HoldInv'
    BY <1>1, <1>2, <2>1, StillHeld DEF LockHeld
  <2>4. piece_path[h] \in 1..Len(files)
    BY <1>1, <1>3, <1>4
  <2>5. PathInv'
    BY <1>1, <1>2, <1>4, <2>1, <2>4 DEF LocksInv, PathInv, Reading
  <2>6. TornInv' /\ DataInv'
    BY <1>1, <1>2, <1>4, <2>1 DEF LocksInv, TornInv, DataInv, Reading
  <2> QED
    BY <2>2, <2>3, <2>5, <2>6 DEF LocksInv
<1>5. CASE /\ piece_path[h] = 0
           /\ files' = Append(files, [b \in Blocks |-> "none"])
           /\ piece_path' = [piece_path EXCEPT ![h] = Len(files')]
           /\ writer' = [writer EXCEPT !.pc = "write", !.file = Len(files')]
  <2> DEFINE n == Len(files) + 1
             fresh == [b \in Blocks |-> "none"]
  <2>1. fresh \in [Blocks -> States] /\ \A b \in Blocks : fresh[b] = "none"
    BY DEF States
  <2>2. files' = Append(files, fresh)
    BY <1>5
  <2> HIDE DEF fresh
  <2>3. /\ files' \in Seq([Blocks -> States]) /\ Len(files') = n /\ files'[n] = fresh
        /\ \A f \in 1..Len(files) : files'[f] = files[f]
    BY <1>3, <2>1, <2>2
  <2>4. /\ writer' \in Writing /\ writer'.pc = "write" /\ writer' # Idle /\ writer'.hash = h
        /\ writer'.mutex = writer.mutex /\ writer'.file = n
    <3>1. n \in Nat /\ writer' = [writer EXCEPT !.pc = "write", !.file = n]
      BY <1>3, <1>5, <2>3
    <3> QED
      BY <1>1, <3>1, WriterOpens, Zenon
  <2>5. /\ piece_path' \in [Hashes -> Nat] /\ piece_path'[h] = n
        /\ \A k \in Hashes : k # h => piece_path'[k] = piece_path[k]
    BY <1>1, <1>3, <1>5, <2>3
  <2>6. \A k \in Hashes : piece_path'[k] <= n /\ (piece_path'[k] = n => k = h)
    BY <1>3, <2>5
  <2>7. LockTypes'
    BY <1>2, <2>3, <2>4, <2>5, <2>6 DEF LocksInv, LockTypes, Indices
  <2>8. RegistryInv' /\ HoldInv'
    BY <1>1, <1>2, <2>4, StillHeld DEF LockHeld
  <2>9. PathInv'
    <3>1. \A r \in Readers : Reading(r) => readers[r].file \in 1..Len(files)
      BY DEF LocksInv, PathInv
    <3>2. \A r \in Readers : Reading(r) => readers[r].file # n /\ readers[r].file \in 1..Len(files')
      BY <1>3, <2>3, <3>1
    <3>3. \A h1, h2 \in Hashes : piece_path'[h1] = piece_path'[h2] /\ piece_path'[h1] # 0 => h1 = h2
      BY <2>5, <2>6 DEF LocksInv, PathInv
    <3>4. n \in 1..Len(files')
      BY <1>3, <2>3
    <3>5. ASSUME NEW r \in Readers, Reading(r)'
          PROVE  /\ readers'[r].file \in 1..Len(files')
                 /\ \A k \in Hashes : piece_path'[k] = readers'[r].file => k = readers'[r].hash
                 /\ ~(writer'.file = readers'[r].file)
      BY <3>5, <3>2, <1>2, <2>4, <2>5 DEF LocksInv, PathInv, Reading
    <3> QED
      BY <3>3, <3>4, <3>5, <2>4, <2>6 DEF PathInv
  <2>10. TornInv'
    <3> SUFFICES ASSUME NEW f \in 1..Len(files'), NEW b \in Blocks, files'[f][b] = "half"
                 PROVE  <<f, b>> \in torn
      BY <1>2 DEF TornInv
    <3>1. f \in 1..Len(files)
      BY <1>3, <2>1, <2>3
    <3> QED
      BY <1>1, <2>3, <3>1 DEF LocksInv, TornInv
  <2>11. DataInv'
    BY <1>2, <2>3 DEF LocksInv, PathInv, DataInv, Reading
  <2> QED
    BY <2>7, <2>8, <2>9, <2>10, <2>11 DEF LocksInv
<1>6. CASE /\ writer' = [writer EXCEPT !.pc = "unlock"]
           /\ UNCHANGED <<piece_path, files>>
  <2>1. /\ writer' \in Writing /\ writer'.pc = "unlock" /\ writer' # Idle /\ writer'.hash = h
        /\ writer'.mutex = writer.mutex
    BY <1>1, <1>6, WriterUpdate, Zenon DEF LockHeld
  <2>2. LockTypes'
    BY <1>2, <1>6, <2>1 DEF LocksInv, LockTypes, Indices
  <2>3. RegistryInv' /\ HoldInv'
    BY <1>1, <1>2, <2>1, StillHeld DEF LockHeld
  <2>4. PathInv' /\ TornInv' /\ DataInv'
    BY <1>1, <1>2, <1>6, <2>1 DEF LocksInv, PathInv, TornInv, DataInv, Reading
  <2> QED
    BY <2>2, <2>3, <2>4 DEF LocksInv
<1> QED
  BY <1>4, <1>5, <1>6 DEF OpenFile

\* Writing a part of a block changes the one file and nobody reads it.
LEMMA WritePart ==
  ASSUME LocksInv, writer.pc \in {"write", "rest"}, NEW v \in States,
         files' = [files EXCEPT ![writer.file][writer.block] = v],
         UNCHANGED readers
  PROVE  /\ files' \in Seq([Blocks -> States]) /\ Len(files') = Len(files)
         /\ files'[writer.file][writer.block] = v
         /\ \A f \in 1..Len(files), b \in Blocks :
              f # writer.file \/ b # writer.block => files'[f][b] = files[f][b]
         /\ DataInv'
<1> DEFINE w == writer.file
           c == [files[w] EXCEPT ![writer.block] = v]
<1>1. writer.block \in Blocks /\ w \in 1..Len(files) /\ files \in Seq([Blocks -> States])
  BY WriterTypes DEF LocksInv, LockTypes, PathInv
<1>2. files[w] \in [Blocks -> States]
  BY <1>1
<1>3. /\ c \in [Blocks -> States] /\ c[writer.block] = v
      /\ \A b \in Blocks : b # writer.block => c[b] = files[w][b]
  BY <1>1, <1>2
<1>4. files' = [files EXCEPT ![w] = c]
  OBVIOUS
<1> HIDE DEF c
<1>5. /\ files' \in Seq([Blocks -> States]) /\ Len(files') = Len(files) /\ files'[w] = c
      /\ \A f \in 1..Len(files) : f # w => files'[f] = files[f]
  BY <1>1, <1>3, <1>4, UpdateSeq
<1>6. DataInv'
  BY <1>5, ReadersExcludeWriter DEF LocksInv, PathInv, DataInv, Reading
<1> QED
  BY <1>1, <1>3, <1>5, <1>6

LEMMA WriteHalfKeeps ==
  ASSUME LocksInv, WriteHalf
  PROVE  LocksInv'
<1>1. writer.pc = "write" /\ writer \in Writing
  BY WriterTypes DEF WriteHalf
<1>2. UNCHANGED <<g_piece_locks, mutexes, m_storages, m_next_index, piece_path, readers, torn>>
  BY DEF WriteHalf
<1>3. /\ writer' \in Writing /\ writer'.pc = "rest" /\ writer' # Idle /\ writer'.hash = writer.hash
      /\ writer'.mutex = writer.mutex /\ writer'.file = writer.file /\ writer'.block = writer.block
  BY <1>1, WriterUpdate, Zenon DEF WriteHalf, LockHeld
<1>4. /\ files' \in Seq([Blocks -> States]) /\ Len(files') = Len(files) /\ DataInv'
      /\ \A f \in 1..Len(files), b \in Blocks :
           f # writer.file \/ b # writer.block => files'[f][b] = files[f][b]
  <2>1. files' = [files EXCEPT ![writer.file][writer.block] = "half"] /\ "half" \in States
    BY DEF WriteHalf, States
  <2> QED
    BY <1>1, <1>2, <2>1, WritePart, Zenon
<1>5. LockTypes'
  BY <1>2, <1>3, <1>4 DEF LocksInv, LockTypes, Indices
<1>6. RegistryInv' /\ HoldInv'
  BY <1>1, <1>2, <1>3, StillHeld DEF LockHeld
<1>7. PathInv'
  BY <1>1, <1>2, <1>3, <1>4 DEF LocksInv, PathInv, Reading
<1>8. TornInv'
  BY <1>1, <1>2, <1>3, <1>4 DEF LocksInv, TornInv
<1> QED
  BY <1>4, <1>5, <1>6, <1>7, <1>8 DEF LocksInv

LEMMA WriteRestKeeps ==
  ASSUME LocksInv, WriteRest
  PROVE  LocksInv'
<1>1. writer.pc = "rest" /\ writer \in Writing
  BY WriterTypes DEF WriteRest
<1>2. UNCHANGED <<g_piece_locks, mutexes, m_storages, m_next_index, piece_path, readers>>
  BY DEF WriteRest
<1>3. /\ writer' \in Writing /\ writer'.pc = "unlock" /\ writer' # Idle /\ writer'.hash = writer.hash
      /\ writer'.mutex = writer.mutex
  BY <1>1, WriterUpdate, Zenon DEF WriteRest, LockHeld
<1>4. /\ files' \in Seq([Blocks -> States]) /\ Len(files') = Len(files) /\ DataInv' /\ TornInv'
  <2>1. CASE /\ files' = [files EXCEPT ![writer.file][writer.block] = "whole"]
             /\ torn' = torn \ {<<writer.file, writer.block>>}
    <3>1. "whole" \in States
      BY DEF States
    <3>2. /\ files' \in Seq([Blocks -> States]) /\ Len(files') = Len(files) /\ DataInv'
          /\ files'[writer.file][writer.block] = "whole"
          /\ \A f \in 1..Len(files), b \in Blocks :
               f # writer.file \/ b # writer.block => files'[f][b] = files[f][b]
      BY <1>1, <1>2, <2>1, <3>1, WritePart, Zenon
    <3> QED
      BY <2>1, <3>2 DEF LocksInv, TornInv
  <2>2. CASE torn' = torn \cup {<<writer.file, writer.block>>} /\ UNCHANGED files
    BY <1>2, <2>2 DEF LocksInv, LockTypes, TornInv, DataInv, Reading
  <2> QED
    BY <2>1, <2>2 DEF WriteRest
<1>5. LockTypes'
  BY <1>2, <1>3, <1>4 DEF LocksInv, LockTypes, Indices
<1>6. RegistryInv' /\ HoldInv'
  BY <1>1, <1>2, <1>3, StillHeld DEF LockHeld
<1>7. PathInv'
  BY <1>1, <1>2, <1>3, <1>4 DEF LocksInv, PathInv, Reading
<1> QED
  BY <1>4, <1>5, <1>6, <1>7 DEF LocksInv

LEMMA UnlockExclusiveKeeps ==
  ASSUME LocksInv, UnlockExclusive
  PROVE  LocksInv'
<1> DEFINE i == writer.mutex
<1>1. /\ writer.pc = "unlock" /\ writer # Idle /\ i \in 1..Len(mutexes)
  BY WriterTypes DEF UnlockExclusive
<1>2. /\ writer' = Idle /\ mutexes' = [mutexes EXCEPT ![i].exclusive = FALSE]
      /\ UNCHANGED <<g_piece_locks, m_storages, m_next_index, piece_path, files, readers, torn>>
  BY DEF UnlockExclusive
<1>3. writer'.pc = "idle"
  BY <1>2 DEF Idle
<1>4. mutexes \in Seq(Mutex)
  BY DEF LocksInv, LockTypes
<1>5. /\ mutexes' \in Seq(Mutex) /\ Len(mutexes') = Len(mutexes)
      /\ mutexes'[i].exclusive = FALSE /\ mutexes'[i].shared = mutexes[i].shared
      /\ \A m \in 1..Len(mutexes) : m # i => mutexes'[m] = mutexes[m]
  BY <1>1, <1>2, <1>4, ExclusiveUpdate, Zenon
<1>6. LockTypes'
  BY <1>2, <1>5 DEF LocksInv, LockTypes, Indices
<1>7. RegistryInv'
  BY <1>2 DEF LocksInv, RegistryInv
<1>8. HoldInv'
  <2>1. \A r \in Readers : readers[r].pc \in {"reading", "unlock"} =>
          readers[r].mutex \in 1..Len(mutexes)
    BY ReaderTypes
  <2>2. \A m \in 1..Len(mutexes) : ~mutexes'[m].exclusive
    BY <1>1, <1>5 DEF LocksInv, HoldInv
  <2> QED
    BY <1>1, <1>2, <1>3, <1>5, <2>1, <2>2 DEF LocksInv, HoldInv, LockHeld
<1>9. PathInv' /\ TornInv' /\ DataInv'
  BY <1>1, <1>2, <1>3 DEF LocksInv, PathInv, TornInv, DataInv, Reading
<1> QED
  BY <1>6, <1>7, <1>8, <1>9 DEF LocksInv

\* A reader's step changes its own entry.
LEMMA ReaderUpdate ==
  ASSUME LocksInv, NEW r \in Readers, NEW v, readers' = [readers EXCEPT ![r] = v]
  PROVE  /\ readers'[r] = v
         /\ \A q \in Readers : q # r => readers'[q] = readers[q]
         /\ v \in {Idle} \cup Waiting \cup Guarded =>
              readers' \in [Readers -> {Idle} \cup Waiting \cup Guarded]
<1>1. readers \in [Readers -> {Idle} \cup Waiting \cup Guarded]
  BY DEF LocksInv, LockTypes
<1> QED
  BY <1>1

\* A step that touches neither the paths nor the writer, and in which no reader
\* comes to read a file, keeps the files apart.
LEMMA PathKept ==
  ASSUME PathInv, UNCHANGED <<piece_path, files, writer>>,
         \A q \in Readers : Reading(q)' =>
           /\ Reading(q) /\ readers'[q].file = readers[q].file
           /\ readers'[q].hash = readers[q].hash
  PROVE  PathInv'
<1>1. ASSUME NEW q \in Readers, Reading(q)'
      PROVE  /\ readers'[q].file \in 1..Len(files)
             /\ \A k \in Hashes : piece_path[k] = readers'[q].file => k = readers'[q].hash
             /\ writer.pc \in {"write", "rest"} /\ writer.file = readers'[q].file =>
                  writer.hash = readers'[q].hash
  <2>1. /\ Reading(q) /\ readers'[q].file = readers[q].file
        /\ readers'[q].hash = readers[q].hash
    BY <1>1, Zenon
  <2> QED
    BY <2>1, Zenon DEF PathInv
<1>2. /\ \A h1, h2 \in Hashes : piece_path[h1] = piece_path[h2] /\ piece_path[h1] # 0 => h1 = h2
      /\ writer.pc \in {"write", "rest"} =>
           /\ writer.file \in 1..Len(files)
           /\ \A k \in Hashes : piece_path[k] = writer.file => k = writer.hash
  BY Zenon DEF PathInv
<1> QED
  BY <1>1, <1>2, Zenon DEF PathInv

LEMMA LockReadKeeps ==
  ASSUME LocksInv, NEW r \in Readers, NEW h \in Hashes, lt_lock_piece_read(r, h)
  PROVE  LocksInv'
<1> PICK id \in 1..(Len(mutexes) + 1) :
      /\ get_piece_lock(h, id)
      /\ readers' = [readers EXCEPT ![r] = [pc |-> "lock", hash |-> h, mutex |-> id]]
  BY Zenon DEF lt_lock_piece_read
<1> DEFINE v == [pc |-> "lock", hash |-> h, mutex |-> id]
<1>1. UNCHANGED <<m_storages, m_next_index, piece_path, files, writer, torn>>
  BY DEF lt_lock_piece_read
<1>2. /\ v \in Waiting /\ v.pc = "lock" /\ v.hash = h /\ v.mutex = id /\ v # Idle
  BY DEF Waiting, Idle
<1>3. readers' = [readers EXCEPT ![r] = v]
  OBVIOUS
<1> HIDE DEF v
<1>4. /\ readers'[r] = v
      /\ \A q \in Readers : q # r => readers'[q] = readers[q]
      /\ readers' \in [Readers -> {Idle} \cup Waiting \cup Guarded]
  BY <1>2, <1>3, ReaderUpdate, Zenon
<1>5. LockTypes'
  BY <1>1, <1>4, LookupKeeps DEF LocksInv, LockTypes, Indices
<1>6. RegistryInv'
  <2>1. \A q \in Readers : readers[q] # Idle =>
           readers[q].hash \in Hashes /\ readers[q].mutex = g_piece_locks[readers[q].hash]
           /\ readers[q].mutex # 0
    BY ReaderTypes DEF LocksInv, RegistryInv
  <2>2. writer # Idle =>
           writer.hash \in Hashes /\ writer.mutex = g_piece_locks[writer.hash] /\ writer.mutex # 0
    BY WriterTypes DEF LocksInv, RegistryInv
  <2>3. \A k \in Hashes : g_piece_locks[k] # 0 => g_piece_locks'[k] = g_piece_locks[k]
    BY LookupKeeps
  <2>4. /\ g_piece_locks'[h] = id /\ id # 0
        /\ \A h1, h2 \in Hashes :
             g_piece_locks'[h1] = g_piece_locks'[h2] /\ g_piece_locks'[h1] # 0 => h1 = h2
    <3>1. /\ g_piece_locks'[h] = id /\ id \in 1..Len(mutexes')
          /\ \A h1, h2 \in Hashes :
               g_piece_locks'[h1] = g_piece_locks'[h2] /\ g_piece_locks'[h1] # 0 => h1 = h2
      BY LookupKeeps, Zenon
    <3> QED
      BY <3>1
  <2>5. writer # Idle => writer.mutex = g_piece_locks'[writer.hash]
    BY <2>2, <2>3
  <2>6. \A q \in Readers : readers[q] # Idle => readers[q].mutex = g_piece_locks'[readers[q].hash]
    BY <2>1, <2>3
  <2>7. \A q \in Readers : readers'[q] # Idle =>
          readers'[q].mutex = g_piece_locks'[readers'[q].hash] /\ readers'[q].mutex # 0
    BY <1>2, <1>4, <2>1, <2>4, <2>6
  <2> QED
    BY <1>1, <2>2, <2>4, <2>5, <2>7 DEF RegistryInv
<1>7. HoldInv'
  <2>1. \A q \in Readers : readers[q].pc \in {"reading", "unlock"} =>
          readers[q].mutex \in 1..Len(mutexes)
    BY ReaderTypes
  <2>2. writer.pc \in LockHeld => writer.mutex \in 1..Len(mutexes)
    BY WriterTypes DEF LockHeld
  <2>3. /\ \A m \in 1..Len(mutexes) : mutexes'[m] = mutexes[m]
        /\ \A m \in 1..Len(mutexes') : m \notin 1..Len(mutexes) => ~mutexes'[m].exclusive
    <3>1. ~NewMutex.exclusive
      BY DEF NewMutex
    <3> QED
      BY <3>1, LookupKeeps
  <2>4. \A m \in 1..Len(mutexes') :
          mutexes'[m].exclusive => /\ writer.pc \in LockHeld /\ writer.mutex = m
                                   /\ mutexes'[m].shared = {}
    <3>1. \A m \in 1..Len(mutexes) :
            mutexes[m].exclusive => /\ writer.pc \in LockHeld /\ writer.mutex = m
                                    /\ mutexes[m].shared = {}
      BY DEF LocksInv, HoldInv
    <3> QED
      BY <2>3, <3>1
  <2>5. \A q \in Readers : readers'[q].pc \in {"reading", "unlock"} =>
          q \in mutexes'[readers'[q].mutex].shared
    BY <1>2, <1>4, <2>1, <2>3 DEF LocksInv, HoldInv
  <2> QED
    BY <1>1, <2>2, <2>3, <2>4, <2>5 DEF LocksInv, HoldInv
<1>8. PathInv' /\ TornInv' /\ DataInv'
  <2>1. \A q \in Readers : Reading(q)' => Reading(q) /\ readers'[q] = readers[q]
    BY <1>2, <1>4 DEF Reading
  <2>2. TornInv'
    BY <1>1 DEF LocksInv, TornInv
  <2>3. DataInv'
    BY <1>1, <2>1 DEF LocksInv, DataInv
  <2>4. PathInv'
    BY <1>1, <2>1, PathKept DEF LocksInv
  <2> QED
    BY <2>2, <2>3, <2>4
<1> QED
  BY <1>5, <1>6, <1>7, <1>8 DEF LocksInv

LEMMA LockSharedKeeps ==
  ASSUME LocksInv, NEW r \in Readers, LockShared(r)
  PROVE  LocksInv'
<1> DEFINE i == readers[r].mutex
           h == readers[r].hash
           f == piece_path[h]
           v == [pc |-> IF f = 0 THEN "unlock" ELSE "reading", hash |-> h, mutex |-> i,
                 file |-> f, data |-> <<>>]
<1>1. /\ readers[r] \in Waiting /\ readers[r].pc = "lock" /\ readers[r] # Idle /\ h \in Hashes
      /\ i \in 1..Len(mutexes) /\ i = g_piece_locks[h]
  BY ReaderTypes DEF LockShared
<1>2. /\ ~mutexes[i].exclusive /\ readers' = [readers EXCEPT ![r] = v]
      /\ mutexes' = [mutexes EXCEPT ![i].shared = mutexes[i].shared \cup {r}]
      /\ UNCHANGED <<g_piece_locks, m_storages, m_next_index, piece_path, files, writer, torn>>
  BY DEF LockShared
<1>3. f \in Nat /\ f <= Len(files) /\ Len(files) \in Nat /\ mutexes \in Seq(Mutex)
  <2>1. /\ piece_path \in [Hashes -> Nat]
        /\ \A k \in Hashes : piece_path[k] <= Len(files)
        /\ files \in Seq([Blocks -> States]) /\ mutexes \in Seq(Mutex)
    BY DEF LocksInv, LockTypes
  <2>2. Len(files) \in Nat
    BY <2>1
  <2> HIDE DEF h
  <2> QED
    BY <1>1, <2>1, <2>2
<1>4. /\ v \in Guarded /\ v.pc = (IF f = 0 THEN "unlock" ELSE "reading") /\ v.hash = h
      /\ v.mutex = i /\ v.file = f /\ v.data = <<>> /\ v # Idle
  <2>1. i \in Nat
    BY <1>1, <1>3
  <2> HIDE DEF i, h, f
  <2> QED
    BY <1>1, <1>3, <2>1 DEF Guarded, Idle
<1> HIDE DEF v
<1>5. /\ readers'[r] = v
      /\ \A q \in Readers : q # r => readers'[q] = readers[q]
      /\ readers' \in [Readers -> {Idle} \cup Waiting \cup Guarded]
  BY <1>2, <1>4, ReaderUpdate, Zenon
<1>6. mutexes[i].shared \cup {r} \in SUBSET Readers
  <2>1. mutexes[i] \in Mutex
    BY <1>1, <1>3
  <2> HIDE DEF i
  <2> QED
    BY <2>1 DEF Mutex
<1>7. /\ mutexes' \in Seq(Mutex) /\ Len(mutexes') = Len(mutexes)
      /\ ~mutexes'[i].exclusive /\ mutexes'[i].shared = mutexes[i].shared \cup {r}
      /\ \A m \in 1..Len(mutexes) : m # i => mutexes'[m] = mutexes[m]
  BY <1>1, <1>2, <1>3, <1>6, SharedUpdate, ZenonT(60)
<1> HIDE DEF i, h
<1>8. LockTypes'
  BY <1>2, <1>5, <1>7 DEF LocksInv, LockTypes, Indices
<1>9. RegistryInv'
  <2>1. i # 0
    BY <1>1, <1>3
  <2> QED
    BY <1>1, <1>2, <1>4, <1>5, <2>1 DEF LocksInv, RegistryInv
<1>10. HoldInv'
  <2>1. \A q \in Readers : readers[q].pc \in {"reading", "unlock"} =>
          readers[q].mutex \in 1..Len(mutexes) /\ q \in mutexes[readers[q].mutex].shared
    BY ReaderTypes DEF LocksInv, HoldInv
  <2>2. writer.pc \in LockHeld => writer.mutex \in 1..Len(mutexes) /\ writer.mutex # i
    BY <1>2, WriterTypes DEF LocksInv, HoldInv, LockHeld
  <2>3. \A q \in Readers : readers'[q].pc \in {"reading", "unlock"} =>
          q \in mutexes'[readers'[q].mutex].shared
    BY <1>1, <1>4, <1>5, <1>7, <2>1, SMTT(30)
  <2> QED
    BY <1>1, <1>2, <1>7, <2>2, <2>3 DEF LocksInv, HoldInv
<1>11. PathInv'
  BY <1>1, <1>2, <1>3, <1>4, <1>5 DEF LocksInv, PathInv, Reading
<1>12. TornInv'
  BY <1>2 DEF LocksInv, TornInv
<1>13. DataInv'
  BY <1>2, <1>4, <1>5, LocksAssumption DEF LocksInv, DataInv, Reading
<1> QED
  BY <1>8, <1>9, <1>10, <1>11, <1>12, <1>13 DEF LocksInv

LEMMA ReadBlockKeeps ==
  ASSUME LocksInv, NEW r \in Readers, ReadBlock(r)
  PROVE  LocksInv'
<1> DEFINE d == readers[r].data
           n == Len(d) + 1
           block == files[readers[r].file][n]
           v == [readers[r] EXCEPT !.data = Append(d, block)]
<1>1. /\ readers[r] \in Guarded /\ readers[r].pc = "reading" /\ readers[r] # Idle
      /\ readers[r].file \in 1..Len(files) /\ Len(d) < NumBlocks
  BY ReaderTypes DEF ReadBlock, Reading, LocksInv, PathInv
<1>2. d \in Seq(States) /\ Len(d) \in Nat
  BY <1>1 DEF Guarded
<1>3. n \in Blocks /\ block \in States
  <2>1. n \in Blocks
    BY <1>1, <1>2, LocksAssumption DEF Blocks
  <2>2. files \in Seq([Blocks -> States])
    BY DEF LocksInv, LockTypes
  <2>3. files[readers[r].file] \in [Blocks -> States]
    BY <1>1, <2>2
  <2> HIDE DEF n
  <2> QED
    BY <2>1, <2>3
<1>4. /\ readers' = [readers EXCEPT ![r] = v]
      /\ UNCHANGED <<g_piece_locks, mutexes, m_storages, m_next_index, piece_path, files, writer, torn>>
  BY DEF ReadBlock
<1> HIDE DEF d, block
<1>5. /\ Append(d, block) \in Seq(States) /\ Len(Append(d, block)) = n
      /\ \A b \in 1..Len(d) : Append(d, block)[b] = d[b]
      /\ Append(d, block)[n] = block
  BY <1>2, <1>3
<1>6. /\ v \in Guarded /\ v.pc = "reading" /\ v # Idle /\ v.hash = readers[r].hash
      /\ v.mutex = readers[r].mutex /\ v.file = readers[r].file /\ v.data = Append(d, block)
  BY <1>1, <1>5, Zenon DEF Guarded, Idle
<1> HIDE DEF v
<1>7. /\ readers'[r] = v
      /\ \A q \in Readers : q # r => readers'[q] = readers[q]
      /\ readers' \in [Readers -> {Idle} \cup Waiting \cup Guarded]
  BY <1>4, <1>6, ReaderUpdate, Zenon
<1>8. LockTypes'
  BY <1>4, <1>7 DEF LocksInv, LockTypes, Indices
<1>9. \A q \in Readers :
         /\ readers'[q].pc = readers[q].pc /\ readers'[q].hash = readers[q].hash
         /\ readers'[q].mutex = readers[q].mutex /\ readers'[q].file = readers[q].file
         /\ readers'[q] # Idle => readers[q] # Idle
  BY <1>1, <1>6, <1>7, Zenon
<1>10. RegistryInv'
  BY <1>4, <1>9 DEF LocksInv, RegistryInv
<1>11. HoldInv'
  BY <1>4, <1>9 DEF LocksInv, HoldInv
<1>12. PathInv'
  <2>1. \A q \in Readers : Reading(q)' => Reading(q)
    BY <1>9, Zenon DEF Reading
  <2> QED
    BY <1>4, <1>9, <2>1, PathKept DEF LocksInv
<1>13. TornInv'
  BY <1>4 DEF LocksInv, TornInv
<1>14. DataInv'
  <2>1. \A b \in 1..Len(d) : d[b] = files[readers[r].file][b]
    BY <1>1 DEF LocksInv, DataInv, Reading, d
  <2>2. \A b \in 1..n : Append(d, block)[b] = files[readers[r].file][b]
    BY <1>2, <1>5, <2>1 DEF block
  <2>3. n <= NumBlocks
    BY <1>3, LocksAssumption DEF Blocks
  <2> SUFFICES ASSUME NEW q \in Readers, Reading(q)'
               PROVE  /\ Len(readers'[q].data) <= NumBlocks
                      /\ \A b \in 1..Len(readers'[q].data) :
                           readers'[q].data[b] = files[readers'[q].file][b]
    BY <1>4 DEF DataInv
  <2>4. CASE q = r
    BY <1>5, <1>6, <1>7, <2>2, <2>3, <2>4, SMTT(30)
  <2>5. CASE q # r
    BY <1>7, <2>5 DEF LocksInv, DataInv, Reading
  <2> QED
    BY <2>4, <2>5
<1> QED
  BY <1>8, <1>10, <1>11, <1>12, <1>13, <1>14 DEF LocksInv

LEMMA UnlockReadKeeps ==
  ASSUME LocksInv, NEW r \in Readers, lt_unlock_piece_read(r)
  PROVE  LocksInv'
<1> DEFINE i == g_piece_locks[readers[r].hash]
<1>1. /\ readers[r] # Idle /\ readers[r].pc \in {"reading", "unlock"}
      /\ i = readers[r].mutex /\ i \in 1..Len(mutexes)
  BY ReaderTypes DEF lt_unlock_piece_read, Reading
<1>2. /\ mutexes' = [m \in DOMAIN mutexes |->
                       IF m = i THEN [mutexes[m] EXCEPT !.shared = @ \ {r}] ELSE mutexes[m]]
      /\ readers' = [readers EXCEPT ![r] = Idle]
      /\ UNCHANGED <<g_piece_locks, m_storages, m_next_index, piece_path, files, writer, torn>>
  BY DEF lt_unlock_piece_read, find_piece_lock
<1> HIDE DEF i
<1>3. /\ readers'[r] = Idle
      /\ \A q \in Readers : q # r => readers'[q] = readers[q]
      /\ readers' \in [Readers -> {Idle} \cup Waiting \cup Guarded]
  BY <1>2, ReaderUpdate, Zenon
<1>4. mutexes \in Seq(Mutex)
  BY DEF LocksInv, LockTypes
<1>5. mutexes' = [mutexes EXCEPT ![i].shared = mutexes[i].shared \ {r}]
  BY <1>1, <1>2, <1>4, Zenon
<1>6. mutexes[i].shared \ {r} \in SUBSET Readers
  <2>1. mutexes[i] \in Mutex
    BY <1>1, <1>4
  <2> QED
    BY <2>1 DEF Mutex
<1>7. /\ mutexes' \in Seq(Mutex) /\ Len(mutexes') = Len(mutexes)
      /\ mutexes'[i].exclusive = mutexes[i].exclusive /\ mutexes'[i].shared = mutexes[i].shared \ {r}
      /\ \A m \in 1..Len(mutexes) : m # i => mutexes'[m] = mutexes[m]
  BY <1>1, <1>4, <1>5, <1>6, SharedUpdate, Zenon
<1>8. LockTypes'
  BY <1>2, <1>3, <1>7 DEF LocksInv, LockTypes, Indices
<1>9. RegistryInv'
  BY <1>2, <1>3 DEF LocksInv, RegistryInv
<1>10. HoldInv'
  <2>1. \A q \in Readers : readers[q].pc \in {"reading", "unlock"} =>
          readers[q].mutex \in 1..Len(mutexes) /\ q \in mutexes[readers[q].mutex].shared
    BY ReaderTypes DEF LocksInv, HoldInv
  <2>2. \A q \in Readers : readers'[q].pc \in {"reading", "unlock"} =>
          q \in mutexes'[readers'[q].mutex].shared
    BY <1>3, <1>7, <2>1 DEF Idle
  <2>3. writer.pc \in LockHeld => writer.mutex \in 1..Len(mutexes)
    BY WriterTypes DEF LockHeld
  <2>4. \A m \in 1..Len(mutexes) :
          /\ mutexes'[m].exclusive = mutexes[m].exclusive
          /\ mutexes[m].shared = {} => mutexes'[m].shared = {}
    BY <1>7
  <2>5. \A m \in 1..Len(mutexes) :
          mutexes'[m].exclusive => /\ writer.pc \in LockHeld /\ writer.mutex = m
                                   /\ mutexes'[m].shared = {}
    BY <2>4 DEF LocksInv, HoldInv
  <2>6. writer.pc \in LockHeld => mutexes'[writer.mutex].exclusive
    BY <2>3, <2>4 DEF LocksInv, HoldInv
  <2> QED
    BY <1>2, <1>7, <2>2, <2>5, <2>6, Zenon DEF HoldInv
<1>11. PathInv' /\ TornInv' /\ DataInv'
  BY <1>2, <1>3 DEF LocksInv, PathInv, TornInv, DataInv, Reading, Idle
<1> QED
  BY <1>8, <1>9, <1>10, <1>11 DEF LocksInv

\* So every step does.
LEMMA LocksInvStep == LocksInv /\ [LocksNext]_lockVars => LocksInv'
<1> SUFFICES ASSUME LocksInv, [LocksNext]_lockVars
             PROVE  LocksInv'
  OBVIOUS
<1>1. ASSUME NEW h \in Hashes, new_torrent(h)
      PROVE  LocksInv'
  <2>1. UNCHANGED <<g_piece_locks, mutexes, piece_path, files, writer, readers, torn>>
    BY <1>1 DEF new_torrent
  <2>2. \A i \in Indices' : m_storages'[i] \in Hashes
    BY <1>1 DEF new_torrent, LocksInv, LockTypes, Indices
  <2>3. LockTypes'
    BY <2>1, <2>2 DEF LocksInv, LockTypes
  <2>4. RegistryInv' /\ HoldInv'
    BY <2>1 DEF LocksInv, RegistryInv, HoldInv
  <2>5. PathInv'
    BY <2>1 DEF LocksInv, PathInv, Reading
  <2>6. TornInv' /\ DataInv'
    BY <2>1 DEF LocksInv, TornInv, DataInv, Reading
  <2> QED
    BY <2>3, <2>4, <2>5, <2>6 DEF LocksInv
<1>2. ASSUME NEW h \in Hashes, EvictFile(h)
      PROVE  LocksInv'
  <2>1. LockTypes'
    BY <1>2 DEF EvictFile, LocksInv, LockTypes, Indices
  <2>2. RegistryInv' /\ HoldInv'
    BY <1>2 DEF EvictFile, LocksInv, RegistryInv, HoldInv
  <2>3. TornInv' /\ DataInv'
    BY <1>2 DEF EvictFile, LocksInv, TornInv, DataInv, Reading
  <2>4. PathInv'
    BY <1>2 DEF EvictFile, LocksInv, LockTypes, PathInv, Reading
  <2> QED
    BY <2>1, <2>2, <2>3, <2>4 DEF LocksInv
<1>3. CASE UNCHANGED lockVars
  <2>1. LockTypes' /\ RegistryInv' /\ HoldInv'
    BY <1>3 DEF lockVars, LocksInv, LockTypes, RegistryInv, HoldInv, Indices
  <2>2. PathInv' /\ TornInv' /\ DataInv'
    BY <1>3 DEF lockVars, LocksInv, PathInv, TornInv, DataInv, Reading
  <2> QED
    BY <2>1, <2>2 DEF LocksInv
<1>4. CASE \E i \in 1..MaxStorages : remove_torrent(i) \/ \E b \in Blocks : async_write(i, b)
  BY <1>4, RemoveKeeps, WriteKeeps
<1>5. CASE LockExclusive \/ OpenFile \/ WriteHalf \/ WriteRest \/ UnlockExclusive
  BY <1>5, LockExclusiveKeeps, OpenKeeps, WriteHalfKeeps, WriteRestKeeps, UnlockExclusiveKeeps
<1>6. ASSUME NEW r \in Readers,
             \/ \E h \in Hashes : lt_lock_piece_read(r, h)
             \/ LockShared(r) \/ ReadBlock(r) \/ lt_unlock_piece_read(r)
      PROVE  LocksInv'
  BY <1>6, LockReadKeeps, LockSharedKeeps, ReadBlockKeeps, UnlockReadKeeps
<1> QED
  BY <1>1, <1>2, <1>3, <1>4, <1>5, <1>6 DEF LocksNext

\* Whatever PieceStore::read_piece has read under its guard is one state of the
\* piece file, with no half-written block but those of failed writes, while
\* storages of the torrent come and go and its files are evicted and made again.
THEOREM GuardedReads == LocksSpec => []GuardedReadIsOneState
  BY InitLocksInv, LocksInvStep, LocksInvSuffices, PTL DEF LocksSpec
=============================================================================
