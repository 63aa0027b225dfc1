---------------------------- MODULE PendingReplies ----------------------------
(***************************************************************************)
(* The FUSE front end of a read: the dispatcher thread parks the reply in  *)
(* the PendingTable and hands the download to the bounded WorkerPool; the  *)
(* workers, the deadline checker and an unlink take replies out again and  *)
(* answer them.  Whoever takes a reply out of the table holds it in its    *)
(* hand until it has answered, woken a blocked insert and decremented the  *)
(* pending-reads gauge: those happen after the table's mutex is released.  *)
(***************************************************************************)
EXTENDS Integers, Sequences, FiniteSets

CONSTANTS Reads,        \* FUSE read requests
          Torrents,     \* torrent ids
          RangeOf,      \* read -> its RangeKey
          TorrentOf,    \* read -> its torrent id
          Workers,      \* threads of the pool
          MAX_PENDING,  \* groups the table holds
          QueueDepth,   \* jobs the pool's channel holds
          MaxUnlinks    \* bound on the unlinks of a behaviour

ASSUME FrontEndAssumption ==
  /\ IsFiniteSet(Reads) /\ Workers # {}
  /\ TorrentOf \in [Reads -> Torrents]
  /\ MAX_PENDING \in Nat \ {0} /\ QueueDepth \in Nat \ {0}
  /\ MaxUnlinks \in Nat

VARIABLES
  overdue,     \* deferred, unanswered reads whose deadline has passed
  replies,     \* read -> its answer
  groups,      \* ticket -> [key, waiters]
  by_range,    \* RangeKey -> ticket
  next_id,     \* the next ticket
  gauge,       \* Metrics.pending_reads
  dispatcher,  \* the dispatcher thread: where it is, for which read or ticket
  unlinked,    \* torrents that were unlinked
  hand,        \* thread -> the replies it has taken out of the table
  queue,       \* the pool's channel: tickets
  worker,      \* worker -> what it is doing
  tx,          \* the channel's sender: "free", "held" (locked) or "dropped"
  stopping,    \* the pool's stopping flag
  lost         \* tickets in the table whose job panicked

table == <<groups, by_range, next_id>>
pool == <<queue, worker, tx, stopping>>
vars == <<overdue, replies, table, gauge, dispatcher, unlinked, hand, pool, lost>>

NoTicket == -1
NoReply == <<"none", "">>
Data(key) == <<"data", key>>
Errno(e) == <<"errno", e>>

\* to_errno of what the engine returns: ENODATA without peers, after a timeout or
\* with nothing to give; EIO for a piece not ready, an I/O or an internal error.
\* The EINVAL of a torrent that does not parse is counted as EIO.
EngineErrnos == {"ENODATA", "EIO"}
Errnos == EngineErrnos \cup {"ENOENT"}

EmptyHand == [reads |-> {}, answer |-> NoReply]
Resting == [at |-> "idle", read |-> {}, ticket |-> NoTicket]
At(where, rs, id) == [at |-> where, read |-> rs, ticket |-> id]

\* The threads that may hold replies, beside the workers.
Dispatcher == "dispatcher"
Checker == "deadline checker"
Threads == Workers \cup {Dispatcher, Checker}

ASSUME ThreadsAssumption == Workers \cap {Dispatcher, Checker} = {}

Tickets == 0 .. Cardinality(Reads)

Waiters == UNION {groups[id].waiters : id \in DOMAIN groups}

\* The deferred read the dispatcher is about to park.
Parking == IF dispatcher.at \in {"insert", "asleep"} THEN dispatcher.read ELSE {}

Init ==
  /\ overdue = {}
  /\ replies = [r \in Reads |-> NoReply]
  /\ groups = <<>> /\ by_range = <<>> /\ next_id = 0
  /\ gauge = 0
  /\ dispatcher = Resting
  /\ unlinked = {}
  /\ hand = [t \in Threads |-> EmptyHand]
  /\ queue = <<>> /\ worker = [w \in Workers |-> Resting]
  /\ tx = "free" /\ stopping = FALSE
  /\ lost = {}

-----------------------------------------------------------------------------
(* Taking replies out of the table, under its mutex.                        *)

Only(f, S) == [x \in DOMAIN f \cap S |-> f[x]]

\* A group without waiters is dropped together with its key in the index.
Drop(gs) ==
  LET live == {id \in DOMAIN gs : gs[id].waiters # {}} IN
  /\ groups' = [id \in live |-> gs[id]]
  /\ by_range' = Only(by_range, {gs[id].key : id \in live})
  /\ next_id' = next_id

\* remove_group: the whole group, if it is still there.
remove_group(t, id, answer) ==
  IF id \in DOMAIN groups
  THEN /\ hand' = [hand EXCEPT ![t] = [reads |-> groups[id].waiters, answer |-> answer]]
       /\ Drop([groups EXCEPT ![id].waiters = {}])
  ELSE UNCHANGED <<hand, table>>

\* The waiter-by-waiter removal that cancel_by_torrent_id and expire share.
take_waiters(t, rs, answer) ==
  /\ hand' = [hand EXCEPT ![t] = [reads |-> rs, answer |-> answer]]
  /\ Drop([id \in DOMAIN groups |-> [groups[id] EXCEPT !.waiters = @ \ rs]])

\* Answer every reply in the hand, notify_all, decrement the gauge.
FanOut(t) ==
  LET rs == hand[t].reads IN
  /\ rs # {}
  /\ replies' = [r \in Reads |-> IF r \in rs THEN hand[t].answer ELSE replies[r]]
  /\ gauge' = gauge - Cardinality(rs)
  /\ hand' = [hand EXCEPT ![t] = EmptyHand]
  /\ overdue' = overdue \ rs
  /\ dispatcher' = IF dispatcher.at = "asleep" THEN [dispatcher EXCEPT !.at = "insert"]
                                               ELSE dispatcher
  /\ UNCHANGED <<table, unlinked, pool, lost>>

-----------------------------------------------------------------------------
(* The dispatcher thread: one request at a time.                            *)

DispatcherIs(where) == dispatcher.at = where /\ hand[Dispatcher].reads = {}

Taken(r) == replies[r] # NoReply \/ r \in Waiters \/ r \in dispatcher.read
              \/ \E t \in Threads : r \in hand[t].reads

TakeRead(r) ==
  /\ DispatcherIs("idle")
  /\ ~Taken(r)
  /\ dispatcher' = At("read", {r}, NoTicket)
  /\ UNCHANGED <<overdue, replies, table, gauge, unlinked, hand, pool, lost>>

\* service.read served the bytes from the cache, or failed (as it does for an
\* unlinked torrent, whose error stands for all of them).
ReadReady(r) ==
  /\ DispatcherIs("read") /\ r \in dispatcher.read
  /\ replies' = [replies EXCEPT ![r] =
       IF TorrentOf[r] \in unlinked THEN Errno("ENOENT") ELSE Data(RangeOf[r])]
  /\ dispatcher' = Resting
  /\ UNCHANGED <<overdue, table, gauge, unlinked, hand, pool, lost>>

\* Mutant: the gauge is raised for the leader of a group only.
ReadPendingUncounted(r) ==
  /\ DispatcherIs("read") /\ r \in dispatcher.read
  /\ TorrentOf[r] \notin unlinked
  /\ gauge' = IF RangeOf[r] \in DOMAIN by_range THEN gauge ELSE gauge + 1
  /\ dispatcher' = At("insert", {r}, NoTicket)
  /\ UNCHANGED <<overdue, replies, table, unlinked, hand, pool, lost>>

\* service.read returned Pending: deadline first, then the gauge, then insert.
ReadPending(r) ==
  /\ DispatcherIs("read") /\ r \in dispatcher.read
  /\ TorrentOf[r] \notin unlinked
  /\ gauge' = gauge + 1
  /\ dispatcher' = At("insert", {r}, NoTicket)
  /\ UNCHANGED <<overdue, replies, table, unlinked, hand, pool, lost>>

\* Mutant: a range key without the offset, so that any group is joined.
InsertIgnoresOffset(r) ==
  /\ DispatcherIs("insert") /\ r \in dispatcher.read
  /\ \/ \E id \in DOMAIN groups :
          /\ groups' = [groups EXCEPT ![id].waiters = @ \cup {r}]
          /\ dispatcher' = Resting /\ UNCHANGED <<by_range, next_id>>
     \/ /\ groups = <<>>
        /\ groups' = [id \in {next_id} |-> [key |-> RangeOf[r], waiters |-> {r}]]
        /\ by_range' = [k \in {RangeOf[r]} |-> next_id]
        /\ next_id' = next_id + 1
        /\ dispatcher' = At("submit", {}, next_id)
  /\ UNCHANGED <<overdue, replies, gauge, unlinked, hand, pool, lost>>

\* PendingTable::insert: join the group of the range, lead a new one, or wait.
Insert(r) ==
  LET key == RangeOf[r]
      full == Cardinality(DOMAIN groups) >= MAX_PENDING
  IN
  /\ DispatcherIs("insert") /\ r \in dispatcher.read
  /\ \/ /\ key \in DOMAIN by_range
        /\ groups' = [groups EXCEPT ![by_range[key]].waiters = @ \cup {r}]
        /\ dispatcher' = Resting
        /\ UNCHANGED <<by_range, next_id>>
     \/ /\ key \notin DOMAIN by_range /\ ~full
        /\ groups' = [id \in DOMAIN groups \cup {next_id} |->
             IF id = next_id THEN [key |-> key, waiters |-> {r}] ELSE groups[id]]
        /\ by_range' = [k \in DOMAIN by_range \cup {key} |->
             IF k = key THEN next_id ELSE by_range[k]]
        /\ next_id' = next_id + 1
        /\ dispatcher' = At("submit", {}, next_id)
     \/ /\ key \notin DOMAIN by_range /\ full
        /\ dispatcher' = At("asleep", {r}, NoTicket)
        /\ UNCHANGED table
  /\ UNCHANGED <<overdue, replies, gauge, unlinked, hand, pool, lost>>

\* Mutant: the read of a rejected job is forgotten.
SubmitDropped ==
  /\ \/ DispatcherIs("submit") /\ stopping
     \/ DispatcherIs("lock") /\ tx = "dropped"
  /\ dispatcher' = Resting
  /\ UNCHANGED <<overdue, replies, table, gauge, unlinked, hand, pool, lost>>

\* WorkerPool::submit: the stopping flag, then the sender's mutex, then the send,
\* which waits for room with the mutex held.
SubmitRejected ==
  /\ \/ DispatcherIs("submit") /\ stopping
     \/ DispatcherIs("lock") /\ tx = "dropped"
  /\ remove_group(Dispatcher, dispatcher.ticket, Errno("EIO"))
  /\ dispatcher' = Resting
  /\ UNCHANGED <<overdue, replies, gauge, unlinked, pool, lost>>

SubmitChecked ==
  /\ DispatcherIs("submit") /\ ~stopping
  /\ dispatcher' = [dispatcher EXCEPT !.at = "lock"]
  /\ UNCHANGED <<overdue, replies, table, gauge, unlinked, hand, pool, lost>>

SubmitLocked ==
  /\ DispatcherIs("lock") /\ tx = "free"
  /\ tx' = "held"
  /\ dispatcher' = [dispatcher EXCEPT !.at = "send"]
  /\ UNCHANGED <<overdue, replies, table, gauge, unlinked, hand, queue, worker, stopping, lost>>

\* Mutant: the sender's mutex stays locked after the send.
SendKeepsLock ==
  /\ DispatcherIs("send") /\ Len(queue) < QueueDepth
  /\ queue' = Append(queue, dispatcher.ticket)
  /\ dispatcher' = Resting
  /\ UNCHANGED <<overdue, replies, table, gauge, unlinked, hand, worker, tx, stopping, lost>>

Send ==
  /\ DispatcherIs("send") /\ Len(queue) < QueueDepth
  /\ queue' = Append(queue, dispatcher.ticket)
  /\ tx' = "free"
  /\ dispatcher' = Resting
  /\ UNCHANGED <<overdue, replies, table, gauge, unlinked, hand, worker, stopping, lost>>

\* The unlink handler: the service removes the torrent, then its waiters are
\* cancelled, whatever group they are in.
Unlink(t) ==
  /\ DispatcherIs("idle")
  /\ t \notin unlinked /\ Cardinality(unlinked) < MaxUnlinks
  /\ unlinked' = unlinked \cup {t}
  /\ dispatcher' = At("cancel", {}, NoTicket)
  /\ UNCHANGED <<overdue, replies, table, gauge, hand, pool, lost>>

\* Mutant: the groups of the torrent's waiters are cancelled whole.
CancelGroups ==
  LET rs == UNION {groups[id].waiters : id \in {i \in DOMAIN groups :
              \E r \in groups[i].waiters : TorrentOf[r] \in unlinked}} IN
  /\ DispatcherIs("cancel")
  /\ take_waiters(Dispatcher, rs, Errno("EIO"))
  /\ dispatcher' = Resting
  /\ UNCHANGED <<overdue, replies, gauge, unlinked, pool, lost>>

cancel_by_torrent_id ==
  /\ DispatcherIs("cancel")
  /\ take_waiters(Dispatcher, {r \in Waiters : TorrentOf[r] \in unlinked}, Errno("EIO"))
  /\ dispatcher' = Resting
  /\ UNCHANGED <<overdue, replies, gauge, unlinked, pool, lost>>

-----------------------------------------------------------------------------
(* Time, the deadline checker, the workers and the pool's shutdown.         *)

\* The deadline was computed before insert, so it may pass before the read is
\* parked.  The order in which deadlines pass is left open.
DeadlinePasses(r) ==
  /\ r \in (Waiters \cup Parking) \ overdue
  /\ overdue' = overdue \cup {r}
  /\ UNCHANGED <<replies, table, gauge, dispatcher, unlinked, hand, pool, lost>>

\* Mutant: expiry drops the group and leaves its key in the index.
ExpireKeepsKey ==
  LET rs == Waiters \cap overdue
      left == [id \in DOMAIN groups |-> [groups[id] EXCEPT !.waiters = @ \ rs]]
  IN
  /\ hand[Checker].reads = {}
  /\ rs # {}
  /\ hand' = [hand EXCEPT ![Checker] = [reads |-> rs, answer |-> Errno("ENODATA")]]
  /\ groups' = Only(left, {id \in DOMAIN groups : left[id].waiters # {}})
  /\ UNCHANGED <<overdue, replies, by_range, next_id, gauge, dispatcher, unlinked, pool, lost>>

expire ==
  /\ hand[Checker].reads = {}
  /\ Waiters \cap overdue # {}
  /\ take_waiters(Checker, Waiters \cap overdue, Errno("ENODATA"))
  /\ UNCHANGED <<overdue, replies, gauge, dispatcher, unlinked, pool, lost>>

WorkerIs(w, what) == worker[w].at = what /\ hand[w].reads = {}

Dequeue(w) ==
  /\ WorkerIs(w, "idle") /\ queue # <<>>
  /\ worker' = [worker EXCEPT ![w] = At("run", {}, Head(queue))]
  /\ queue' = Tail(queue)
  /\ UNCHANGED <<overdue, replies, table, gauge, dispatcher, unlinked, hand, tx, stopping, lost>>

\* The engine answered for the range the job captured, with bytes or an error; an
\* Ok without bytes is the error resolve_or_enodata makes of it.  The ticket may
\* be gone, its range parked under a newer one.  A job always has its download
\* service: read_data returns Pending only where there is one.
JobReturns(w, key) ==
  LET id == worker[w].ticket IN
  /\ WorkerIs(w, "run")
  /\ id \in DOMAIN groups => groups[id].key = key
  /\ \E answer \in {Data(key)} \cup {Errno(e) : e \in EngineErrnos} :
       remove_group(w, id, answer)
  /\ worker' = [worker EXCEPT ![w] = Resting]
  /\ UNCHANGED <<overdue, replies, gauge, dispatcher, unlinked, queue, tx, stopping, lost>>

\* worker_loop survives a panicking job; nobody resolves its ticket.
JobPanics(w) ==
  /\ WorkerIs(w, "run")
  /\ lost' = (lost \cup {worker[w].ticket}) \cap DOMAIN groups
  /\ worker' = [worker EXCEPT ![w] = Resting]
  /\ UNCHANGED <<overdue, replies, table, gauge, dispatcher, unlinked, hand, queue, tx, stopping>>

WorkerExits(w) ==
  /\ WorkerIs(w, "idle") /\ queue = <<>> /\ tx = "dropped"
  /\ worker' = [worker EXCEPT ![w] = At("exited", {}, NoTicket)]
  /\ UNCHANGED <<overdue, replies, table, gauge, dispatcher, unlinked, hand, queue, tx, stopping, lost>>

\* stop_accepting: the flag, then the sender once its mutex is free.
StopAccepting ==
  /\ ~stopping
  /\ stopping' = TRUE
  /\ UNCHANGED <<overdue, replies, table, gauge, dispatcher, unlinked, hand, queue, worker, tx, lost>>

DropSender ==
  /\ stopping /\ tx = "free"
  /\ tx' = "dropped"
  /\ UNCHANGED <<overdue, replies, table, gauge, dispatcher, unlinked, hand, queue, worker, stopping, lost>>

-----------------------------------------------------------------------------
Dispatch ==
  \/ \E r \in Reads : ReadReady(r) \/ ReadPending(r) \/ Insert(r)
  \/ SubmitRejected \/ SubmitChecked \/ SubmitLocked \/ Send
  \/ cancel_by_torrent_id

Next ==
  \/ \E r \in Reads : TakeRead(r)
  \/ \E t \in Torrents : Unlink(t)
  \/ Dispatch
  \/ \E t \in Threads : FanOut(t)
  \/ \E r \in Reads : DeadlinePasses(r)
  \/ expire
  \/ \E w \in Workers : Dequeue(w) \/ JobPanics(w) \/ WorkerExits(w)
  \/ \E w \in Workers, r \in Reads : JobReturns(w, RangeOf[r])
  \/ StopAccepting
  \/ DropSender

\* Every thread that can take a step takes one, and time passes.  Nothing says
\* that the kernel asks, that a torrent is unlinked, that the pool is stopped, or
\* that the engine ever returns from a job.
Fairness ==
  /\ WF_vars(Dispatch)
  /\ \A t \in Threads : WF_vars(FanOut(t))
  /\ \A r \in Reads : WF_vars(DeadlinePasses(r))
  /\ WF_vars(expire)
  /\ \A w \in Workers : WF_vars(Dequeue(w)) /\ WF_vars(WorkerExits(w))
  /\ WF_vars(DropSender)

Spec == Init /\ [][Next]_vars /\ Fairness

-----------------------------------------------------------------------------
(* Properties.                                                              *)

\* Types; the table never exceeds MAX_PENDING groups, the channel its depth.
TypeOK ==
  /\ overdue \subseteq Reads /\ unlinked \subseteq Torrents
  /\ replies \in [Reads -> {NoReply} \cup {Data(RangeOf[r]) : r \in Reads}
                                     \cup {Errno(e) : e \in Errnos}]
  /\ DOMAIN groups \subseteq Tickets /\ Cardinality(DOMAIN groups) <= MAX_PENDING
  /\ next_id \in Tickets
  /\ gauge \in 0 .. Cardinality(Reads)
  /\ Len(queue) <= QueueDepth
  /\ tx \in {"free", "held", "dropped"} /\ stopping \in BOOLEAN

\* Every deferred reply is in exactly one place (the table, one thread's hand, or
\* answered), and the coalescing index and the groups mirror each other: the two
\* `expect`s of PendingTable ("range index must reference a live group", "id
\* collected from live groups") never fire, whatever expires, cancels and
\* resolves in between.
ReplyHeldOnce ==
  /\ \A id \in DOMAIN groups :
       /\ groups[id].waiters # {}
       /\ groups[id].key \in DOMAIN by_range /\ by_range[groups[id].key] = id
  /\ \A k \in DOMAIN by_range : by_range[k] \in DOMAIN groups
  /\ \A id1, id2 \in DOMAIN groups :
       id1 # id2 => groups[id1].waiters \cap groups[id2].waiters = {}
  /\ \A t1, t2 \in Threads : t1 # t2 => hand[t1].reads \cap hand[t2].reads = {}
  /\ \A t \in Threads : hand[t].reads \cap (Waiters \cup dispatcher.read) = {}
  /\ \A r \in Waiters \cup dispatcher.read \cup UNION {hand[t].reads : t \in Threads} :
       replies[r] = NoReply
  /\ Waiters \cap dispatcher.read = {}

\* The pending-reads gauge is the number of deferred replies not yet answered, so
\* it is never negative and is zero at rest: no order of insert, join, resolve,
\* expiry and cancellation makes it drift (it is raised before insert and lowered
\* by whoever took the waiters out).
GaugeCountsPending ==
  gauge = Cardinality(Waiters \cup Parking \cup UNION {hand[t].reads : t \in Threads})

\* A parked reply has somebody working for it: its group's job is about to be
\* queued, queued or running, unless that job panicked.  A joiner is never left
\* with a group whose leader failed to submit.
GroupsAreServed ==
  \A id \in DOMAIN groups :
    \/ dispatcher.ticket = id
    \/ \E i \in 1 .. Len(queue) : queue[i] = id
    \/ \E w \in Workers : worker[w].ticket = id
    \/ id \in lost

\* An unlink answers the parked reads of its own torrent and no others: once the
\* handler is through none of them is left in the table, whichever group it had
\* joined, and until the pool stops every reply the dispatcher takes out of the
\* table is of an unlinked torrent.  Two torrents with the same content share a
\* range key, and so a group.
UnlinkTakesItsOwn ==
  /\ dispatcher.at # "cancel" => \A r \in Waiters : TorrentOf[r] \notin unlinked
  /\ ~stopping => \A r \in hand[Dispatcher].reads : TorrentOf[r] \in unlinked

\* The front end implements ReadReplies: every read taken is answered exactly once,
\* with its own range's bytes or an error, although jobs panic, tickets outlive
\* their groups and the engine may never return from a read.
Abstract == INSTANCE ReadReplies WITH taken <- {r \in Reads : Taken(r)}
ImplementsReadReplies == Abstract!Spec

\* If the engine returns from every job, the dispatcher comes back from every
\* request (a full table and a full queue both drain) and a stopped pool's workers
\* all exit: submit holding the sender's mutex does not deadlock stop_accepting.
JobsReturn == \A w \in Workers : []<>(worker[w].at # "run")
BackpressureEnds ==
  JobsReturn =>
    /\ []<>(dispatcher.at = "idle")
    /\ (stopping ~> \A w \in Workers : worker[w].at = "exited")
=============================================================================
