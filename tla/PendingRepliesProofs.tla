------------------------- MODULE PendingRepliesProofs -------------------------
(***************************************************************************)
(* The front end keeps its promises on every number of reads, workers,     *)
(* torrents and slots: a deferred reply is in one place, the gauge counts  *)
(* the deferred replies, every parked reply has a job, an unlink takes *)
(* its own torrent's waiters, and each read is answered once and with what *)
(* it asked for.                                                           *)
(***************************************************************************)
EXTENDS PendingReplies, FiniteSetTheorems, TLAPS

Keys == {RangeOf[r] : r \in Reads}

Group == [key : Keys, waiters : SUBSET Reads]

\* The index and the groups mirror each other, a group's waiters asked for its
\* range, and tickets are handed out in order.
TableInv ==
  /\ next_id \in Nat
  /\ \A id \in DOMAIN groups :
       /\ id \in Nat /\ id < next_id
       /\ groups[id] \in Group /\ groups[id].waiters # {}
       /\ groups[id].key \in DOMAIN by_range /\ by_range[groups[id].key] = id
       /\ \A r \in groups[id].waiters : RangeOf[r] = groups[id].key
  /\ \A k \in DOMAIN by_range : by_range[k] \in DOMAIN groups /\ groups[by_range[k]].key = k

\* The dispatcher has a read in hand from taking it to parking it, and a ticket
\* from leading a group to queueing its job.
DispatcherInv ==
  /\ dispatcher \in [at : {"idle", "read", "insert", "asleep", "submit", "lock", "send", "cancel"},
                     read : SUBSET Reads, ticket : Int]
  /\ dispatcher.at \notin {"read", "insert", "asleep"} => dispatcher.read = {}
  /\ \A r, q \in dispatcher.read : r = q
  /\ dispatcher.at \notin {"submit", "lock", "send"} => dispatcher.ticket = NoTicket

AnswersFor(r) == {Data(RangeOf[r])} \cup {Errno(e) : e \in Errnos}

\* An unanswered reply is in one place, and what a thread will answer the replies
\* in its hand with is an answer to each of them.
HeldInv ==
  /\ DOMAIN hand = Threads
  /\ \A t \in Threads : \A r \in hand[t].reads :
       /\ r \in Reads /\ hand[t].answer \in AnswersFor(r) /\ replies[r] = NoReply
       /\ r \notin Waiters /\ r \notin dispatcher.read
       /\ \A u \in Threads : r \in hand[u].reads => u = t
  /\ \A r \in Waiters : replies[r] = NoReply /\ r \notin dispatcher.read
  /\ \A r \in dispatcher.read : replies[r] = NoReply

AnyReply == {NoReply} \cup {Data(RangeOf[r]) : r \in Reads} \cup {Errno(e) : e \in Errnos}

\* The channel, the workers (only a running one has a ticket) and the rest.
PoolInv ==
  /\ queue \in Seq(Int) /\ Len(queue) <= QueueDepth
  /\ DOMAIN worker = Workers
  /\ \A w \in Workers : worker[w].ticket \in Int /\ (worker[w].at # "run" => worker[w].ticket = NoTicket)
  /\ tx \in {"free", "held", "dropped"} /\ stopping \in BOOLEAN
  /\ tx = "dropped" => stopping
  /\ overdue \subseteq Reads /\ unlinked \subseteq Torrents
  /\ replies \in [Reads -> AnyReply]

Held == UNION {hand[t].reads : t \in Threads}

Pending == Waiters \cup Parking \cup Held

\* The reads that reached the table; each handed out at most one ticket.
Passed == {r \in Reads : replies[r] # NoReply} \cup Waiters \cup Held

CountInv ==
  /\ GaugeCountsPending
  /\ Cardinality(DOMAIN groups) <= MAX_PENDING
  /\ next_id <= Cardinality(Passed)

\* The read being parked is of a torrent that is still there.
UnlinkInv ==
  /\ UnlinkTakesItsOwn
  /\ \A r \in Parking : TorrentOf[r] \notin unlinked

FrontEndInv ==
  /\ TableInv /\ DispatcherInv /\ HeldInv /\ PoolInv
  /\ GroupsAreServed /\ UnlinkInv /\ CountInv

-----------------------------------------------------------------------------
(* Consequences of the invariant.                                           *)

\* Where the replies are, element by element.
LEMMA Members ==
  /\ \A r : r \in Waiters <=> \E id \in DOMAIN groups : r \in groups[id].waiters
  /\ \A r : r \in Held <=> \E t \in Threads : r \in hand[t].reads
  BY DEF Waiters, Held

LEMMA MembersNext ==
  /\ \A r : r \in Waiters' <=> \E id \in DOMAIN groups' : r \in groups'[id].waiters
  /\ \A r : r \in Held' <=> \E t \in Threads : r \in hand'[t].reads
  BY DEF Waiters, Held

LEMMA GaugeIs ==
  /\ GaugeCountsPending <=> gauge = Cardinality(Pending)
  /\ GaugeCountsPending' <=> gauge' = Cardinality(Pending')
  BY DEF GaugeCountsPending, Pending, Held

\* What is counted is finite.
LEMMA Counted ==
  ASSUME FrontEndInv
  PROVE  /\ Waiters \subseteq Reads /\ Held \subseteq Reads /\ Parking \subseteq Reads
         /\ IsFiniteSet(Pending) /\ IsFiniteSet(Passed) /\ IsFiniteSet(DOMAIN groups)
         /\ Cardinality(Pending) \in Nat /\ Cardinality(Passed) \in Nat
         /\ Cardinality(DOMAIN groups) \in Nat
         /\ Cardinality(Pending) <= Cardinality(Reads) /\ Cardinality(Passed) <= Cardinality(Reads)
<1>1. Waiters \subseteq Reads
  BY Members DEF FrontEndInv, TableInv, Group
<1>2. Held \subseteq Reads
  BY Members DEF FrontEndInv, HeldInv
<1>3. Parking \subseteq Reads
  BY DEF FrontEndInv, DispatcherInv, Parking
<1>4. Pending \subseteq Reads /\ Passed \subseteq Reads
  BY <1>1, <1>2, <1>3 DEF Pending, Passed
<1>5. IsFiniteSet(DOMAIN groups)
  <2>1. DOMAIN groups \in SUBSET Nat /\ next_id \in Nat /\ \A id \in DOMAIN groups : id <= next_id
    BY DEF FrontEndInv, TableInv
  <2> QED
    BY <2>1, FS_BoundedSetOfNaturals, SMTT(30)
<1> QED
  BY <1>1, <1>2, <1>3, <1>4, <1>5, FrontEndAssumption, FS_Subset, FS_CardinalityType

\* A reply is in one group only: the groups of two tickets have different keys.
LEMMA OneGroup ==
  ASSUME TableInv, NEW i \in DOMAIN groups, NEW j \in DOMAIN groups,
         NEW r \in groups[i].waiters, r \in groups[j].waiters
  PROVE  i = j
  BY DEF TableInv

LEMMA InvImpliesReplyHeldOnce == FrontEndInv => ReplyHeldOnce
<1> SUFFICES ASSUME FrontEndInv
             PROVE  ReplyHeldOnce
  OBVIOUS
<1>1. /\ \A id \in DOMAIN groups :
           /\ groups[id].waiters # {}
           /\ groups[id].key \in DOMAIN by_range /\ by_range[groups[id].key] = id
      /\ \A k \in DOMAIN by_range : by_range[k] \in DOMAIN groups
  BY DEF FrontEndInv, TableInv
<1>2. \A i, j \in DOMAIN groups : i # j => groups[i].waiters \cap groups[j].waiters = {}
  BY OneGroup DEF FrontEndInv
<1>3. \A t, u \in Threads : t # u => hand[t].reads \cap hand[u].reads = {}
  BY DEF FrontEndInv, HeldInv
<1>4. \A t \in Threads : hand[t].reads \cap (Waiters \cup dispatcher.read) = {}
  BY DEF FrontEndInv, HeldInv
<1>5. \A r \in Waiters \cup dispatcher.read \cup UNION {hand[t].reads : t \in Threads} :
        replies[r] = NoReply
  BY DEF FrontEndInv, HeldInv
<1>6. Waiters \cap dispatcher.read = {}
  BY DEF FrontEndInv, HeldInv
<1> QED
  BY <1>1, <1>2, <1>3, <1>4, <1>5, <1>6 DEF ReplyHeldOnce

LEMMA InvImpliesTypes == FrontEndInv => TypeOK
<1> SUFFICES ASSUME FrontEndInv
             PROVE  TypeOK
  OBVIOUS
<1>1. /\ overdue \subseteq Reads /\ unlinked \subseteq Torrents /\ Len(queue) <= QueueDepth
      /\ tx \in {"free", "held", "dropped"} /\ stopping \in BOOLEAN
      /\ replies \in [Reads -> {NoReply} \cup {Data(RangeOf[r]) : r \in Reads}
                                         \cup {Errno(e) : e \in Errnos}]
  BY DEF FrontEndInv, PoolInv, AnyReply
<1>2. Cardinality(Reads) \in Nat /\ IsFiniteSet(Reads)
  BY FrontEndAssumption, FS_CardinalityType
<1>3. next_id \in Tickets
  BY <1>2, Counted DEF FrontEndInv, TableInv, CountInv, Tickets
<1>4. DOMAIN groups \subseteq Tickets /\ Cardinality(DOMAIN groups) <= MAX_PENDING
  BY <1>2, <1>3 DEF FrontEndInv, TableInv, CountInv, Tickets
<1>5. gauge \in 0 .. Cardinality(Reads)
  BY <1>2, Counted, GaugeIs DEF FrontEndInv, CountInv
<1> QED
  BY <1>1, <1>3, <1>4, <1>5 DEF TypeOK

LEMMA InitFrontEndInv == Init => FrontEndInv
<1> SUFFICES ASSUME Init
             PROVE  FrontEndInv
  OBVIOUS
<1>1. DOMAIN groups = {} /\ DOMAIN by_range = {} /\ next_id = 0
  BY DEF Init
<1>2. Waiters = {}
  BY <1>1, Members
<1>3. dispatcher = Resting /\ dispatcher.at = "idle" /\ dispatcher.read = {} /\ dispatcher.ticket = NoTicket
  BY DEF Init, Resting
<1>4. DOMAIN hand = Threads /\ \A t \in Threads : hand[t].reads = {} /\ hand[t].answer = NoReply
  BY DEF Init, EmptyHand
<1>5. Held = {} /\ Parking = {} /\ Pending = {}
  BY <1>2, <1>3, <1>4, Members DEF Parking, Pending
<1>6. TableInv
  BY <1>1 DEF TableInv
<1>7. DispatcherInv
  BY <1>3 DEF DispatcherInv, Resting, NoTicket
<1>8. HeldInv
  BY <1>2, <1>3, <1>4 DEF HeldInv
<1>9. PoolInv
  <2>1. queue = <<>> /\ replies = [r \in Reads |-> NoReply] /\ worker = [w \in Workers |-> Resting]
    BY DEF Init
  <2>2. \A w \in Workers : worker[w].ticket = NoTicket /\ NoTicket \in Int
    BY <2>1 DEF Resting, NoTicket
  <2>3. replies \in [Reads -> AnyReply]
    BY <2>1 DEF AnyReply
  <2>4. queue \in Seq(Int) /\ Len(queue) <= QueueDepth
    BY <2>1, FrontEndAssumption
  <2>5. DOMAIN worker = Workers /\ tx = "free" /\ stopping = FALSE /\ overdue = {} /\ unlinked = {}
    BY DEF Init
  <2> QED
    BY <2>2, <2>3, <2>4, <2>5, Zenon DEF PoolInv
<1>10. GroupsAreServed
  BY <1>1 DEF GroupsAreServed
<1>11. UnlinkInv
  BY <1>2, <1>4, <1>5 DEF UnlinkInv, UnlinkTakesItsOwn, Threads
<1>12. CountInv
  <2>1. Passed = {}
    BY <1>2, <1>5 DEF Passed, Init
  <2>2. gauge = 0 /\ Cardinality({}) = 0
    BY FS_EmptySet DEF Init
  <2> QED
    BY <1>1, <1>5, <2>1, <2>2, GaugeIs, FrontEndAssumption DEF CountInv
<1> QED
  BY <1>6, <1>7, <1>8, <1>9, <1>10, <1>11, <1>12 DEF FrontEndInv

-----------------------------------------------------------------------------
(* What the steps have in common.                                           *)

\* The counts are kept when no ticket is handed out and no reply gets lost.
LEMMA CountKeeps ==
  ASSUME FrontEndInv, next_id' = next_id, DOMAIN groups' \subseteq DOMAIN groups,
         Passed \subseteq Passed', Passed' \subseteq Reads, gauge' = Cardinality(Pending')
  PROVE  CountInv'
<1>1. IsFiniteSet(Passed') /\ Cardinality(Passed') \in Nat /\ Cardinality(Passed) <= Cardinality(Passed')
  BY FrontEndAssumption, FS_Subset, FS_CardinalityType
<1>2. Cardinality(DOMAIN groups') <= Cardinality(DOMAIN groups) /\ Cardinality(DOMAIN groups') \in Nat
  BY Counted, FS_Subset, FS_CardinalityType
<1>3. next_id \in Nat /\ next_id <= Cardinality(Passed) /\ Cardinality(DOMAIN groups) <= MAX_PENDING
  BY DEF FrontEndInv, TableInv, CountInv
<1>4. next_id' <= Cardinality(Passed') /\ Cardinality(DOMAIN groups') <= MAX_PENDING
  BY <1>1, <1>2, <1>3, Counted, FrontEndAssumption
<1> QED
  BY <1>4, GaugeIs DEF CountInv

\* Steps that neither take a read nor answer one.
Stutters ==
  Passed' \cup dispatcher'.read = Passed \cup dispatcher.read /\ replies' = replies

\* Steps that leave the replies where they are.
LEMMA QuietKeeps ==
  ASSUME FrontEndInv, UNCHANGED <<replies, table, gauge, hand>>,
         dispatcher'.read = dispatcher.read, Parking' = Parking
  PROVE  TableInv' /\ HeldInv' /\ CountInv' /\ Stutters
<1>1. Waiters' = Waiters /\ Held' = Held /\ Pending' = Pending /\ Passed' = Passed
  BY DEF table, Waiters, Held, Pending, Passed
<1>2. TableInv'
  BY DEF FrontEndInv, TableInv, table
<1>3. HeldInv'
  BY <1>1 DEF FrontEndInv, HeldInv
<1>4. CountInv'
  BY <1>1, GaugeIs DEF FrontEndInv, CountInv, table
<1> QED
  BY <1>1, <1>2, <1>3, <1>4 DEF Stutters

\* Nothing is parked, nothing unlinked and nothing taken by the dispatcher.
LEMMA UnlinkStands ==
  ASSUME UnlinkInv, UNCHANGED unlinked, stopping => stopping',
         Waiters' \subseteq Waiters, Parking' \subseteq Parking,
         hand'[Dispatcher].reads \subseteq hand[Dispatcher].reads,
         dispatcher.at = "cancel" => dispatcher'.at = "cancel"
  PROVE  UnlinkInv'
  BY DEF UnlinkInv, UnlinkTakesItsOwn

LEMMA UnlinkQuiet ==
  ASSUME UnlinkInv, UNCHANGED <<table, hand, unlinked>>, stopping => stopping',
         Parking' \subseteq Parking,
         dispatcher.at = "cancel" => dispatcher'.at = "cancel"
  PROVE  UnlinkInv'
<1>1. Waiters' = Waiters
  BY DEF Waiters, table
<1> QED
  BY <1>1, UnlinkStands

\* gs is what the groups are without the replies rs.
Shrunk(gs, rs) ==
  /\ DOMAIN gs = DOMAIN groups
  /\ \A id \in DOMAIN groups : /\ gs[id] \in Group /\ gs[id].key = groups[id].key
                               /\ gs[id].waiters = groups[id].waiters \ rs

\* Waiters leave the table: their groups shrink, or go together with their keys.
LEMMA DropTable ==
  ASSUME TableInv, NEW rs, NEW gs, Drop(gs), Shrunk(gs, rs)
  PROVE  /\ TableInv' /\ next_id' = next_id /\ Waiters' = Waiters \ rs
         /\ DOMAIN groups' \subseteq DOMAIN groups
         /\ \A id \in DOMAIN groups' : groups'[id].waiters = groups[id].waiters \ rs
<1> USE DEF Shrunk
<1> DEFINE live == {id \in DOMAIN gs : gs[id].waiters # {}}
<1>1. /\ DOMAIN groups' = live /\ \A id \in live : groups'[id] = gs[id]
      /\ next_id' = next_id
  BY DEF Drop
<1>2. /\ DOMAIN by_range' = DOMAIN by_range \cap {gs[id].key : id \in live}
      /\ \A k \in DOMAIN by_range' : by_range'[k] = by_range[k]
  BY DEF Drop, Only
<1>3. live \subseteq DOMAIN groups /\ \A id \in live : gs[id].waiters # {}
  OBVIOUS
<1>4. \A r : r \in Waiters' <=> r \in Waiters /\ r \notin rs
  BY <1>1, Members, MembersNext
<1> HIDE DEF live
<1>5. \A id \in live : gs[id].key \in DOMAIN by_range' /\ by_range'[gs[id].key] = id
  BY <1>2, <1>3 DEF TableInv
<1>6. \A k \in DOMAIN by_range' : by_range'[k] \in live /\ gs[by_range'[k]].key = k
  BY <1>2, <1>3, <1>5
<1>7. TableInv'
  BY <1>1, <1>3, <1>5, <1>6 DEF TableInv
<1> QED
  BY <1>1, <1>3, <1>4, <1>7

\* t has the replies rs in its hand next, to answer with a.
Grabs(t, rs, a) == hand' = [hand EXCEPT ![t] = [reads |-> rs, answer |-> a]]

\* A thread with nothing in its hand takes replies out of the table.
LEMMA TakeKeeps ==
  ASSUME FrontEndInv, NEW t \in Threads, hand[t].reads = {}, NEW rs, NEW a,
         \A r \in rs : r \in Waiters /\ a \in AnswersFor(r),
         Grabs(t, rs, a), NEW gs, Drop(gs), Shrunk(gs, rs),
         UNCHANGED <<replies, gauge>>, dispatcher'.read = dispatcher.read, Parking' = Parking
  PROVE  /\ TableInv' /\ HeldInv' /\ CountInv' /\ Stutters
         /\ DOMAIN groups' \subseteq DOMAIN groups /\ Waiters' = Waiters \ rs
         /\ \A id \in DOMAIN groups' : groups[id].waiters \ rs # {}
         /\ hand'[t] = [reads |-> rs, answer |-> a]
         /\ \A u \in Threads : u # t => hand'[u] = hand[u]
<1>1. /\ TableInv' /\ next_id' = next_id /\ Waiters' = Waiters \ rs
      /\ DOMAIN groups' \subseteq DOMAIN groups
      /\ \A id \in DOMAIN groups' : groups'[id].waiters = groups[id].waiters \ rs
  BY DropTable DEF FrontEndInv
<1>2. \A id \in DOMAIN groups' : groups[id].waiters \ rs # {}
  BY <1>1 DEF TableInv
<1>3. /\ DOMAIN hand = Threads /\ DOMAIN hand' = Threads
      /\ hand'[t] = [reads |-> rs, answer |-> a]
      /\ hand'[t].reads = rs /\ hand'[t].answer = a
      /\ \A u \in Threads : u # t => hand'[u] = hand[u]
  BY DEF FrontEndInv, HeldInv, Grabs
<1>4. \A r : r \in Held' <=> r \in Held \/ r \in rs
  BY <1>3, Members, MembersNext
<1>5. HeldInv'
  <2>1. \A r \in rs : /\ r \in Reads /\ replies[r] = NoReply /\ r \notin dispatcher.read
                      /\ \A u \in Threads : r \notin hand[u].reads
    BY Counted DEF FrontEndInv, HeldInv
  <2>2. ASSUME NEW u \in Threads, NEW r \in hand'[u].reads
        PROVE  /\ r \in Reads /\ hand'[u].answer \in AnswersFor(r) /\ replies'[r] = NoReply
               /\ r \notin Waiters' /\ r \notin dispatcher'.read
               /\ \A v \in Threads : r \in hand'[v].reads => v = u
    <3>1. CASE u = t
      BY <1>1, <1>3, <2>1, <3>1
    <3>2. CASE u # t
      BY <1>1, <1>3, <2>1, <3>2 DEF FrontEndInv, HeldInv
    <3> QED
      BY <3>1, <3>2
  <2> QED
    BY <1>1, <1>3, <2>2 DEF FrontEndInv, HeldInv
<1>6. Pending' = Pending /\ Passed' = Passed
  BY <1>1, <1>4 DEF Pending, Passed
<1>7. CountInv'
  BY <1>1, <1>6, CountKeeps, GaugeIs, Counted DEF FrontEndInv, CountInv, Passed
<1> QED
  BY <1>1, <1>2, <1>3, <1>5, <1>6, <1>7 DEF Stutters

\* remove_group, whether its group is still there or not.
LEMMA RemoveGroupKeeps ==
  ASSUME FrontEndInv, NEW t \in Threads, hand[t].reads = {}, NEW id, NEW a, remove_group(t, id, a),
         id \in DOMAIN groups => \A r \in groups[id].waiters : a \in AnswersFor(r),
         UNCHANGED <<replies, gauge>>, dispatcher'.read = dispatcher.read, Parking' = Parking
  PROVE  /\ TableInv' /\ HeldInv' /\ CountInv' /\ Stutters
         /\ DOMAIN groups' \subseteq DOMAIN groups /\ id \notin DOMAIN groups'
         /\ Waiters' \subseteq Waiters
         /\ \A u \in Threads : u # t => hand'[u] = hand[u]
<1>1. CASE id \notin DOMAIN groups
  <2>1. UNCHANGED <<hand, table>>
    BY <1>1 DEF remove_group
  <2> QED
    BY <1>1, <2>1, QuietKeeps DEF table, Waiters
<1>2. CASE id \in DOMAIN groups
  <2> DEFINE rs == groups[id].waiters
             gs == [groups EXCEPT ![id].waiters = {}]
  <2>1. Grabs(t, rs, a) /\ Drop(gs)
    BY <1>2 DEF remove_group, Grabs
  <2>2. \A r \in rs : r \in Waiters
    BY <1>2, Members
  <2>3. DOMAIN gs = DOMAIN groups
    OBVIOUS
  <2>4. ASSUME NEW j \in DOMAIN groups
        PROVE  /\ gs[j] \in Group /\ gs[j].key = groups[j].key
               /\ gs[j].waiters = groups[j].waiters \ rs
    <3>1. groups[j] \in Group
      BY DEF FrontEndInv, TableInv
    <3>2. CASE j = id
      BY <3>1, <3>2 DEF Group
    <3>3. CASE j # id
      <4>1. gs[j] = groups[j]
        BY <3>3
      <4>2. groups[j].waiters \ rs = groups[j].waiters
        BY <1>2, <3>3, OneGroup DEF FrontEndInv
      <4> QED
        BY <3>1, <4>1, <4>2
    <3> QED
      BY <3>2, <3>3
  <2>6. Shrunk(gs, rs)
    BY <2>3, <2>4, Zenon DEF Shrunk
  <2> HIDE DEF gs
  <2>5. /\ TableInv' /\ HeldInv' /\ CountInv' /\ Stutters
        /\ DOMAIN groups' \subseteq DOMAIN groups /\ Waiters' = Waiters \ rs
        /\ \A j \in DOMAIN groups' : groups[j].waiters \ rs # {}
        /\ hand'[t] = [reads |-> rs, answer |-> a]
        /\ \A u \in Threads : u # t => hand'[u] = hand[u]
    BY <1>2, <2>6, <2>1, <2>2, TakeKeeps
  <2> QED
    BY <2>5
<1> QED
  BY <1>1, <1>2

\* The removal waiter by waiter.
LEMMA TakeWaitersKeeps ==
  ASSUME FrontEndInv, NEW t \in Threads, hand[t].reads = {}, NEW out, NEW a,
         take_waiters(t, out, a), \A r \in out : r \in Waiters /\ a \in AnswersFor(r),
         UNCHANGED <<replies, gauge>>, dispatcher'.read = dispatcher.read, Parking' = Parking
  PROVE  /\ TableInv' /\ HeldInv' /\ CountInv' /\ Stutters
         /\ DOMAIN groups' \subseteq DOMAIN groups /\ Waiters' = Waiters \ out
         /\ hand'[t].reads = out
         /\ \A u \in Threads : u # t => hand'[u] = hand[u]
<1> DEFINE gs == [id \in DOMAIN groups |-> [groups[id] EXCEPT !.waiters = @ \ out]]
<1>1. Grabs(t, out, a) /\ Drop(gs)
  BY DEF take_waiters, Grabs
<1>2. DOMAIN gs = DOMAIN groups
  OBVIOUS
<1>3. ASSUME NEW j \in DOMAIN groups
      PROVE  /\ gs[j] \in Group /\ gs[j].key = groups[j].key
             /\ gs[j].waiters = groups[j].waiters \ out
  <2>1. groups[j] \in Group
    BY DEF FrontEndInv, TableInv
  <2>2. gs[j] = [groups[j] EXCEPT !.waiters = groups[j].waiters \ out]
    OBVIOUS
  <2> QED
    BY <2>1, <2>2 DEF Group
<1> HIDE DEF gs
<1>4. /\ TableInv' /\ HeldInv' /\ CountInv' /\ Stutters
      /\ DOMAIN groups' \subseteq DOMAIN groups /\ Waiters' = Waiters \ out
      /\ hand'[t] = [reads |-> out, answer |-> a]
      /\ \A u \in Threads : u # t => hand'[u] = hand[u]
  <2>1. Shrunk(gs, out)
    BY <1>2, <1>3 DEF Shrunk
  <2> QED
    BY <1>1, <2>1, TakeKeeps
<1> QED
  BY <1>4

-----------------------------------------------------------------------------
(* The dispatcher.                                                          *)

LEMMA TakeReadKeeps ==
  ASSUME FrontEndInv, NEW r \in Reads, TakeRead(r)
  PROVE  FrontEndInv'
<1>1. /\ dispatcher.at = "idle" /\ dispatcher.ticket = NoTicket /\ dispatcher.read = {}
      /\ UNCHANGED <<overdue, replies, table, gauge, unlinked, hand, pool, lost>>
  BY DEF TakeRead, DispatcherIs, FrontEndInv, DispatcherInv
<1>2. dispatcher' = [at |-> "read", read |-> {r}, ticket |-> NoTicket]
  BY DEF TakeRead, At
<1>3. /\ dispatcher'.at = "read" /\ dispatcher'.read = {r} /\ dispatcher'.ticket = NoTicket
  BY <1>2
<1>4. replies[r] = NoReply /\ r \notin Waiters /\ \A t \in Threads : r \notin hand[t].reads
  BY DEF TakeRead, Taken
<1>5. Waiters' = Waiters /\ Held' = Held /\ Pending' = Pending /\ Passed' = Passed
  BY <1>1, <1>3 DEF table, Waiters, Held, Pending, Passed, Parking
<1>6. TableInv'
  BY <1>1 DEF FrontEndInv, TableInv, table
<1>7. DispatcherInv'
  BY <1>2 DEF DispatcherInv, NoTicket
<1>8. HeldInv'
  BY <1>1, <1>3, <1>4, <1>5 DEF FrontEndInv, HeldInv
<1>9. PoolInv'
  BY <1>1 DEF FrontEndInv, PoolInv, pool
<1>10. GroupsAreServed'
  BY <1>1, <1>3 DEF FrontEndInv, GroupsAreServed, table, pool
<1>11. UnlinkInv'
  <2>1. Parking' = {}
    BY <1>3 DEF Parking
  <2> QED
    BY <1>1, <2>1, UnlinkQuiet DEF FrontEndInv, pool
<1>12. CountInv'
  BY <1>1, <1>5, GaugeIs DEF FrontEndInv, CountInv, table
<1> QED
  BY <1>6, <1>7, <1>8, <1>9, <1>10, <1>11, <1>12 DEF FrontEndInv

LEMMA ReadReadyKeeps ==
  ASSUME FrontEndInv, NEW r \in Reads, ReadReady(r)
  PROVE  FrontEndInv'
<1>1. /\ dispatcher.at = "read" /\ dispatcher.ticket = NoTicket /\ r \in dispatcher.read
      /\ UNCHANGED <<overdue, table, gauge, unlinked, hand, pool, lost>>
      /\ dispatcher' = Resting
  BY DEF ReadReady, DispatcherIs, FrontEndInv, DispatcherInv
<1>2. dispatcher'.at = "idle" /\ dispatcher'.read = {} /\ dispatcher'.ticket = NoTicket
  BY <1>1 DEF Resting
<1>3. PICK a \in {Errno("ENOENT"), Data(RangeOf[r])} : replies' = [replies EXCEPT ![r] = a]
  BY Zenon DEF ReadReady
<1>4. a \in AnyReply /\ a # NoReply
  <2>1. Data(RangeOf[r]) \in {Data(RangeOf[q]) : q \in Reads}
    OBVIOUS
  <2>2. Errno("ENOENT") \in {Errno(e) : e \in Errnos}
    BY DEF Errnos
  <2>3. Data(RangeOf[r]) # NoReply /\ Errno("ENOENT") # NoReply
    BY DEF Data, Errno, NoReply
  <2> QED
    BY <2>1, <2>2, <2>3 DEF AnyReply
<1>5. /\ replies \in [Reads -> AnyReply] /\ replies' \in [Reads -> AnyReply]
      /\ replies'[r] = a /\ \A q \in Reads : q # r => replies'[q] = replies[q]
  BY <1>3, <1>4 DEF FrontEndInv, PoolInv
<1>6. r \notin Waiters /\ \A t \in Threads : r \notin hand[t].reads
  BY <1>1 DEF FrontEndInv, HeldInv
<1>7. Waiters' = Waiters /\ Held' = Held /\ Pending' = Pending
  BY <1>1, <1>2 DEF table, Waiters, Held, Pending, Parking
<1>8. Passed \subseteq Passed' /\ Passed' \subseteq Reads
  BY <1>4, <1>5, <1>7, Counted DEF Passed
<1>9. TableInv'
  BY <1>1 DEF FrontEndInv, TableInv, table
<1>10. DispatcherInv'
  BY <1>1 DEF DispatcherInv, Resting, NoTicket
<1>11. HeldInv'
  BY <1>1, <1>2, <1>5, <1>6, <1>7, Counted DEF FrontEndInv, HeldInv
<1>12. PoolInv'
  BY <1>1, <1>5 DEF FrontEndInv, PoolInv, pool
<1>13. GroupsAreServed'
  BY <1>1, <1>2 DEF FrontEndInv, GroupsAreServed, table, pool
<1>14. UnlinkInv'
  <2>1. Parking' = {}
    BY <1>2 DEF Parking
  <2> QED
    BY <1>1, <2>1, UnlinkQuiet DEF FrontEndInv, pool
<1>15. CountInv'
  BY <1>1, <1>7, <1>8, GaugeIs, CountKeeps DEF FrontEndInv, CountInv, table
<1> QED
  BY <1>9, <1>10, <1>11, <1>12, <1>13, <1>14, <1>15 DEF FrontEndInv

LEMMA ReadPendingKeeps ==
  ASSUME FrontEndInv, NEW r \in Reads, ReadPending(r)
  PROVE  FrontEndInv' /\ Stutters
<1>1. /\ dispatcher.at = "read" /\ dispatcher.ticket = NoTicket /\ dispatcher.read = {r}
      /\ UNCHANGED <<overdue, replies, table, unlinked, hand, pool, lost>> /\ gauge' = gauge + 1
  BY DEF ReadPending, DispatcherIs, FrontEndInv, DispatcherInv
<1>2. dispatcher' = [at |-> "insert", read |-> {r}, ticket |-> NoTicket]
  BY DEF ReadPending, At
<1>3. /\ dispatcher'.at = "insert" /\ dispatcher'.read = {r} /\ dispatcher'.ticket = NoTicket
  BY <1>2
<1>4. r \notin Waiters /\ r \notin Held /\ Parking = {} /\ Parking' = {r}
  BY <1>1, <1>3, Members DEF FrontEndInv, HeldInv, Parking
<1>5. Waiters' = Waiters /\ Held' = Held /\ Passed' = Passed
  BY <1>1 DEF table, Waiters, Held, Passed
<1>6. Pending' = Pending \cup {r} /\ r \notin Pending
  BY <1>4, <1>5 DEF Pending
<1>7. gauge' = Cardinality(Pending')
  BY <1>1, <1>6, GaugeIs, Counted, FS_AddElement, ZenonT(60) DEF FrontEndInv, CountInv
<1>8. TableInv'
  BY <1>1 DEF FrontEndInv, TableInv, table
<1>9. DispatcherInv'
  BY <1>2 DEF DispatcherInv, NoTicket
<1>10. HeldInv'
  BY <1>1, <1>3, <1>5 DEF FrontEndInv, HeldInv
<1>11. PoolInv'
  BY <1>1 DEF FrontEndInv, PoolInv, pool
<1>12. GroupsAreServed'
  BY <1>1, <1>3 DEF FrontEndInv, GroupsAreServed, table, pool
<1>13. UnlinkInv'
  <2>1. TorrentOf[r] \notin unlinked
    BY DEF ReadPending
  <2> QED
    BY <1>1, <1>3, <1>4, <1>5, <2>1 DEF FrontEndInv, UnlinkInv, UnlinkTakesItsOwn, pool
<1>14. CountInv'
  BY <1>1, <1>5, <1>7, GaugeIs DEF FrontEndInv, CountInv, table
<1>15. Stutters
  BY <1>1, <1>3, <1>5 DEF Stutters
<1> QED
  BY <1>8, <1>9, <1>10, <1>11, <1>12, <1>13, <1>14, <1>15 DEF FrontEndInv

LEMMA InsertKeeps ==
  ASSUME FrontEndInv, NEW r \in Reads, Insert(r)
  PROVE  FrontEndInv' /\ Stutters
<1> DEFINE key == RangeOf[r]
<1>1. /\ dispatcher.at = "insert" /\ dispatcher.ticket = NoTicket /\ dispatcher.read = {r}
      /\ UNCHANGED <<overdue, replies, gauge, unlinked, hand, pool, lost>>
  BY DEF Insert, DispatcherIs, FrontEndInv, DispatcherInv
<1>2. /\ replies[r] = NoReply /\ r \notin Waiters /\ r \notin Held
      /\ \A t \in Threads : r \notin hand[t].reads
  BY <1>1, Members DEF FrontEndInv, HeldInv
<1>3. /\ PoolInv' /\ UNCHANGED <<unlinked, hand, stopping>>
      /\ TorrentOf[r] \notin unlinked /\ \A q \in Waiters : TorrentOf[q] \notin unlinked
  BY <1>1 DEF FrontEndInv, PoolInv, UnlinkInv, UnlinkTakesItsOwn, Parking, pool
<1>4. Held' = Held /\ Parking = {r}
  BY <1>1 DEF Held, Parking
<1>5. key \in Keys
  BY DEF Keys
<1>6. CASE /\ key \in DOMAIN by_range
           /\ groups' = [groups EXCEPT ![by_range[key]].waiters = @ \cup {r}]
           /\ dispatcher' = Resting
           /\ UNCHANGED <<by_range, next_id>>
  <2> DEFINE id == by_range[key]
  <2>1. id \in DOMAIN groups /\ groups[id].key = key /\ groups[id] \in Group
    BY <1>6 DEF FrontEndInv, TableInv
  <2>2. /\ DOMAIN groups' = DOMAIN groups
        /\ groups'[id] = [groups[id] EXCEPT !.waiters = groups[id].waiters \cup {r}]
        /\ \A j \in DOMAIN groups : j # id => groups'[j] = groups[j]
    BY <1>6, <2>1
  <2> HIDE DEF id
  <2>3. /\ groups'[id] \in Group /\ groups'[id].key = key
        /\ groups'[id].waiters = groups[id].waiters \cup {r}
    BY <2>1, <2>2 DEF Group
  <2>4. dispatcher'.at = "idle" /\ dispatcher'.read = {} /\ dispatcher'.ticket = NoTicket
    BY <1>6 DEF Resting
  <2>5. \A q : q \in Waiters' <=> q \in Waiters \/ q = r
    BY <2>1, <2>2, <2>3, Members, MembersNext, ZenonT(60)
  <2>6. Pending' = Pending /\ Passed' = Passed \cup {r}
    BY <1>1, <1>4, <2>4, <2>5 DEF Pending, Passed, Parking
  <2>7. TableInv'
    <3>1. \A j \in DOMAIN groups : groups'[j] \in Group /\ groups'[j].key = groups[j].key
      BY <2>1, <2>2, <2>3, Zenon DEF FrontEndInv, TableInv
    <3>2. \A q \in groups[id].waiters \cup {r} : RangeOf[q] = key
      BY <2>1 DEF FrontEndInv, TableInv
    <3>3. \A j \in DOMAIN groups : /\ groups'[j].waiters # {}
                                   /\ \A q \in groups'[j].waiters : RangeOf[q] = groups[j].key
      BY <2>1, <2>2, <2>3, <3>2, ZenonT(60) DEF FrontEndInv, TableInv
    <3> HIDE DEF key
    <3>4. by_range' = by_range /\ next_id' = next_id
      BY <1>6
    <3> QED
      BY <2>2, <3>1, <3>3, <3>4 DEF FrontEndInv, TableInv
  <2>8. DispatcherInv'
    BY <1>6 DEF DispatcherInv, Resting, NoTicket
  <2>9. HeldInv'
    BY <1>1, <1>2, <2>4, <2>5 DEF FrontEndInv, HeldInv
  <2>10. GroupsAreServed'
    BY <1>1, <2>2, <2>4 DEF FrontEndInv, GroupsAreServed, pool
  <2>11. CountInv'
    BY <1>1, <1>6, <2>2, <2>6, GaugeIs, Counted, CountKeeps DEF FrontEndInv, CountInv, Passed
  <2>12. Stutters
    BY <1>1, <2>4, <2>6 DEF Stutters
  <2>13. UnlinkInv'
    BY <1>3, <2>4, <2>5 DEF FrontEndInv, UnlinkInv, UnlinkTakesItsOwn, Parking
  <2> QED
    BY <1>3, <2>7, <2>8, <2>9, <2>10, <2>11, <2>12, <2>13 DEF FrontEndInv
<1>7. CASE /\ key \notin DOMAIN by_range /\ ~(Cardinality(DOMAIN groups) >= MAX_PENDING)
           /\ groups' = [id \in DOMAIN groups \cup {next_id} |->
                IF id = next_id THEN [key |-> key, waiters |-> {r}] ELSE groups[id]]
           /\ by_range' = [k \in DOMAIN by_range \cup {key} |->
                IF k = key THEN next_id ELSE by_range[k]]
           /\ next_id' = next_id + 1
           /\ dispatcher' = At("submit", {}, next_id)
  <2>1. /\ next_id \in Nat /\ next_id \notin DOMAIN groups
        /\ \A id \in DOMAIN groups : id \in Nat /\ id < next_id /\ id < next_id + 1
    BY DEF FrontEndInv, TableInv
  <2> DEFINE new == [key |-> key, waiters |-> {r}]
  <2>2. new \in Group /\ new.key = key /\ new.waiters = {r}
    BY <1>5 DEF Group
  <2>3. /\ DOMAIN groups' = DOMAIN groups \cup {next_id} /\ groups'[next_id] = new
        /\ \A id \in DOMAIN groups : groups'[id] = groups[id]
    BY <1>7, <2>1
  <2>4. /\ DOMAIN by_range' = DOMAIN by_range \cup {key} /\ by_range'[key] = next_id
        /\ \A k \in DOMAIN by_range : by_range'[k] = by_range[k]
    BY <1>7
  <2> HIDE DEF new, key
  <2>5. /\ dispatcher' = [at |-> "submit", read |-> {}, ticket |-> next_id]
        /\ dispatcher'.at = "submit" /\ dispatcher'.read = {} /\ dispatcher'.ticket = next_id
    BY <1>7 DEF At
  <2>6. \A q : q \in Waiters' <=> q \in Waiters \/ q = r
    BY <2>1, <2>2, <2>3, Members, MembersNext
  <2>7. Pending' = Pending /\ Passed' = Passed \cup {r} /\ r \notin Passed
    BY <1>1, <1>2, <1>4, <2>5, <2>6 DEF Pending, Passed, Parking
  <2>8. TableInv'
    <3>1. \A id \in DOMAIN groups' :
            /\ id \in Nat /\ id < next_id'
            /\ groups'[id] \in Group /\ groups'[id].waiters # {}
            /\ \A q \in groups'[id].waiters : RangeOf[q] = groups'[id].key
      <4>1. \A id \in DOMAIN groups' : id \in Nat /\ id < next_id'
        BY <1>7, <2>1, <2>3
      <4>2. \A q \in new.waiters : RangeOf[q] = new.key
        BY <2>2 DEF key
      <4> QED
        BY <2>2, <2>3, <4>1, <4>2 DEF FrontEndInv, TableInv
    <3>2. \A id \in DOMAIN groups' :
            groups'[id].key \in DOMAIN by_range' /\ by_range'[groups'[id].key] = id
      BY <2>2, <2>3, <2>4 DEF FrontEndInv, TableInv
    <3>3. \A k \in DOMAIN by_range' : by_range'[k] \in DOMAIN groups' /\ groups'[by_range'[k]].key = k
      BY <2>2, <2>3, <2>4 DEF FrontEndInv, TableInv
    <3>4. next_id' \in Nat
      BY <1>7, <2>1
    <3> QED
      BY <3>1, <3>2, <3>3, <3>4 DEF TableInv
  <2>9. DispatcherInv'
    BY <2>1, <2>5 DEF DispatcherInv
  <2>10. HeldInv'
    BY <1>1, <1>2, <2>5, <2>6 DEF FrontEndInv, HeldInv
  <2>11. GroupsAreServed'
    <3>1. \A id \in DOMAIN groups : id # NoTicket
      BY <2>1 DEF NoTicket
    <3> QED
      BY <1>1, <2>3, <2>5, <3>1 DEF FrontEndInv, GroupsAreServed, pool
  <2>12. CountInv'
    <3>1. Cardinality(Passed') = Cardinality(Passed) + 1
      BY <2>7, Counted, FS_AddElement, ZenonT(60)
    <3>2. Cardinality(DOMAIN groups') = Cardinality(DOMAIN groups) + 1
      BY <2>1, <2>3, Counted, FS_AddElement
    <3>3. next_id' <= Cardinality(Passed')
      BY <1>7, <2>1, <3>1, Counted DEF FrontEndInv, CountInv
    <3>4. Cardinality(DOMAIN groups') <= MAX_PENDING
      <4>1. ~(Cardinality(DOMAIN groups) >= MAX_PENDING)
        BY <1>7, Zenon
      <4>2. Cardinality(DOMAIN groups) \in Nat /\ MAX_PENDING \in Nat
        BY Counted, FrontEndAssumption
      <4> QED
        BY <3>2, <4>1, <4>2
    <3> QED
      BY <1>1, <2>7, <3>3, <3>4, GaugeIs DEF FrontEndInv, CountInv
  <2>13. Stutters
    BY <1>1, <2>5, <2>7 DEF Stutters
  <2>14. UnlinkInv'
    BY <1>3, <2>5, <2>6 DEF FrontEndInv, UnlinkInv, UnlinkTakesItsOwn, Parking
  <2> QED
    BY <1>3, <2>8, <2>9, <2>10, <2>11, <2>12, <2>13, <2>14 DEF FrontEndInv
<1>8. CASE dispatcher' = At("asleep", {r}, NoTicket) /\ UNCHANGED table
  <2>1. /\ dispatcher' = [at |-> "asleep", read |-> {r}, ticket |-> NoTicket]
        /\ dispatcher'.at = "asleep" /\ dispatcher'.read = {r} /\ dispatcher'.ticket = NoTicket
    BY <1>8 DEF At
  <2>2. Parking' = Parking
    BY <1>1, <2>1 DEF Parking
  <2>3. TableInv' /\ HeldInv' /\ CountInv' /\ Stutters
    BY <1>1, <1>8, <2>1, <2>2, QuietKeeps
  <2>4. DispatcherInv'
    BY <2>1 DEF DispatcherInv, NoTicket
  <2>5. GroupsAreServed'
    BY <1>1, <1>8, <2>1 DEF FrontEndInv, GroupsAreServed, table, pool
  <2>6. UnlinkInv'
    BY <1>1, <1>3, <1>8, <2>2, UnlinkQuiet DEF FrontEndInv
  <2> QED
    BY <1>3, <2>3, <2>4, <2>5, <2>6 DEF FrontEndInv
<1> QED
  BY <1>6, <1>7, <1>8 DEF Insert

\* The dispatcher between leading a group and queueing its job.
LEMMA SubmitStepKeeps ==
  ASSUME FrontEndInv, SubmitChecked \/ SubmitLocked
  PROVE  FrontEndInv' /\ Stutters
<1>1. /\ dispatcher.at \in {"submit", "lock"}
      /\ \E p \in {"lock", "send"} : dispatcher' = [dispatcher EXCEPT !.at = p]
      /\ UNCHANGED <<overdue, replies, table, gauge, unlinked, hand, queue, worker, stopping, lost>>
      /\ tx' = tx \/ tx' = "held"
  BY DEF SubmitChecked, SubmitLocked, DispatcherIs, pool
<1>2. /\ DispatcherInv' /\ dispatcher'.at \in {"lock", "send"}
      /\ dispatcher'.read = dispatcher.read /\ dispatcher'.ticket = dispatcher.ticket
  BY <1>1 DEF FrontEndInv, DispatcherInv
<1>3. Parking' = Parking
  BY <1>1, <1>2 DEF Parking
<1>4. TableInv' /\ HeldInv' /\ CountInv' /\ Stutters
  BY <1>1, <1>2, <1>3, QuietKeeps
<1>5. PoolInv'
  BY <1>1 DEF FrontEndInv, PoolInv
<1>6. GroupsAreServed'
  BY <1>1, <1>2 DEF FrontEndInv, GroupsAreServed, table
<1>7. UnlinkInv'
  BY <1>1, <1>3, UnlinkQuiet DEF FrontEndInv
<1> QED
  BY <1>2, <1>4, <1>5, <1>6, <1>7 DEF FrontEndInv

LEMMA SendKeeps ==
  ASSUME FrontEndInv, Send
  PROVE  FrontEndInv' /\ Stutters
<1>1. /\ dispatcher.at = "send" /\ dispatcher.read = {} /\ dispatcher.ticket \in Int
      /\ Len(queue) < QueueDepth /\ queue' = Append(queue, dispatcher.ticket) /\ tx' = "free"
      /\ dispatcher' = Resting
      /\ UNCHANGED <<overdue, replies, table, gauge, unlinked, hand, worker, stopping, lost>>
  BY DEF Send, DispatcherIs, FrontEndInv, DispatcherInv
<1>2. /\ dispatcher'.at = "idle" /\ dispatcher'.read = {} /\ dispatcher'.ticket = NoTicket
      /\ DispatcherInv'
  BY <1>1 DEF Resting, DispatcherInv, NoTicket
<1>3. Parking' = Parking
  BY <1>1, <1>2 DEF Parking
<1>4. TableInv' /\ HeldInv' /\ CountInv' /\ Stutters
  BY <1>1, <1>2, <1>3, QuietKeeps
<1>5. queue \in Seq(Int) /\ Len(queue) \in Nat
  BY DEF FrontEndInv, PoolInv
<1>6. /\ queue' \in Seq(Int) /\ Len(queue') = Len(queue) + 1
      /\ queue'[Len(queue) + 1] = dispatcher.ticket
      /\ \A i \in 1..Len(queue) : queue'[i] = queue[i]
  BY <1>1, <1>5
<1>7. PoolInv'
  <2>1. Len(queue') <= QueueDepth
    BY <1>1, <1>5, <1>6, FrontEndAssumption
  <2> QED
    BY <1>1, <1>6, <2>1 DEF FrontEndInv, PoolInv
<1>8. GroupsAreServed'
  <2> SUFFICES ASSUME NEW id \in DOMAIN groups
               PROVE  \/ \E i \in 1..Len(queue') : queue'[i] = id
                      \/ \E w \in Workers : worker[w].ticket = id
                      \/ id \in lost
    BY <1>1 DEF GroupsAreServed, table
  <2>1. CASE dispatcher.ticket = id
    BY <1>5, <1>6, <2>1
  <2>2. CASE \E i \in 1..Len(queue) : queue[i] = id
    BY <1>5, <1>6, <2>2
  <2> QED
    BY <2>1, <2>2 DEF FrontEndInv, GroupsAreServed
<1>9. UnlinkInv'
  BY <1>1, <1>2, <1>3, UnlinkQuiet DEF FrontEndInv
<1> QED
  BY <1>2, <1>4, <1>7, <1>8, <1>9 DEF FrontEndInv

LEMMA SubmitRejectedKeeps ==
  ASSUME FrontEndInv, SubmitRejected
  PROVE  FrontEndInv' /\ Stutters
<1> DEFINE id == dispatcher.ticket
<1>1. /\ dispatcher.at \in {"submit", "lock"} /\ hand[Dispatcher].reads = {} /\ stopping
      /\ dispatcher.read = {}
  BY DEF SubmitRejected, DispatcherIs, FrontEndInv, DispatcherInv, PoolInv
<1>2. /\ remove_group(Dispatcher, id, Errno("EIO")) /\ dispatcher' = Resting
      /\ UNCHANGED <<overdue, replies, gauge, unlinked, pool, lost>>
  BY DEF SubmitRejected
<1>3. /\ dispatcher'.at = "idle" /\ dispatcher'.read = {} /\ dispatcher'.ticket = NoTicket
      /\ DispatcherInv'
  BY <1>2 DEF Resting, DispatcherInv, NoTicket
<1>4. Parking' = Parking
  BY <1>1, <1>3 DEF Parking
<1>5. Dispatcher \in Threads /\ Checker \in Threads /\ Checker # Dispatcher
  BY DEF Threads, Dispatcher, Checker
<1>6. \A r : Errno("EIO") \in AnswersFor(r)
  BY DEF AnswersFor, Errnos, EngineErrnos
<1>7. /\ TableInv' /\ HeldInv' /\ CountInv' /\ Stutters
      /\ DOMAIN groups' \subseteq DOMAIN groups /\ id \notin DOMAIN groups'
      /\ Waiters' \subseteq Waiters
      /\ \A u \in Threads : u # Dispatcher => hand'[u] = hand[u]
  BY <1>1, <1>2, <1>3, <1>4, <1>5, <1>6, RemoveGroupKeeps
<1>8. PoolInv'
  BY <1>2 DEF FrontEndInv, PoolInv, pool
<1>9. GroupsAreServed'
  BY <1>2, <1>7, ZenonT(60) DEF FrontEndInv, GroupsAreServed, pool
<1>10. UnlinkInv'
  BY <1>1, <1>2, <1>4, <1>7 DEF FrontEndInv, UnlinkInv, UnlinkTakesItsOwn, pool
<1> QED
  BY <1>3, <1>7, <1>8, <1>9, <1>10 DEF FrontEndInv

LEMMA UnlinkKeeps ==
  ASSUME FrontEndInv, NEW t \in Torrents, Unlink(t)
  PROVE  FrontEndInv' /\ Stutters
<1>1. /\ dispatcher.at = "idle" /\ dispatcher.read = {} /\ dispatcher.ticket = NoTicket
      /\ unlinked' = unlinked \cup {t}
      /\ UNCHANGED <<overdue, replies, table, gauge, hand, pool, lost>>
  BY DEF Unlink, DispatcherIs, FrontEndInv, DispatcherInv
<1>2. /\ dispatcher'.at = "cancel" /\ dispatcher'.read = {} /\ dispatcher'.ticket = NoTicket
      /\ DispatcherInv'
  BY DEF Unlink, At, DispatcherInv, NoTicket
<1>3. Parking' = Parking
  BY <1>1, <1>2 DEF Parking
<1>4. TableInv' /\ HeldInv' /\ CountInv' /\ Stutters
  BY <1>1, <1>2, <1>3, QuietKeeps
<1>5. PoolInv'
  BY <1>1 DEF FrontEndInv, PoolInv, pool
<1>6. GroupsAreServed'
  BY <1>1, <1>2 DEF FrontEndInv, GroupsAreServed, table, pool
<1>7. UnlinkInv'
  <2>1. Parking' = {} /\ UNCHANGED <<stopping, hand>>
    BY <1>1, <1>2 DEF Parking, pool
  <2> QED
    BY <1>1, <1>2, <2>1 DEF FrontEndInv, UnlinkInv, UnlinkTakesItsOwn
<1> QED
  BY <1>2, <1>4, <1>5, <1>6, <1>7 DEF FrontEndInv

LEMMA CancelKeeps ==
  ASSUME FrontEndInv, cancel_by_torrent_id
  PROVE  FrontEndInv' /\ Stutters
<1> DEFINE out == {r \in Waiters : TorrentOf[r] \in unlinked}
<1>1. /\ dispatcher.at = "cancel" /\ dispatcher.read = {} /\ hand[Dispatcher].reads = {}
      /\ dispatcher.ticket = NoTicket
      /\ take_waiters(Dispatcher, out, Errno("EIO")) /\ dispatcher' = Resting
      /\ UNCHANGED <<overdue, replies, gauge, unlinked, pool, lost>>
  BY ZenonT(60) DEF cancel_by_torrent_id, DispatcherIs, FrontEndInv, DispatcherInv
<1>2. /\ dispatcher'.at = "idle" /\ dispatcher'.read = {} /\ dispatcher'.ticket = NoTicket
      /\ DispatcherInv'
  BY <1>1 DEF Resting, DispatcherInv, NoTicket
<1>3. Parking' = Parking
  BY <1>1, <1>2 DEF Parking
<1>4. Dispatcher \in Threads /\ Checker \in Threads /\ Checker # Dispatcher
  BY DEF Threads, Dispatcher, Checker
<1>5. \A r : Errno("EIO") \in AnswersFor(r)
  BY DEF AnswersFor, Errnos, EngineErrnos
<1>6. \A r \in out : r \in Waiters /\ TorrentOf[r] \in unlinked
  OBVIOUS
<1> HIDE DEF out
<1>7. /\ TableInv' /\ HeldInv' /\ CountInv' /\ Stutters
      /\ DOMAIN groups' \subseteq DOMAIN groups /\ Waiters' = Waiters \ out
      /\ hand'[Dispatcher].reads = out
      /\ \A u \in Threads : u # Dispatcher => hand'[u] = hand[u]
  <2>1. /\ hand[Dispatcher].reads = {} /\ take_waiters(Dispatcher, out, Errno("EIO"))
        /\ UNCHANGED <<replies, gauge>> /\ dispatcher'.read = dispatcher.read
    BY <1>1, <1>2
  <2>2. \A r \in out : r \in Waiters /\ Errno("EIO") \in AnswersFor(r)
    BY <1>5, <1>6, Zenon
  <2>3. Dispatcher \in Threads
    BY <1>4
  <2> QED
    BY <1>3, <2>1, <2>2, <2>3, TakeWaitersKeeps
<1>8. PoolInv'
  BY <1>1, ZenonT(60) DEF FrontEndInv, PoolInv, pool
<1>9. GroupsAreServed'
  BY <1>1, <1>2, <1>7 DEF FrontEndInv, GroupsAreServed, pool
<1>10. UnlinkInv'
  <2>1. Parking' = {}
    BY <1>2 DEF Parking
  <2>2. \A r \in Waiters' : TorrentOf[r] \notin unlinked
    BY <1>7 DEF out
  <2> QED
    BY <1>1, <1>2, <1>6, <1>7, <2>1, <2>2 DEF FrontEndInv, UnlinkInv, UnlinkTakesItsOwn
<1> QED
  BY <1>2, <1>7, <1>8, <1>9, <1>10 DEF FrontEndInv

-----------------------------------------------------------------------------
(* Answering, time, the deadline checker and the workers.                   *)

LEMMA FanOutKeeps ==
  ASSUME FrontEndInv, NEW t \in Threads, FanOut(t)
  PROVE  FrontEndInv' /\ Passed' \cup dispatcher'.read = Passed \cup dispatcher.read
<1> DEFINE rs == hand[t].reads
<1>1. /\ replies' = [r \in Reads |-> IF r \in rs THEN hand[t].answer ELSE replies[r]]
      /\ gauge' = gauge - Cardinality(rs) /\ hand' = [hand EXCEPT ![t] = EmptyHand]
      /\ overdue' = overdue \ rs
      /\ UNCHANGED <<table, unlinked, pool, lost>>
  BY DEF FanOut
<1>2. /\ rs \subseteq Reads /\ rs \subseteq Held
      /\ \A r \in rs : /\ hand[t].answer \in AnswersFor(r) /\ r \notin Waiters /\ r \notin dispatcher.read
                        /\ \A u \in Threads : u # t => r \notin hand[u].reads
  BY Members DEF FrontEndInv, HeldInv
<1>3. /\ DOMAIN hand' = Threads /\ hand'[t].reads = {} /\ hand'[t].answer = NoReply
      /\ \A u \in Threads : u # t => hand'[u] = hand[u]
  BY <1>1 DEF FrontEndInv, HeldInv, EmptyHand
<1>4. \A r \in rs : hand[t].answer # NoReply /\ hand[t].answer \in AnyReply
  <2>1. ASSUME NEW r \in rs PROVE hand[t].answer \in AnyReply
    BY <1>2 DEF AnswersFor, AnyReply
  <2>2. ASSUME NEW r \in rs PROVE hand[t].answer # NoReply
    <3>1. hand[t].answer = Data(RangeOf[r]) \/ \E e \in Errnos : hand[t].answer = Errno(e)
      BY <1>2 DEF AnswersFor
    <3>2. \A k : Data(k) # NoReply /\ Errno(k) # NoReply
      BY DEF Data, Errno, NoReply
    <3> QED
      BY <3>1, <3>2
  <2> QED
    BY <2>1, <2>2
<1>5. /\ replies \in [Reads -> AnyReply] /\ replies' \in [Reads -> AnyReply]
      /\ \A r \in rs : replies'[r] # NoReply
      /\ \A r \in Reads : r \notin rs => replies'[r] = replies[r]
  BY <1>1, <1>2, <1>4 DEF FrontEndInv, PoolInv
<1>6. DispatcherInv' /\ dispatcher'.read = dispatcher.read /\ dispatcher'.ticket = dispatcher.ticket
      /\ Parking' = Parking
  <2>1. CASE dispatcher.at = "asleep"
    <3>1. dispatcher' = [dispatcher EXCEPT !.at = "insert"]
      BY <2>1 DEF FanOut
    <3>2. /\ DispatcherInv' /\ dispatcher'.read = dispatcher.read /\ dispatcher'.ticket = dispatcher.ticket
          /\ dispatcher'.at = "insert"
      BY <2>1, <3>1 DEF FrontEndInv, DispatcherInv
    <3> QED
      BY <2>1, <3>2 DEF Parking
  <2>2. CASE dispatcher.at # "asleep"
    <3>1. dispatcher' = dispatcher
      BY <2>2 DEF FanOut
    <3> QED
      BY <3>1 DEF FrontEndInv, DispatcherInv, Parking
  <2> QED
    BY <2>1, <2>2
<1>7. Waiters' = Waiters
  BY <1>1 DEF Waiters, table
<1>8. \A r : r \in Held' <=> r \in Held /\ r \notin rs
  <2>1. ASSUME NEW r, r \in Held' PROVE r \in Held /\ r \notin rs
    <3>1. PICK u \in Threads : r \in hand'[u].reads
      BY <2>1, MembersNext
    <3>2. u # t /\ r \in hand[u].reads
      BY <1>3, <3>1
    <3> QED
      BY <1>2, <3>2, Members
  <2>2. ASSUME NEW r, r \in Held, r \notin rs PROVE r \in Held'
    <3>1. PICK u \in Threads : r \in hand[u].reads
      BY <2>2, Members
    <3>2. r \in hand'[u].reads
      BY <1>3, <2>2, <3>1
    <3> QED
      BY <3>2, MembersNext
  <2> QED
    BY <2>1, <2>2
<1>9. Passed' = Passed
  BY <1>2, <1>5, <1>7, <1>8, Counted DEF Passed
<1>10. Pending' = Pending \ rs /\ Pending \cap rs = rs
  <2>1. \A r \in rs : r \notin Parking
    BY <1>2 DEF Parking
  <2> QED
    BY <1>2, <1>6, <1>7, <1>8, <2>1 DEF Pending
<1>11. gauge' = Cardinality(Pending')
  <2>1. gauge = Cardinality(Pending) /\ IsFiniteSet(Pending)
    BY GaugeIs, Counted DEF FrontEndInv, CountInv
  <2>2. Cardinality(Pending \ rs) = Cardinality(Pending) - Cardinality(Pending \cap rs)
    BY <2>1, FS_Difference, Zenon
  <2> QED
    BY <1>1, <1>10, <2>1, <2>2, Zenon
<1>12. TableInv'
  BY <1>1 DEF FrontEndInv, TableInv, table
<1>13. HeldInv'
  BY <1>2, <1>3, <1>5, <1>6, <1>7, Counted DEF FrontEndInv, HeldInv, DispatcherInv
<1>14. PoolInv'
  BY <1>1, <1>5 DEF FrontEndInv, PoolInv, pool
<1>15. GroupsAreServed'
  BY <1>1, <1>6 DEF FrontEndInv, GroupsAreServed, table, pool
<1>16. UnlinkInv'
  <2>1. Dispatcher \in Threads
    BY DEF Threads
  <2>2. hand'[Dispatcher].reads \subseteq hand[Dispatcher].reads
    BY <1>3, <2>1
  <2>3. dispatcher.at = "cancel" => dispatcher'.at = "cancel"
    BY DEF FanOut
  <2> QED
    BY <1>1, <1>6, <1>7, <2>2, <2>3, UnlinkStands DEF FrontEndInv, pool
<1>17. CountInv'
  BY <1>1, <1>9, <1>11, GaugeIs, Zenon DEF FrontEndInv, CountInv, table
<1> QED
  BY <1>6, <1>9, <1>12, <1>13, <1>14, <1>15, <1>16, <1>17 DEF FrontEndInv

LEMMA DeadlinePassesKeeps ==
  ASSUME FrontEndInv, NEW r \in Reads, DeadlinePasses(r)
  PROVE  FrontEndInv' /\ Stutters
<1>1. /\ overdue' = overdue \cup {r}
      /\ UNCHANGED <<replies, table, gauge, dispatcher, unlinked, hand, pool, lost>>
  BY DEF DeadlinePasses
<1>2. DispatcherInv' /\ Parking' = Parking
  BY <1>1 DEF FrontEndInv, DispatcherInv, Parking
<1>3. TableInv' /\ HeldInv' /\ CountInv' /\ Stutters
  BY <1>1, <1>2, QuietKeeps
<1>4. PoolInv' /\ GroupsAreServed'
  BY <1>1 DEF FrontEndInv, PoolInv, GroupsAreServed, table, pool
<1>5. UnlinkInv'
  BY <1>1, <1>2, UnlinkQuiet DEF FrontEndInv, pool
<1> QED
  BY <1>2, <1>3, <1>4, <1>5 DEF FrontEndInv

LEMMA ExpireKeeps ==
  ASSUME FrontEndInv, expire
  PROVE  FrontEndInv' /\ Stutters
<1> DEFINE out == Waiters \cap overdue
<1>1. /\ hand[Checker].reads = {} /\ take_waiters(Checker, out, Errno("ENODATA"))
      /\ UNCHANGED <<overdue, replies, gauge, dispatcher, unlinked, pool, lost>>
  BY DEF expire
<1>2. DispatcherInv' /\ Parking' = Parking
  BY <1>1 DEF FrontEndInv, DispatcherInv, Parking
<1>3. Checker \in Threads /\ \A r \in out : r \in Waiters /\ r \in overdue
  BY DEF Threads
<1>4. \A r : Errno("ENODATA") \in AnswersFor(r)
  BY DEF AnswersFor, Errnos, EngineErrnos
<1> HIDE DEF out
<1>5. /\ TableInv' /\ HeldInv' /\ CountInv' /\ Stutters
      /\ DOMAIN groups' \subseteq DOMAIN groups /\ Waiters' \subseteq Waiters
      /\ \A u \in Threads : u # Checker => hand'[u] = hand[u]
  <2>1. /\ hand[Checker].reads = {} /\ take_waiters(Checker, out, Errno("ENODATA"))
        /\ UNCHANGED <<replies, gauge>> /\ dispatcher'.read = dispatcher.read
    BY <1>1
  <2>2. \A r \in out : r \in Waiters /\ Errno("ENODATA") \in AnswersFor(r)
    BY <1>3, <1>4
  <2> QED
    BY <1>2, <1>3, <2>1, <2>2, TakeWaitersKeeps
<1>6. PoolInv'
  BY <1>1, Zenon DEF FrontEndInv, PoolInv, pool
<1>7. GroupsAreServed'
  BY <1>1, <1>5 DEF FrontEndInv, GroupsAreServed, pool
<1>8. UnlinkInv'
  <2>1. Dispatcher \in Threads /\ Dispatcher # Checker
    BY DEF Threads, Dispatcher, Checker
  <2> QED
    BY <1>1, <1>2, <1>5, <2>1, UnlinkStands DEF FrontEndInv, pool
<1> QED
  BY <1>2, <1>5, <1>6, <1>7, <1>8 DEF FrontEndInv

LEMMA DequeueKeeps ==
  ASSUME FrontEndInv, NEW w \in Workers, Dequeue(w)
  PROVE  FrontEndInv' /\ Stutters
<1>1. /\ worker[w].at = "idle" /\ queue # <<>> /\ queue' = Tail(queue)
      /\ worker' = [worker EXCEPT ![w] = At("run", {}, Head(queue))]
      /\ UNCHANGED <<overdue, replies, table, gauge, dispatcher, unlinked, hand, tx, stopping, lost>>
  BY ZenonT(60) DEF Dequeue, WorkerIs
<1>2. /\ worker'[w].at = "run" /\ worker'[w].ticket = Head(queue) /\ DOMAIN worker' = Workers
      /\ \A v \in Workers : v # w => worker'[v] = worker[v]
  <2>1. DOMAIN worker = Workers
    BY DEF FrontEndInv, PoolInv
  <2> QED
    BY <1>1, <2>1 DEF At
<1>3. queue \in Seq(Int) /\ Len(queue) \in Nat /\ Len(queue) > 0
  BY <1>1 DEF FrontEndInv, PoolInv
<1>4. /\ queue' \in Seq(Int) /\ Len(queue') = Len(queue) - 1 /\ Head(queue) = queue[1]
      /\ Head(queue) \in Int
      /\ \A i \in 1..Len(queue') : queue'[i] = queue[i + 1]
  BY <1>1, <1>3
<1>5. DispatcherInv' /\ Parking' = Parking
  BY <1>1 DEF FrontEndInv, DispatcherInv, Parking
<1>6. TableInv' /\ HeldInv' /\ CountInv' /\ Stutters
  BY <1>1, <1>5, QuietKeeps
<1>7. PoolInv'
  <2>1. Len(queue') <= QueueDepth
    BY <1>3, <1>4, FrontEndAssumption DEF FrontEndInv, PoolInv
  <2> QED
    BY <1>1, <1>2, <1>4, <2>1 DEF FrontEndInv, PoolInv
<1>8. GroupsAreServed'
  <2> SUFFICES ASSUME NEW id \in DOMAIN groups
               PROVE  \/ dispatcher.ticket = id
                      \/ \E i \in 1..Len(queue') : queue'[i] = id
                      \/ \E v \in Workers : worker'[v].ticket = id
                      \/ id \in lost
    BY <1>1 DEF GroupsAreServed, table
  <2>1. CASE \E i \in 1..Len(queue) : queue[i] = id
    <3> PICK i \in 1..Len(queue) : queue[i] = id
      BY <2>1
    <3>1. CASE i = 1
      BY <1>2, <1>4, <3>1
    <3>2. CASE i # 1
      <4>1. i - 1 \in 1..Len(queue') /\ (i - 1) + 1 = i
        BY <1>3, <1>4, <3>2
      <4>2. queue'[i - 1] = queue[i]
        BY <1>4, <4>1
      <4> QED
        BY <4>1, <4>2
    <3> QED
      BY <3>1, <3>2
  <2>2. CASE \E v \in Workers : worker[v].ticket = id
    <3>1. id # NoTicket
      BY DEF FrontEndInv, TableInv, NoTicket
    <3> QED
      BY <1>1, <1>2, <2>2, <3>1 DEF FrontEndInv, PoolInv
  <2>3. GroupsAreServed
    BY DEF FrontEndInv
  <2>4. \/ dispatcher.ticket = id
        \/ \E i \in 1..Len(queue) : queue[i] = id
        \/ \E v \in Workers : worker[v].ticket = id
        \/ id \in lost
    BY <2>3, Zenon DEF GroupsAreServed
  <2> QED
    BY <2>1, <2>2, <2>4, Zenon
<1>9. UnlinkInv'
  BY <1>1, <1>5, UnlinkQuiet DEF FrontEndInv
<1> QED
  BY <1>5, <1>6, <1>7, <1>8, <1>9 DEF FrontEndInv

LEMMA JobReturnsKeeps ==
  ASSUME FrontEndInv, NEW w \in Workers, NEW r \in Reads, JobReturns(w, RangeOf[r])
  PROVE  FrontEndInv' /\ Stutters
<1> DEFINE id == worker[w].ticket
           key == RangeOf[r]
<1>1. /\ hand[w].reads = {} /\ (id \in DOMAIN groups => groups[id].key = key)
      /\ worker' = [worker EXCEPT ![w] = Resting]
      /\ UNCHANGED <<overdue, replies, gauge, dispatcher, unlinked, queue, tx, stopping, lost>>
  BY ZenonT(60) DEF JobReturns, WorkerIs
<1>2. /\ DOMAIN worker' = Workers /\ worker'[w].ticket = NoTicket /\ NoTicket \in Int
      /\ \A v \in Workers : v # w => worker'[v] = worker[v]
  <2>1. DOMAIN worker = Workers
    BY DEF FrontEndInv, PoolInv
  <2>2. worker' = [worker EXCEPT ![w] = Resting]
    BY <1>1
  <2>3. Resting.ticket = NoTicket /\ NoTicket \in Int
    BY DEF Resting, NoTicket
  <2> QED
    BY <2>1, <2>2, <2>3
<1>3. PICK a \in {Data(key)} \cup {Errno(e) : e \in EngineErrnos} : remove_group(w, id, a)
  BY DEF JobReturns
<1>4. id \in DOMAIN groups => \A q \in groups[id].waiters : a \in AnswersFor(q)
  <2> SUFFICES ASSUME id \in DOMAIN groups, NEW q \in groups[id].waiters
               PROVE  a \in AnswersFor(q)
    OBVIOUS
  <2>1. RangeOf[q] = key
    BY <1>1 DEF FrontEndInv, TableInv
  <2>2. \A e \in EngineErrnos : e \in Errnos
    BY DEF Errnos
  <2> QED
    BY <2>1, <2>2 DEF AnswersFor
<1>5. DispatcherInv' /\ Parking' = Parking /\ dispatcher'.read = dispatcher.read
  BY <1>1 DEF FrontEndInv, DispatcherInv, Parking
<1>6. w \in Threads /\ Checker \in Threads /\ w # Checker
  BY ThreadsAssumption DEF Threads
<1> HIDE DEF key
<1>7. /\ TableInv' /\ HeldInv' /\ CountInv' /\ Stutters
      /\ DOMAIN groups' \subseteq DOMAIN groups /\ id \notin DOMAIN groups'
      /\ Waiters' \subseteq Waiters
      /\ \A u \in Threads : u # w => hand'[u] = hand[u]
  BY <1>1, <1>3, <1>4, <1>5, <1>6, RemoveGroupKeeps, ZenonT(60)
<1>8. PoolInv'
  BY <1>1, <1>2 DEF FrontEndInv, PoolInv
<1>9. GroupsAreServed'
  <2> SUFFICES ASSUME NEW j \in DOMAIN groups'
               PROVE  \/ dispatcher.ticket = j
                      \/ \E i \in 1..Len(queue) : queue[i] = j
                      \/ \E v \in Workers : worker'[v].ticket = j
                      \/ j \in lost
    BY <1>1, ZenonT(60) DEF GroupsAreServed
  <2>1. j \in DOMAIN groups /\ j # id
    BY <1>7, ZenonT(60)
  <2> QED
    BY <1>2, <2>1 DEF FrontEndInv, GroupsAreServed
<1>10. UnlinkInv'
  <2>1. Dispatcher \in Threads /\ Dispatcher # w
    BY ThreadsAssumption DEF Threads
  <2> QED
    BY <1>1, <1>5, <1>7, <2>1, UnlinkStands DEF FrontEndInv
<1> QED
  BY <1>5, <1>7, <1>8, <1>9, <1>10 DEF FrontEndInv

LEMMA JobPanicsKeeps ==
  ASSUME FrontEndInv, NEW w \in Workers, JobPanics(w)
  PROVE  FrontEndInv' /\ Stutters
<1>1. /\ lost' = (lost \cup {worker[w].ticket}) \cap DOMAIN groups
      /\ worker' = [worker EXCEPT ![w] = Resting]
      /\ UNCHANGED <<overdue, replies, table, gauge, dispatcher, unlinked, hand, queue, tx, stopping>>
  BY DEF JobPanics
<1>2. /\ DOMAIN worker' = Workers /\ worker'[w].ticket = NoTicket /\ NoTicket \in Int
      /\ \A v \in Workers : v # w => worker'[v] = worker[v]
  <2>1. DOMAIN worker = Workers
    BY DEF FrontEndInv, PoolInv
  <2> QED
    BY <1>1, <2>1 DEF Resting, NoTicket
<1>3. DispatcherInv' /\ Parking' = Parking
  BY <1>1 DEF FrontEndInv, DispatcherInv, Parking
<1>4. TableInv' /\ HeldInv' /\ CountInv' /\ Stutters
  BY <1>1, <1>3, QuietKeeps
<1>5. PoolInv'
  BY <1>1, <1>2 DEF FrontEndInv, PoolInv
<1>6. GroupsAreServed'
  <2> SUFFICES ASSUME NEW j \in DOMAIN groups
               PROVE  \/ dispatcher.ticket = j
                      \/ \E i \in 1..Len(queue) : queue[i] = j
                      \/ \E v \in Workers : worker'[v].ticket = j
                      \/ j \in lost'
    BY <1>1 DEF GroupsAreServed, table
  <2> QED
    BY <1>1, <1>2 DEF FrontEndInv, GroupsAreServed
<1>7. UnlinkInv'
  BY <1>1, <1>3, UnlinkQuiet DEF FrontEndInv
<1> QED
  BY <1>3, <1>4, <1>5, <1>6, <1>7 DEF FrontEndInv

LEMMA WorkerExitsKeeps ==
  ASSUME FrontEndInv, NEW w \in Workers, WorkerExits(w)
  PROVE  FrontEndInv' /\ Stutters
<1>1. /\ worker[w].at = "idle" /\ worker' = [worker EXCEPT ![w] = At("exited", {}, NoTicket)]
      /\ UNCHANGED <<overdue, replies, table, gauge, dispatcher, unlinked, hand, queue, tx, stopping, lost>>
  BY DEF WorkerExits, WorkerIs
<1>2. /\ DOMAIN worker' = Workers /\ worker'[w].ticket = NoTicket /\ worker[w].ticket = NoTicket
      /\ NoTicket \in Int
      /\ \A v \in Workers : v # w => worker'[v] = worker[v]
  <2>1. DOMAIN worker = Workers /\ worker[w].ticket = NoTicket
    BY <1>1 DEF FrontEndInv, PoolInv
  <2> QED
    BY <1>1, <2>1 DEF At, NoTicket
<1>3. DispatcherInv' /\ Parking' = Parking
  BY <1>1 DEF FrontEndInv, DispatcherInv, Parking
<1>4. TableInv' /\ HeldInv' /\ CountInv' /\ Stutters
  BY <1>1, <1>3, QuietKeeps
<1>5. PoolInv'
  BY <1>1, <1>2 DEF FrontEndInv, PoolInv
<1>6. GroupsAreServed'
  <2>1. \A v \in Workers : worker'[v].ticket = worker[v].ticket
    BY <1>2
  <2> QED
    BY <1>1, <2>1, Zenon DEF FrontEndInv, GroupsAreServed, table
<1>7. UnlinkInv'
  BY <1>1, <1>3, UnlinkQuiet DEF FrontEndInv
<1> QED
  BY <1>3, <1>4, <1>5, <1>6, <1>7 DEF FrontEndInv

\* Stopping the pool, and steps that change nothing.
LEMMA StopKeeps ==
  ASSUME FrontEndInv, StopAccepting \/ DropSender \/ UNCHANGED vars
  PROVE  FrontEndInv' /\ Stutters
<1>1. /\ UNCHANGED <<overdue, replies, table, gauge, dispatcher, unlinked, hand, queue, worker, lost>>
      /\ \/ stopping' = TRUE /\ tx' = tx
         \/ stopping' = stopping /\ tx' = tx
         \/ stopping' = stopping /\ stopping /\ tx' = "dropped"
  BY DEF StopAccepting, DropSender, vars, pool
<1>2. DispatcherInv' /\ Parking' = Parking
  BY <1>1 DEF FrontEndInv, DispatcherInv, Parking
<1>3. TableInv' /\ HeldInv' /\ CountInv' /\ Stutters
  BY <1>1, <1>2, QuietKeeps
<1>4. PoolInv'
  BY <1>1, Zenon DEF FrontEndInv, PoolInv
<1>5. GroupsAreServed'
  BY <1>1 DEF FrontEndInv, GroupsAreServed, table
<1>6. UnlinkInv'
  BY <1>1, <1>2, UnlinkQuiet DEF FrontEndInv
<1> QED
  BY <1>2, <1>3, <1>4, <1>5, <1>6 DEF FrontEndInv

LEMMA FrontEndInvStep == FrontEndInv /\ [Next]_vars => FrontEndInv'
<1> SUFFICES ASSUME FrontEndInv, [Next]_vars
             PROVE  FrontEndInv'
  OBVIOUS
<1>1. CASE Dispatch
  BY <1>1, ReadReadyKeeps, ReadPendingKeeps, InsertKeeps, SubmitRejectedKeeps, SubmitStepKeeps,
     SendKeeps, CancelKeeps DEF Dispatch
<1>2. CASE \/ \E r \in Reads : TakeRead(r)
           \/ \E t \in Torrents : Unlink(t)
           \/ \E t \in Threads : FanOut(t)
           \/ \E r \in Reads : DeadlinePasses(r)
           \/ expire
  BY <1>2, TakeReadKeeps, UnlinkKeeps, FanOutKeeps, DeadlinePassesKeeps, ExpireKeeps
<1>3. CASE \/ \E w \in Workers : Dequeue(w) \/ JobPanics(w) \/ WorkerExits(w)
           \/ \E w \in Workers, r \in Reads : JobReturns(w, RangeOf[r])
  BY <1>3, DequeueKeeps, JobPanicsKeeps, WorkerExitsKeeps, JobReturnsKeeps
<1>4. CASE StopAccepting \/ DropSender \/ UNCHANGED vars
  BY <1>4, StopKeeps
<1> QED
  BY <1>1, <1>2, <1>3, <1>4 DEF Next

LEMMA FrontEndInvariance == Spec => []FrontEndInv
  BY InitFrontEndInv, FrontEndInvStep, PTL DEF Spec

-----------------------------------------------------------------------------
(* Theorems.                                                                *)

\* The types, and the limits of PendingTable and of the pool's channel, which
\* PendingTable::insert and WorkerPool::submit wait for.
THEOREM FrontEndTypes == Spec => []TypeOK
  BY FrontEndInvariance, InvImpliesTypes, PTL

\* Insert, expire, cancel_by_torrent_id, remove_group and the answering threads
\* never let a reply out of the table twice, nor lose it, and the index of ranges
\* never refers to a group that is gone.
THEOREM RepliesHeldOnce == Spec => []ReplyHeldOnce
  BY FrontEndInvariance, InvImpliesReplyHeldOnce, PTL

\* Metrics.pending_reads is the number of deferred replies that are not answered.
THEOREM GaugeIsExact == Spec => []GaugeCountsPending
<1>1. FrontEndInv => GaugeCountsPending
  BY DEF FrontEndInv, CountInv
<1> QED
  BY <1>1, FrontEndInvariance, PTL

\* Each group in the table has its leader's job: on its way to the queue, in it,
\* or with a worker, unless the job panicked.
THEOREM EveryGroupServed == Spec => []GroupsAreServed
<1>1. FrontEndInv => GroupsAreServed
  BY DEF FrontEndInv
<1> QED
  BY <1>1, FrontEndInvariance, PTL

\* cancel_by_torrent_id takes every parked read of the unlinked torrent out of the
\* table and none of another torrent, although both may wait in one group.
THEOREM UnlinkCancelsItsReads == Spec => []UnlinkTakesItsOwn
<1>1. FrontEndInv => UnlinkTakesItsOwn
  BY DEF FrontEndInv, UnlinkInv
<1> QED
  BY <1>1, FrontEndInvariance, PTL

(* The refinement of ReadReplies.                                           *)

\* The reads taken are those that reached the table and the dispatcher's own.
AbsTaken == {r \in Reads : Taken(r)}

LEMMA TakenIs ==
  ASSUME FrontEndInv
  PROVE  AbsTaken = Passed \cup dispatcher.read
<1>1. dispatcher.read \subseteq Reads
  BY DEF FrontEndInv, DispatcherInv
<1>2. \A r \in Reads : Taken(r) <=> r \in Passed \cup dispatcher.read
  BY Members DEF Taken, Passed
<1> QED
  BY <1>1, <1>2, Counted DEF AbsTaken, Passed

LEMMA TakenIsNext ==
  ASSUME FrontEndInv'
  PROVE  AbsTaken' = Passed' \cup dispatcher'.read
<1>1. dispatcher'.read \subseteq Reads
  BY DEF FrontEndInv, DispatcherInv
<1>2. \A r \in Reads : Taken(r)' <=> r \in Passed' \cup dispatcher'.read
  BY MembersNext DEF Taken, Passed
<1>3. Waiters' \subseteq Reads /\ Held' \subseteq Reads
  BY MembersNext DEF FrontEndInv, TableInv, Group, HeldInv
<1> QED
  BY <1>1, <1>2, <1>3 DEF AbsTaken, Passed

\* Every step takes a read, answers reads it has taken, or does neither.
LEMMA RefinementStep ==
  FrontEndInv /\ FrontEndInv' /\ [Next]_vars => [Abstract!Next]_<<AbsTaken, replies>>
<1> SUFFICES ASSUME FrontEndInv, FrontEndInv', [Next]_vars
             PROVE  Abstract!Next \/ (AbsTaken' = AbsTaken /\ replies' = replies)
  OBVIOUS
<1>1. ASSUME NEW r \in Reads, TakeRead(r)
      PROVE  Abstract!Take(r)
  <2>1. /\ dispatcher'.read = {r} /\ dispatcher.read = {}
        /\ UNCHANGED <<replies, table, hand>> /\ ~Taken(r)
    BY <1>1 DEF TakeRead, At, DispatcherIs, FrontEndInv, DispatcherInv
  <2>2. Passed' = Passed
    BY <2>1 DEF Passed, Waiters, Held, table
  <2>3. AbsTaken' = AbsTaken \cup {r} /\ r \notin AbsTaken
    BY <2>1, <2>2, TakenIs, TakenIsNext DEF AbsTaken
  <2> QED
    BY <2>1, <2>3 DEF Abstract!Take, AbsTaken
<1>2. ASSUME NEW r \in Reads, ReadReady(r)
      PROVE  Abstract!Answer({r})
  <2>1. /\ r \in dispatcher.read /\ dispatcher.read = {r} /\ dispatcher'.read = {}
        /\ UNCHANGED <<table, hand>>
    BY <1>2 DEF ReadReady, Resting, DispatcherIs, FrontEndInv, DispatcherInv
  <2>2. PICK a \in {Errno("ENOENT"), Data(RangeOf[r])} : replies' = [replies EXCEPT ![r] = a]
    BY <1>2, Zenon DEF ReadReady
  <2>3. /\ a \in Abstract!Answers(r) /\ a # NoReply
    <3>1. Errno("ENOENT") \in {<<"errno", e>> : e \in Errnos} /\ Data(RangeOf[r]) = <<"data", RangeOf[r]>>
      BY DEF Errno, Errnos, Data
    <3>2. Errno("ENOENT") # NoReply /\ Data(RangeOf[r]) # NoReply
      BY DEF Errno, Data, NoReply
    <3> QED
      BY <3>1, <3>2 DEF Abstract!Answers
  <2>4. /\ replies'[r] = a /\ \A q \in Reads : q # r => replies'[q] = replies[q]
        /\ replies' = [q \in Reads |-> replies'[q]] /\ replies[r] = NoReply
    <3>1. replies \in [Reads -> AnyReply] /\ replies[r] = NoReply
      BY <2>1, Zenon DEF FrontEndInv, PoolInv, HeldInv
    <3> QED
      BY <2>2, <3>1, ZenonT(60)
  <2>5. Passed' = Passed \cup {r}
    BY <2>1, <2>3, <2>4 DEF Passed, Waiters, Held, table
  <2>6. AbsTaken' = AbsTaken /\ r \in AbsTaken
    BY <2>1, <2>5, TakenIs, TakenIsNext
  <2>7. Abstract!NoReply = NoReply
    BY DEF Abstract!NoReply, NoReply
  <2>8. replies' = [q \in Reads |-> IF q \in {r} THEN replies'[q] ELSE replies[q]]
    BY <2>4
  <2> QED
    BY <2>3, <2>4, <2>6, <2>7, <2>8 DEF Abstract!Answer, AbsTaken
<1>3. ASSUME NEW t \in Threads, FanOut(t)
      PROVE  Abstract!Answer(hand[t].reads)
  <2> DEFINE rs == hand[t].reads
  <2>1. /\ replies' = [r \in Reads |-> IF r \in rs THEN hand[t].answer ELSE replies[r]]
        /\ dispatcher'.read = dispatcher.read /\ UNCHANGED table
        /\ hand' = [hand EXCEPT ![t] = EmptyHand]
    BY <1>3 DEF FanOut, FrontEndInv, DispatcherInv
  <2>2. \A r \in rs : /\ r \in Reads /\ r \in Held /\ replies[r] = NoReply
                      /\ hand[t].answer \in AnswersFor(r)
    BY Members DEF FrontEndInv, HeldInv
  <2>3. \A r \in Reads : AnswersFor(r) = Abstract!Answers(r)
    BY DEF AnswersFor, Abstract!Answers, Data, Errno
  <2>4. \A r \in rs : replies'[r] = hand[t].answer /\ replies'[r] \in Abstract!Answers(r)
    BY <2>1, <2>2, <2>3
  <2>5. replies' = [r \in Reads |-> IF r \in rs THEN replies'[r] ELSE replies[r]]
    BY <2>1, <2>2
  <2>6. rs \subseteq AbsTaken
    BY <2>2, TakenIs DEF Passed
  <2>7. AbsTaken' = AbsTaken
    BY <1>3, FanOutKeeps, TakenIs, TakenIsNext
  <2>8. Abstract!NoReply = NoReply
    BY DEF Abstract!NoReply, NoReply
  <2> QED
    BY <2>2, <2>4, <2>5, <2>6, <2>7, <2>8 DEF Abstract!Answer, AbsTaken
<1>4. ASSUME Stutters
      PROVE  AbsTaken' = AbsTaken /\ replies' = replies
  BY <1>4, TakenIs, TakenIsNext DEF Stutters
<1>5. CASE Dispatch
  <2>1. CASE \E r \in Reads : ReadReady(r)
    BY <2>1, <1>2, Zenon DEF Abstract!Next
  <2> QED
    BY <1>4, <1>5, <2>1, ReadPendingKeeps, InsertKeeps, SubmitRejectedKeeps, SubmitStepKeeps,
       SendKeeps, CancelKeeps DEF Dispatch
<1>6. CASE \E r \in Reads : TakeRead(r)
  BY <1>1, <1>6 DEF Abstract!Next
<1>7. CASE \E t \in Threads : FanOut(t)
  <2>1. \A t \in Threads : hand[t].reads \in SUBSET Reads
    BY DEF FrontEndInv, HeldInv
  <2> QED
    BY <1>3, <1>7, <2>1 DEF Abstract!Next
<1>8. CASE \/ \E t \in Torrents : Unlink(t)
           \/ \E r \in Reads : DeadlinePasses(r)
           \/ expire
  BY <1>4, <1>8, UnlinkKeeps, DeadlinePassesKeeps, ExpireKeeps
<1>9. CASE \/ \E w \in Workers : Dequeue(w) \/ JobPanics(w) \/ WorkerExits(w)
           \/ \E w \in Workers, r \in Reads : JobReturns(w, RangeOf[r])
  BY <1>4, <1>9, DequeueKeeps, JobPanicsKeeps, WorkerExitsKeeps, JobReturnsKeeps
<1>10. CASE StopAccepting \/ DropSender \/ UNCHANGED vars
  BY <1>4, <1>10, StopKeeps
<1> QED
  BY <1>5, <1>6, <1>7, <1>8, <1>9, <1>10 DEF Next

\* The front end takes each read once and answers it at most once, with the bytes
\* of the range it asked for or an error: the safety part of ReadReplies.
THEOREM AnswersOnceWithItsRange == Spec => Abstract!Safety
<1>1. Init => Abstract!Init
  <2> SUFFICES ASSUME Init PROVE AbsTaken = {} /\ replies = [r \in Reads |-> NoReply]
    BY Zenon DEF Abstract!Init, Abstract!NoReply, NoReply, AbsTaken
  <2>1. replies = [r \in Reads |-> NoReply] /\ dispatcher.read = {}
    BY DEF Init, Resting
  <2>2. Waiters = {} /\ Held = {}
    BY Members DEF Init, EmptyHand
  <2>3. Passed = {}
    BY <2>1, <2>2 DEF Passed
  <2> QED
    BY <2>1, <2>3, InitFrontEndInv, TakenIs
<1>2. [Abstract!Next]_<<AbsTaken, replies>> => [Abstract!Next]_<<{r \in Reads : Taken(r)}, replies>>
  BY DEF AbsTaken
<1> QED
  BY <1>1, <1>2, FrontEndInvariance, RefinementStep, PTL DEF Spec, Abstract!Safety

=============================================================================
