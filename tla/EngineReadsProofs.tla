--------------------------- MODULE EngineReadsProofs ---------------------------
(***************************************************************************)
(* The engine keeps every parked read once, registered with the scheduler  *)
(* while it waits for the swarm, in step with its torrent's probe and      *)
(* within its budget, for all torrents, reads, pieces and windows.         *)
(***************************************************************************)
EXTENDS OneReadProofs

-----------------------------------------------------------------------------
(* The steps of the loop.                                                   *)

LEMMA InvIsTyped ==
  ASSUME EngineInv
  PROVE  Typed /\ QueuesInv /\ InboxInv /\ WaitersInv /\ PolledInv
BY DEF EngineInv, Typed, WaitersInv

\* A step of one read leaves the others in order.
LEMMA OneReadKeeps ==
  ASSUME EngineInv, NEW r \in Reads, OneRead(r),
         caller'[r] = "parked" => TorrentOf[r] \in handles',
         handles \subseteq handles', broken' = broken,
         \A q \in Waiting : q # r /\ TorrentOf[q] \in handles' => TorrentOf[q] \in handles
  PROVE  /\ WaitersInv'
         /\ Waiting' = IF caller'[r] = "parked" THEN Waiting \cup {r} ELSE Waiting \ {r}
         /\ \A q \in Reads : q # r => caller'[q] = caller[q] /\ rd'[q] = rd[q]
         /\ caller'[r] = "parked" => rd'[r].spent < Window(rd'[r])
         /\ caller'[r] \in Answers \cup {"parked"}
<1>1. /\ CallTypes /\ ProbeTypes /\ Others(r) /\ ColdKept /\ Result(r)
  BY DEF OneRead
<1>2. Typed /\ WaitersInv
  BY InvIsTyped
<1>3. /\ caller'[r] \in Answers \cup {"parked"}
      /\ caller'[r] = "parked" => IsParked(r)
      /\ caller'[r] # "parked" => r \notin readers'
  BY <1>1, ZenonT(60) DEF Result, IsParked, Answers
<1>4. Waiting' = IF caller'[r] = "parked" THEN Waiting \cup {r} ELSE Waiting \ {r}
  BY <1>1 DEF Others, Waiting
<1>5. ASSUME NEW q \in Waiting', q # r
      PROVE  Sound(q, rd'[q], Registered(q)') /\ InStep(rd'[q], cold'[TorrentOf[q]])
  <2>1. /\ q \in Waiting /\ q \in Reads /\ rd'[q] = rd[q] /\ (q \in readers' <=> q \in readers)
        /\ Sound(q, rd[q], Registered(q)) /\ InStep(rd[q], cold[TorrentOf[q]])
    BY <1>1, <1>2, <1>4, <1>5, ZenonT(60) DEF Others, WaitersInv, Waiting
  <2>2. Registered(q) => Registered(q)'
    BY <1>5, <2>1 DEF Registered
  <2>3. Sound(q, rd'[q], Registered(q)')
    BY <2>1, <2>2 DEF Sound
  <2>4. rd[q].spent \in Nat /\ TorrentOf[q] \in Torrents
    BY <2>1, RangeFacts, RecordFields, ZenonT(60) DEF Sound
  <2>5. InStep(rd'[q], cold'[TorrentOf[q]])
    BY <1>1, <2>1, <2>4 DEF InStep, ColdKept
  <2>6. QED
    BY <2>3, <2>5
<1>6. ASSUME r \in Waiting'
      PROVE  Sound(r, rd'[r], Registered(r)') /\ InStep(rd'[r], cold'[TorrentOf[r]])
  <2>1. IsParked(r) /\ TorrentOf[r] \in handles'
    BY <1>3, <1>4, <1>6 DEF Waiting
  <2>2. Registered(r)' <=> Known(r, readers')
    BY <2>1 DEF Registered, Known
  <2>3. QED
    BY <2>1, <2>2, ZenonT(60) DEF IsParked, Sound
<1>7. readers' \subseteq Waiting' /\ \A q \in readers' : TorrentOf[q] \in handles'
  <2>1. readers' \subseteq Reads
    BY <1>1 DEF CallTypes
  <2>2. \A q \in readers' : q # r => q \in readers /\ q \in Waiting /\ TorrentOf[q] \in handles
    BY <1>1, <1>2, <2>1 DEF Others, WaitersInv
  <2>3. r \in readers' => caller'[r] = "parked"
    BY <1>3
  <2>4. QED
    BY <1>4, <2>2, <2>3
<1>8. WaitersInv'
  BY <1>5, <1>6, <1>7 DEF WaitersInv
<1>9. QED
  BY <1>1, <1>3, <1>4, <1>8 DEF Others, IsParked

LEMMA TypesAfterOne ==
  ASSUME Typed, NEW r \in Reads, OneRead(r), swarm' = swarm, loop' \in {"recv", "poll", "exited"},
         handles' \subseteq Torrents,
         data' \in [Torrents -> [Pieces -> {"missing", "local", "stale"}]]
  PROVE  EngineTypeOK' /\ AnnouncedOnce' /\ swarm' \in [Torrents -> {"empty", "leechers", "seeds"}]
BY DEF Typed, EngineTypeOK, OneRead, CallTypes, ProbeTypes

LEMMA PollReadStep ==
  ASSUME EngineInv, PollRead
  PROVE  /\ EngineInv'
         /\ Head(todo) \in Reads /\ OneRead(Head(todo))
<1> DEFINE r == Head(todo)
<1>1. /\ loop = "poll" /\ poll_read(r) /\ todo' = Tail(todo)
      /\ parked' = IF caller'[r] = "parked" THEN Append(parked, r) ELSE parked
      /\ loop' = IF Tail(todo) = <<>> THEN "recv" ELSE "poll"
      /\ UNCHANGED <<inbox, handles, stopping, swarm, data, broken>>
  BY DEF PollRead
<1>2. Typed /\ QueuesInv /\ InboxInv /\ WaitersInv /\ PolledInv
  BY InvIsTyped
<1>3. todo \in Seq(Reads) /\ todo # <<>> /\ NoRepeats(todo)
  BY <1>1, <1>2 DEF QueuesInv
<1>4. /\ r \in Reads /\ r \in Range(todo) /\ Tail(todo) \in Seq(Reads)
      /\ NoRepeats(Tail(todo)) /\ Range(Tail(todo)) = Range(todo) \ {r}
  BY <1>3, TailFacts
<1> HIDE DEF r
<1>5. /\ r \in Waiting /\ r \notin Range(parked) /\ caller[r] = "parked"
  BY <1>2, <1>4 DEF QueuesInv, Waiting
<1>6. OneRead(r) /\ (caller'[r] = "parked" => TorrentOf[r] \in handles)
  BY <1>1, <1>2, <1>4, <1>5, PollReadKeeps, ZenonT(60) DEF WaitersInv
<1>7. /\ WaitersInv'
      /\ Waiting' = IF caller'[r] = "parked" THEN Waiting \cup {r} ELSE Waiting \ {r}
      /\ \A q \in Reads : q # r => caller'[q] = caller[q] /\ rd'[q] = rd[q]
      /\ caller'[r] = "parked" => rd'[r].spent < Window(rd'[r])
      /\ caller'[r] \in Answers \cup {"parked"}
  BY <1>1, <1>4, <1>6, OneReadKeeps
<1>8. /\ parked' \in Seq(Reads) /\ NoRepeats(parked')
      /\ Range(parked') = IF caller'[r] = "parked" THEN Range(parked) \cup {r} ELSE Range(parked)
  <2>1. parked \in Seq(Reads) /\ NoRepeats(parked)
    BY <1>2 DEF QueuesInv
  <2>2. /\ Append(parked, r) \in Seq(Reads) /\ NoRepeats(Append(parked, r))
        /\ Range(Append(parked, r)) = Range(parked) \cup {r}
    BY <1>4, <1>5, <2>1, AppendFacts
  <2>3. QED
    BY <1>1, <2>1, <2>2, Zenon
<1>9. QueuesInv'
  <2>1. Waiting = Range(parked) \cup Range(todo) /\ Range(parked) \cap Range(todo) = {}
    BY <1>2 DEF QueuesInv
  <2>2. Range(parked') \cap Range(todo') = {} /\ Waiting' = Range(parked') \cup Range(todo')
    BY <1>1, <1>4, <1>5, <1>7, <1>8, <2>1
  <2>3. (todo' = <<>> <=> loop' # "poll") /\ loop' # "exited"
    BY <1>1
  <2>4. QED
    BY <1>1, <1>4, <1>8, <2>2, <2>3 DEF QueuesInv
<1>10. InboxInv'
  <2>1. \A c \in Commands : c.op = "read" => c.read \in Reads
    BY DEF Commands
  <2>2. \A i \in 1..Len(inbox) : inbox[i].op = "read" => caller'[inbox[i].read] = "sent"
    BY <1>2, <1>5, <1>7, <2>1 DEF InboxInv
  <2>3. QED
    BY <1>1, <1>2, <2>2, ZenonT(60) DEF InboxInv
<1>11. PolledInv'
  <2>1. \A q \in Range(parked) : q \in Reads /\ q # r
    BY <1>2, <1>5 DEF QueuesInv, Range
  <2>2. QED
    BY <1>1, <1>2, <1>6, <1>7, <1>8, <2>1 DEF PolledInv
<1>12. EngineTypeOK' /\ AnnouncedOnce' /\ swarm' \in [Torrents -> {"empty", "leechers", "seeds"}]
  BY <1>1, <1>2, <1>4, <1>6, TypesAfterOne DEF Typed, EngineTypeOK
<1>13. QED
  BY <1>4, <1>6, <1>7, <1>9, <1>10, <1>11, <1>12, ZenonT(60) DEF EngineInv, r

\* A pass begins over what is parked.
LEMMA StartPassKeeps ==
  ASSUME NEW pending \in Seq(Reads), NoRepeats(pending), Waiting' = Range(pending),
         StartPass(pending)
  PROVE  QueuesInv' /\ PolledInv' /\ loop' \in {"recv", "poll", "exited"}
<1>1. /\ todo' = pending /\ parked' = <<>> /\ loop' \in {"recv", "poll"}
      /\ (todo' = <<>> <=> loop' # "poll")
  BY DEF StartPass
<1>2. QED
  BY <1>1, EmptyFacts DEF QueuesInv, PolledInv

LEMMA CommandFacts ==
  ASSUME EngineInv, inbox # <<>>
  PROVE  LET cmd == Head(inbox)
         IN /\ cmd.op \in {"read", "ensure", "remove", "shutdown"}
            /\ cmd.op = "read" => cmd.read \in Reads /\ caller[cmd.read] = "sent"
            /\ cmd.op \in {"ensure", "remove"} => cmd.torrent \in Torrents
<1>1. InboxInv
  BY InvIsTyped
<1>2. /\ Head(inbox) \in Commands /\ 1 \in 1..Len(inbox) /\ Head(inbox) = inbox[1]
  BY <1>1 DEF InboxInv
<1>3. \A c \in Commands : /\ c.op \in {"read", "ensure", "remove", "shutdown"}
                          /\ c.op = "read" => c.read \in Reads
                          /\ c.op \in {"ensure", "remove"} => c.torrent \in Torrents
  BY DEF Commands
<1>4. QED
  BY <1>1, <1>2, <1>3, ZenonT(60) DEF InboxInv

\* The channel without its first command, of which no other read is part.
LEMMA InboxTail ==
  ASSUME EngineInv, inbox # <<>>, inbox' = Tail(inbox),
         \A q \in Reads : (Head(inbox).op = "read" => q # Head(inbox).read) /\ caller[q] = "sent"
                            => caller'[q] = "sent"
  PROVE  InboxInv'
<1> DEFINE rest == Tail(inbox)
<1>1. InboxInv
  BY InvIsTyped
<1>2. /\ inbox \in Seq(Commands) /\ Head(inbox) = inbox[1] /\ Len(inbox) \in Nat /\ Len(inbox) >= 1
      /\ rest \in Seq(Commands) /\ Len(rest) = Len(inbox) - 1
      /\ \A i \in 1..Len(rest) : rest[i] = inbox[i + 1] /\ i + 1 \in 1..Len(inbox) /\ i + 1 # 1
  BY <1>1 DEF InboxInv
<1> HIDE DEF rest
<1>3. ASSUME NEW i \in 1..Len(rest), rest[i].op = "read" PROVE caller'[rest[i].read] = "sent"
  <2>1. inbox[i + 1] \in Commands /\ rest[i] = inbox[i + 1] /\ i + 1 \in 1..Len(inbox) /\ i + 1 # 1
    BY <1>2
  <2>2. rest[i].read \in Reads
    BY <1>3, <2>1 DEF Commands
  <2>3. caller[rest[i].read] = "sent"
    BY <1>1, <1>3, <2>1 DEF InboxInv
  <2>4. Head(inbox).op = "read" => rest[i].read # Head(inbox).read
    BY <1>1, <1>2, <1>3, <2>1 DEF InboxInv
  <2>5. QED
    BY <2>2, <2>3, <2>4
<1>4. ASSUME NEW i \in 1..Len(rest), NEW j \in 1..Len(rest), rest[i].op = "read",
             rest[j].op = "read", rest[i].read = rest[j].read
      PROVE  i = j
  <2>1. i + 1 = j + 1
    BY <1>1, <1>2, <1>4, ZenonT(60) DEF InboxInv
  <2>2. QED
    BY <1>2, <2>1
<1>5. inbox' = rest
  BY DEF rest
<1>6. QED
  BY <1>2, <1>3, <1>4, <1>5, SMTT(30) DEF InboxInv

\* Between passes every parked read is in pending_reads and has its handle.
LEMMA IdleFacts ==
  ASSUME EngineInv, loop = "recv"
  PROVE  /\ todo = <<>> /\ parked \in Seq(Reads) /\ NoRepeats(parked) /\ Waiting = Range(parked)
         /\ \A r \in Waiting : rd[r].spent < Window(rd[r]) /\ TorrentOf[r] \in handles
<1>1. QueuesInv /\ PolledInv
  BY InvIsTyped
<1>2. /\ todo = <<>> /\ parked \in Seq(Reads) /\ NoRepeats(parked)
      /\ Waiting = Range(parked) \cup Range(todo)
  BY <1>1 DEF QueuesInv
<1>3. Waiting = Range(parked)
  BY <1>2, EmptyFacts
<1>4. QED
  BY <1>1, <1>2, <1>3 DEF PolledInv

\* No read moves; the handles, readers and probes may change.
LEMMA NoReadMoves ==
  ASSUME EngineInv, UNCHANGED <<caller, rd>>, readers' \subseteq readers,
         \A r \in readers' : TorrentOf[r] \in handles',
         \A r \in Waiting : Registered(r) => Registered(r)',
         \A t \in Torrents : cold'[t] \in {None, cold[t]}
  PROVE  WaitersInv' /\ Waiting' = Waiting
<1>1. WaitersInv
  BY InvIsTyped
<1>2. Waiting' = Waiting
  BY DEF Waiting
<1>3. ASSUME NEW r \in Waiting
      PROVE  Sound(r, rd'[r], Registered(r)') /\ InStep(rd'[r], cold'[TorrentOf[r]])
  <2>1. Sound(r, rd[r], Registered(r)) /\ InStep(rd[r], cold[TorrentOf[r]]) /\ TorrentOf[r] \in Torrents
    BY <1>1, RangeFacts DEF WaitersInv, Waiting
  <2>2. Sound(r, rd'[r], Registered(r)')
    BY <2>1 DEF Sound
  <2>3. InStep(rd'[r], cold'[TorrentOf[r]])
    BY <2>1 DEF InStep
  <2>4. QED
    BY <2>2, <2>3
<1>4. readers' \subseteq Waiting'
  BY <1>1, <1>2 DEF WaitersInv
<1>5. QED
  BY <1>2, <1>3, <1>4 DEF WaitersInv

LEMMA ReadCommandKeeps ==
  ASSUME EngineInv, loop = "recv", inbox # <<>>, Head(inbox).op = "read",
         start_read(Head(inbox).read), inbox' = Tail(inbox), swarm' = swarm, broken' = broken
  PROVE  /\ EngineInv'
         /\ Head(inbox).read \in Reads /\ OneRead(Head(inbox).read)
<1> DEFINE r == Head(inbox).read
           pending == IF caller'[r] = "parked" THEN Append(parked, r) ELSE parked
<1>1. r \in Reads /\ caller[r] = "sent"
  BY CommandFacts
<1>2. /\ todo = <<>> /\ parked \in Seq(Reads) /\ NoRepeats(parked) /\ Waiting = Range(parked)
      /\ \A q \in Waiting : TorrentOf[q] \in handles
  BY IdleFacts
<1>3. Typed /\ WaitersInv
  BY InvIsTyped
<1>4. r \notin Waiting /\ r \notin readers /\ r \notin Range(parked)
  BY <1>1, <1>2, <1>3 DEF Waiting, WaitersInv
<1>5. start_read(r)
  OBVIOUS
<1>7. \A q \in Reads : (Head(inbox).op = "read" => q # Head(inbox).read) => q # r
  OBVIOUS
<1>8. OneRead(r) => Head(inbox).read \in Reads /\ OneRead(Head(inbox).read)
  BY <1>1
<1> HIDE DEF r
<1>9. /\ OneRead(r) /\ (caller'[r] = "parked" => TorrentOf[r] \in handles')
      /\ handles \subseteq handles' /\ handles' \subseteq Torrents
      /\ data' \in [Torrents -> [Pieces -> {"missing", "local", "stale"}]]
      /\ StartPass(pending)
  BY <1>1, <1>3, <1>4, <1>5, StartReadKeeps
<1>10. /\ WaitersInv'
       /\ Waiting' = IF caller'[r] = "parked" THEN Waiting \cup {r} ELSE Waiting \ {r}
       /\ \A q \in Reads : q # r => caller'[q] = caller[q]
  BY <1>1, <1>2, <1>9, OneReadKeeps, ZenonT(60)
<1>11. pending \in Seq(Reads) /\ NoRepeats(pending) /\ Waiting' = Range(pending)
  <2>1. /\ Append(parked, r) \in Seq(Reads) /\ NoRepeats(Append(parked, r))
        /\ Range(Append(parked, r)) = Range(parked) \cup {r}
    BY <1>1, <1>2, <1>4, AppendFacts
  <2>2. QED
    BY <1>2, <1>4, <1>10, <2>1, ZenonT(60)
<1> HIDE DEF pending
<1>12. QueuesInv' /\ PolledInv' /\ loop' \in {"recv", "poll", "exited"}
  BY <1>9, <1>11, StartPassKeeps
<1>13. InboxInv'
  BY <1>7, <1>10, InboxTail
<1>14. EngineTypeOK' /\ AnnouncedOnce' /\ swarm' \in [Torrents -> {"empty", "leechers", "seeds"}]
  BY <1>1, <1>3, <1>9, <1>12, TypesAfterOne
<1>15. QED
  BY <1>8, <1>9, <1>10, <1>12, <1>13, <1>14 DEF EngineInv

LEMMA HandleCommandsKeep ==
  ASSUME EngineInv, HandleCommand, Head(inbox).op # "read"
  PROVE  EngineInv' /\ caller' = caller
<1> DEFINE cmd == Head(inbox)
<1>1. loop = "recv" /\ inbox # <<>> /\ inbox' = Tail(inbox) /\ swarm' = swarm
  BY DEF HandleCommand
<1>2. cmd.op \in {"ensure", "remove"} => cmd.torrent \in Torrents
  BY <1>1, CommandFacts
<1>3. /\ todo = <<>> /\ parked \in Seq(Reads) /\ NoRepeats(parked) /\ Waiting = Range(parked)
      /\ \A r \in Waiting : TorrentOf[r] \in handles
  BY <1>1, IdleFacts
<1>4. Typed /\ WaitersInv
  BY InvIsTyped
<1>5. ASSUME UNCHANGED <<caller, rd>>, StartPass(parked), WaitersInv', Waiting' = Waiting,
             readers' \subseteq readers, handles' \subseteq Torrents,
             cold' \in [Torrents -> Flights], \A t \in Torrents : cold'[t] \in {None, cold[t]},
             sourceless' \in [Torrents -> Verdicts],
             data' \in [Torrents -> [Pieces -> {"missing", "local", "stale"}]]
      PROVE  EngineInv' /\ caller' = caller
  <2>1. QueuesInv' /\ PolledInv' /\ loop' \in {"recv", "poll", "exited"}
    BY <1>3, <1>5, StartPassKeeps
  <2>2. InboxInv'
    BY <1>1, <1>5, InboxTail
  <2>3. AnnouncedOnce'
    BY <1>4, <1>5 DEF Typed, AnnouncedOnce
  <2>4. EngineTypeOK' /\ swarm' \in [Torrents -> {"empty", "leechers", "seeds"}]
    BY <1>1, <1>4, <1>5, <2>1 DEF Typed, EngineTypeOK
  <2>5. QED
    BY <1>5, <2>1, <2>2, <2>3, <2>4 DEF EngineInv
<1>6. CASE cmd.op = "ensure"
  <2> DEFINE t == cmd.torrent
  <2>1. /\ ensure_handle(t) /\ StartPass(parked) /\ UNCHANGED <<caller, rd, readers, cold, broken>>
        /\ sourceless' = IF t \in handles THEN sourceless ELSE [sourceless EXCEPT ![t] = None]
    BY <1>6 DEF HandleCommand
  <2>2. t \in Torrents
    BY <1>2, <1>6
  <2> HIDE DEF t
  <2>3. /\ handles' = handles \cup {t}
        /\ data' \in [Torrents -> [Pieces -> {"missing", "local", "stale"}]]
    BY <1>4, <2>1, <2>2, HandleTypes
  <2>4. sourceless' \in [Torrents -> Verdicts] /\ cold' \in [Torrents -> Flights] /\ handles' \subseteq Torrents
    BY <1>4, <2>1, <2>2, <2>3 DEF Typed, EngineTypeOK, Verdicts
  <2>5. \A r \in Waiting : Registered(r) => Registered(r)'
    BY <1>3, <2>1 DEF Registered
  <2>6. \A r \in readers' : TorrentOf[r] \in handles'
    BY <1>4, <2>1, <2>3 DEF Typed
  <2>7. WaitersInv' /\ Waiting' = Waiting
    BY <2>1, <2>5, <2>6, NoReadMoves
  <2>8. QED
    BY <1>5, <2>1, <2>3, <2>4, <2>7
<1>7. CASE cmd.op = "remove"
  <2> DEFINE t == cmd.torrent
  <2>1. remove_handle(t) /\ StartPass(parked) /\ UNCHANGED <<caller, rd>>
    BY <1>7 DEF HandleCommand
  <2>2. t \in Torrents
    BY <1>2, <1>7
  <2> HIDE DEF t
  <2>3. /\ handles' = handles \ {t} /\ readers' = {r \in readers : TorrentOf[r] # t}
        /\ broken' = broken \ {t}
        /\ cold' = [cold EXCEPT ![t] = None] /\ sourceless' = [sourceless EXCEPT ![t] = None]
        /\ data' = [data EXCEPT ![t] = [p \in Pieces |-> IF @[p] = "stale" THEN "missing" ELSE @[p]]]
    BY <2>1 DEF remove_handle
  <2>4. /\ cold \in [Torrents -> Flights] /\ sourceless \in [Torrents -> Verdicts]
        /\ data \in [Torrents -> [Pieces -> {"missing", "local", "stale"}]]
        /\ handles \subseteq Torrents /\ \A r \in readers : TorrentOf[r] \in handles
    BY <1>4 DEF Typed, EngineTypeOK
  <2>5. /\ sourceless' \in [Torrents -> Verdicts] /\ cold' \in [Torrents -> Flights]
        /\ handles' \subseteq Torrents /\ \A u \in Torrents : cold'[u] \in {None, cold[u]}
    BY <2>2, <2>3, <2>4 DEF Verdicts, Flights
  <2>6. data' \in [Torrents -> [Pieces -> {"missing", "local", "stale"}]]
    BY <2>2, <2>3, <2>4
  <2>7. \A r \in Waiting : Registered(r) => Registered(r)'
    BY <2>3 DEF Registered
  <2>8. readers' \subseteq readers /\ \A r \in readers' : TorrentOf[r] \in handles'
    BY <2>3, <2>4
  <2>9. WaitersInv' /\ Waiting' = Waiting
    BY <2>1, <2>5, <2>7, <2>8, NoReadMoves
  <2>10. QED
    BY <1>5, <2>1, <2>5, <2>6, <2>8, <2>9
<1>8. QED
  BY <1>6, <1>7 DEF HandleCommand

LEMMA ExitKeeps ==
  ASSUME EngineInv, Exit
  PROVE  EngineInv' /\ \A r \in Reads : caller'[r] \in {caller[r], "error"}
<1>1. /\ loop = "recv" /\ loop' = "exited" /\ inbox' = <<>> /\ parked' = <<>> /\ todo' = todo
      /\ caller' = [r \in Reads |-> IF caller[r] \in {"sent", "parked"} THEN "error" ELSE caller[r]]
      /\ rd' = [r \in Reads |-> Unused(r)]
      /\ readers' = {r \in readers : TorrentOf[r] \notin handles}
      /\ UNCHANGED <<handles, cold, sourceless, swarm, data>>
  BY DEF Exit, swarmVars
<1>2. Typed
  BY InvIsTyped
<1>3. todo = <<>>
  BY <1>1, IdleFacts
<1>4. caller \in [Reads -> {"idle", "sent", "parked"} \cup Answers]
  BY <1>2 DEF Typed, EngineTypeOK
<1>5. /\ caller' \in [Reads -> {"idle", "sent", "parked"} \cup Answers]
      /\ \A r \in Reads : caller'[r] \notin {"sent", "parked"} /\ caller'[r] \in {caller[r], "error"}
  BY <1>1, <1>4, ZenonT(60) DEF Answers
<1>6. readers' = {} /\ Waiting' = {}
  BY <1>1, <1>2, <1>5 DEF Typed, Waiting
<1>7. rd' \in [Reads -> PendingRead]
  BY <1>1, <1>2, FreshFacts DEF Typed
<1>8. EngineTypeOK' /\ AnnouncedOnce' /\ swarm' \in [Torrents -> {"empty", "leechers", "seeds"}]
  BY <1>1, <1>2, <1>5, <1>6, <1>7 DEF Typed, EngineTypeOK, AnnouncedOnce
<1>9. QueuesInv'
  BY <1>1, <1>3, <1>5, <1>6, EmptyFacts DEF QueuesInv
<1>10. InboxInv'
  <2>1. inbox' \in Seq(Commands) /\ Len(inbox') = 0
    BY <1>1
  <2> QED
    BY <2>1 DEF InboxInv
<1>11. WaitersInv' /\ PolledInv'
  BY <1>1, <1>6, EmptyFacts, Zenon DEF WaitersInv, PolledInv
<1>12. QED
  BY <1>5, <1>8, <1>9, <1>10, <1>11 DEF EngineInv

LEMMA OlderFacts ==
  ASSUME NEW x \in Nat, NEW bound \in Nat, x <= bound
  PROVE  /\ Older(x, bound) \in 0..bound /\ Older(x, bound) \in Nat
         /\ Older(x, bound) <= x + 1 /\ Older(x, bound) >= x
         /\ x < bound => Older(x, bound) = x + 1
BY DEF Older

LEMMA AgedFacts ==
  ASSUME NEW r \in Reads, rd[r] \in PendingRead
  PROVE  /\ Aged(r) \in PendingRead /\ Aged(r).phase = rd[r].phase
         /\ Aged(r).has_seeder = rd[r].has_seeder /\ Aged(r).current = rd[r].current
         /\ Aged(r).rewaits = rd[r].rewaits /\ Aged(r).reader = rd[r].reader
         /\ Aged(r).spent \in Nat /\ (rd[r].spent <= ReadTimeout => Aged(r).spent = rd[r].spent + 1)
         /\ Aged(r).age \in Nat /\ Aged(r).age <= rd[r].age + 1
<1> DEFINE rec == rd[r]
           spent == Older(rec.spent, ReadTimeout + 1)
           age == IF r \in Timed THEN Older(rec.age, Overdue) ELSE rec.age
<1>1. /\ rec.spent \in Nat /\ rec.spent <= ReadTimeout + 1 /\ rec.age \in Nat /\ rec.age <= Overdue
      /\ ReadTimeout + 1 \in Nat /\ Overdue \in Nat /\ ReadTimeout \in Nat
  BY RecordFields, WindowFacts
<1>2. /\ spent \in 0..(ReadTimeout + 1) /\ spent \in Nat
      /\ rec.spent <= ReadTimeout => spent = rec.spent + 1
  BY <1>1 DEF Older
<1>3. age \in 0..Overdue /\ age \in Nat /\ age <= rec.age + 1
  BY <1>1 DEF Older
<1>4. Aged(r) = [rec EXCEPT !.spent = spent, !.age = age]
  BY DEF Aged, PendingRead
<1> HIDE DEF spent, age
<1>5. /\ Aged(r) \in PendingRead /\ Aged(r).phase = rec.phase /\ Aged(r).has_seeder = rec.has_seeder
      /\ Aged(r).current = rec.current /\ Aged(r).rewaits = rec.rewaits
      /\ Aged(r).reader = rec.reader
      /\ Aged(r).spent = spent /\ Aged(r).age = age
  BY <1>2, <1>3, <1>4, ZenonT(60) DEF PendingRead
<1>6. QED
  BY <1>2, <1>3, <1>5

LEMMA TimeoutKeeps ==
  ASSUME EngineInv, Timeout
  PROVE  EngineInv' /\ caller' = caller
<1> DEFINE pw == peer_discovery_window_secs
<1>1. /\ loop = "recv" /\ StartPass(parked)
      /\ rd' = [r \in Reads |-> IF caller[r] = "parked" THEN Aged(r) ELSE rd[r]]
      /\ cold' = [t \in Torrents |-> IF cold[t] = None THEN None
                    ELSE [cold[t] EXCEPT !.age = Older(@, pw)]]
      /\ sourceless' = [t \in Torrents |-> IF sourceless[t] = None THEN None
                    ELSE [age |-> Older(sourceless[t].age, pw),
                          announced |-> Older(sourceless[t].announced, pw)]]
      /\ UNCHANGED <<inbox, caller, handles, readers, swarm, data, broken>>
  BY DEF Timeout, swarmVars
<1>2. Typed /\ WaitersInv /\ InboxInv
  BY InvIsTyped
<1>3. /\ parked \in Seq(Reads) /\ NoRepeats(parked) /\ Waiting = Range(parked)
      /\ \A r \in Waiting : rd[r].spent < Window(rd[r])
  BY <1>1, IdleFacts
<1>4. /\ cold \in [Torrents -> Flights] /\ sourceless \in [Torrents -> Verdicts]
      /\ rd \in [Reads -> PendingRead] /\ pw \in Nat
  BY <1>2, WindowFacts DEF Typed, EngineTypeOK
<1>5. ASSUME NEW t \in Torrents
      PROVE  /\ cold'[t] \in Flights /\ (cold'[t] # None => cold[t] # None)
             /\ cold[t] # None =>
                  /\ cold[t].age \in Nat /\ cold'[t].age \in Nat /\ cold'[t].age <= cold[t].age + 1
                  /\ cold'[t].reannounced = cold[t].reannounced
                  /\ cold'[t].announces = cold[t].announces
  <2>1. CASE cold[t] = None
    BY <1>1, <2>1 DEF Flights
  <2>2. CASE cold[t] # None
    <3> DEFINE flight == cold[t]
               age == Older(flight.age, pw)
    <3>1. flight \in [age : 0..pw, reannounced : BOOLEAN, announces : 1..2]
      BY <1>4, <2>2 DEF Flights
    <3>2. flight.age \in Nat /\ flight.age <= pw
      BY <1>4, <3>1
    <3>3. age \in 0..pw /\ age \in Nat /\ age <= flight.age + 1
      BY <1>4, <3>2, OlderFacts, ZenonT(60)
    <3>4. cold'[t] = [flight EXCEPT !.age = age]
      BY <1>1, <2>2
    <3> HIDE DEF age, flight
    <3>5. /\ cold'[t] \in [age : 0..pw, reannounced : BOOLEAN, announces : 1..2]
          /\ cold'[t].age = age /\ cold'[t].reannounced = flight.reannounced
          /\ cold'[t].announces = flight.announces
      BY <3>1, <3>3, <3>4
    <3>6. QED
      BY <2>2, <3>2, <3>3, <3>5 DEF Flights, flight
  <2>3. QED
    BY <2>1, <2>2
<1>6. cold' \in [Torrents -> Flights]
  <2>1. cold' = [t \in Torrents |-> cold'[t]]
    BY <1>1
  <2>2. QED
    BY <1>5, <2>1
<1>7. AnnouncedOnce'
  BY <1>2, <1>5 DEF Typed, AnnouncedOnce
<1>8. sourceless' \in [Torrents -> Verdicts]
  <2>1. ASSUME NEW t \in Torrents PROVE sourceless'[t] \in Verdicts
    <3>1. CASE sourceless[t] = None
      BY <1>1, <3>1 DEF Verdicts
    <3>2. CASE sourceless[t] # None
      <4>1. /\ sourceless[t].age \in Nat /\ sourceless[t].age <= pw
            /\ sourceless[t].announced \in Nat /\ sourceless[t].announced <= pw
        BY <1>4, <3>2, FlightFacts
      <4>2. Older(sourceless[t].age, pw) \in 0..pw /\ Older(sourceless[t].announced, pw) \in 0..pw
        BY <1>4, <4>1, OlderFacts, Zenon
      <4>3. QED
        BY <1>1, <3>2, <4>2 DEF Verdicts
    <3>3. QED
      BY <3>1, <3>2
  <2>2. sourceless' = [t \in Torrents |-> sourceless'[t]]
    BY <1>1
  <2>3. QED
    BY <2>1, <2>2
<1>9. rd' \in [Reads -> PendingRead]
  BY <1>1, <1>4, AgedFacts
<1>10. Waiting' = Waiting
  BY <1>1 DEF Waiting
<1>11. ASSUME NEW r \in Waiting
       PROVE  Sound(r, rd'[r], Registered(r)') /\ InStep(rd'[r], cold'[TorrentOf[r]])
  <2> DEFINE rec == rd[r]
             now == Aged(r)
  <2>1. /\ r \in Reads /\ rd'[r] = now /\ rec \in PendingRead /\ TorrentOf[r] \in Torrents
        /\ Sound(r, rec, Registered(r)) /\ InStep(rec, cold[TorrentOf[r]])
        /\ (Registered(r)' <=> Registered(r))
    BY <1>1, <1>2, <1>4, RangeFacts DEF Waiting, WaitersInv, Registered
  <2>2. /\ now \in PendingRead /\ now.phase = rec.phase /\ now.has_seeder = rec.has_seeder
        /\ now.current = rec.current /\ now.rewaits = rec.rewaits /\ now.reader = rec.reader
        /\ now.age \in Nat /\ now.age <= rec.age + 1
        /\ rec.spent <= ReadTimeout => now.spent = rec.spent + 1
    BY <2>1, AgedFacts, Zenon
  <2> HIDE DEF now
  <2>3. Before(now) = Before(rec) /\ Window(now) = Window(rec)
    BY <2>2 DEF Before, Window
  <2>4. /\ rec.spent \in Nat /\ rec.age \in Nat /\ rec.spent < Window(rec)
        /\ Window(rec) \in Nat /\ Window(rec) <= ReadTimeout + 1 /\ Before(rec) \in Nat
        /\ ReadTimeout \in Nat
    BY <1>3, <2>1, RecordFields, BudgetFacts, WindowFacts, ZenonT(60)
  <2>5. now.spent = rec.spent + 1 /\ now.spent <= Window(now)
    BY <2>2, <2>3, <2>4
  <2>6. ~now.rewaits => now.age <= Before(now) + now.spent
    <3>1. ~rec.rewaits => rec.age <= Before(rec) + rec.spent
      BY <2>1, Zenon DEF Sound
    <3> HIDE DEF rec
    <3> QED
      BY <2>2, <2>3, <2>4, <2>5, <3>1
  <2>7. Sound(r, now, Registered(r)')
    BY <2>1, <2>2, <2>5, <2>6, ZenonT(60) DEF Sound
  <2>8. InStep(now, cold'[TorrentOf[r]])
    <3> DEFINE t == TorrentOf[r]
    <3>1. /\ cold'[t] # None => cold[t] # None
          /\ cold[t] # None =>
               cold[t].age \in Nat /\ cold'[t].age \in Nat /\ cold'[t].age <= cold[t].age + 1
      BY <1>5, <2>1
    <3>2. rec.phase = "PeerWait" /\ cold[t] # None => rec.spent >= cold[t].age
      BY <2>1 DEF InStep
    <3> HIDE DEF t, rec
    <3>3. now.phase = "PeerWait" /\ cold'[t] # None => now.spent >= cold'[t].age
      BY <2>2, <2>4, <2>5, <3>1, <3>2
    <3> QED
      BY <3>3 DEF InStep, t
  <2>9. QED
    BY <2>1, <2>7, <2>8
<1>12. WaitersInv'
  BY <1>1, <1>2, <1>10, <1>11, ZenonT(60) DEF WaitersInv
<1>13. QueuesInv' /\ PolledInv' /\ loop' \in {"recv", "poll", "exited"}
  BY <1>1, <1>3, <1>10, StartPassKeeps
<1>14. InboxInv'
  BY <1>1, <1>2 DEF InboxInv
<1>15. EngineTypeOK' /\ swarm' \in [Torrents -> {"empty", "leechers", "seeds"}]
  BY <1>1, <1>2, <1>6, <1>8, <1>9, <1>13 DEF Typed, EngineTypeOK
<1>16. QED
  BY <1>1, <1>7, <1>12, <1>13, <1>14, <1>15 DEF EngineInv

-----------------------------------------------------------------------------
(* The callers, libtorrent and the cache.                                   *)

\* Nothing of the engine changes but perhaps its channel.
LEMMA OutsideKeeps ==
  ASSUME EngineInv, UNCHANGED <<caller, rd, loop, parked, todo, handles, readers, cold, sourceless>>,
         broken \subseteq broken',
         swarm' \in [Torrents -> {"empty", "leechers", "seeds"}],
         data' \in [Torrents -> [Pieces -> {"missing", "local", "stale"}]], InboxInv'
  PROVE  EngineInv'
<1>1. EngineTypeOK' /\ AnnouncedOnce'
  BY DEF EngineInv, EngineTypeOK, AnnouncedOnce
<1>2. Waiting' = Waiting
  BY DEF Waiting
<1>3. QueuesInv' /\ PolledInv'
  BY <1>2 DEF EngineInv, QueuesInv, PolledInv
<1>4. WaitersInv'
  <2>1. \A r \in Waiting : Registered(r) => Registered(r)'
    BY DEF Registered
  <2>2. \A r \in readers' : TorrentOf[r] \in handles'
    BY DEF EngineInv, WaitersInv
  <2>3. QED
    BY <2>1, <2>2, NoReadMoves
<1>5. QED
  BY <1>1, <1>3, <1>4 DEF EngineInv

\* A command at the end of the channel.
LEMMA InboxAppend ==
  ASSUME EngineInv, NEW cmd \in Commands, inbox' = Append(inbox, cmd),
         cmd.op = "read" => caller[cmd.read] # "sent" /\ caller'[cmd.read] = "sent",
         \A q \in Reads : caller[q] = "sent" => caller'[q] = "sent"
  PROVE  InboxInv'
<1> DEFINE new == Append(inbox, cmd)
<1>1. InboxInv
  BY InvIsTyped
<1>2. /\ inbox \in Seq(Commands) /\ Len(inbox) \in Nat
      /\ new \in Seq(Commands) /\ Len(new) = Len(inbox) + 1 /\ new[Len(inbox) + 1] = cmd
      /\ \A i \in 1..Len(inbox) : new[i] = inbox[i] /\ inbox[i] \in Commands
  BY <1>1 DEF InboxInv
<1> HIDE DEF new
<1>3. \A i \in 1..Len(new) : i \in 1..Len(inbox) \/ i = Len(inbox) + 1
  BY <1>2
<1>4. \A c \in Commands : c.op = "read" => c.read \in Reads
  BY DEF Commands
<1>5. \A i \in 1..Len(inbox) : inbox[i].op = "read" =>
        caller[inbox[i].read] = "sent" /\ caller'[inbox[i].read] = "sent"
  BY <1>1, <1>2, <1>4 DEF InboxInv
<1>6. \A i \in 1..Len(new) : new[i].op = "read" => caller'[new[i].read] = "sent"
  BY <1>2, <1>3, <1>5
<1>7. ASSUME NEW i \in 1..Len(new), NEW j \in 1..Len(new), new[i].op = "read",
             new[j].op = "read", new[i].read = new[j].read
      PROVE  i = j
  <2>1. CASE i \in 1..Len(inbox) /\ j \in 1..Len(inbox)
    BY <1>1, <1>2, <1>7, <2>1 DEF InboxInv
  <2>2. CASE i = Len(inbox) + 1 /\ j \in 1..Len(inbox)
    BY <1>2, <1>5, <1>7, <2>2
  <2>3. CASE i \in 1..Len(inbox) /\ j = Len(inbox) + 1
    BY <1>2, <1>5, <1>7, <2>3
  <2>4. CASE i = Len(inbox) + 1 /\ j = Len(inbox) + 1
    BY <2>4
  <2>5. QED
    BY <1>3, <2>1, <2>2, <2>3, <2>4
<1>8. inbox' = new
  BY DEF new
<1>9. QED
  BY <1>2, <1>6, <1>7, <1>8 DEF InboxInv

LEMMA SendKeeps ==
  ASSUME EngineInv, NEW r \in Reads, Send(r)
  PROVE  EngineInv' /\ \A q \in Reads : caller'[q] \in {caller[q], "sent", "error"}
<1>1. /\ caller[r] = "idle"
      /\ UNCHANGED <<rd, loop, parked, todo, handles, readers, cold, sourceless, swarm, data,
                    broken>>
  BY DEF Send, swarmVars
<1>2. /\ caller \in [Reads -> {"idle", "sent", "parked"} \cup Answers] /\ QueuesInv /\ InboxInv
      /\ WaitersInv /\ PolledInv
  BY DEF EngineInv, EngineTypeOK
<1>3. \/ /\ loop # "exited" /\ caller' = [caller EXCEPT ![r] = "sent"]
         /\ inbox' = Append(inbox, [op |-> "read", read |-> r])
      \/ loop = "exited" /\ caller' = [caller EXCEPT ![r] = "error"] /\ inbox' = inbox
  BY DEF Send
<1>4. /\ caller' \in [Reads -> {"idle", "sent", "parked"} \cup Answers]
      /\ \A q \in Reads : q # r => caller'[q] = caller[q]
      /\ caller'[r] \in {"sent", "error"} /\ (loop = "exited" => caller'[r] = "error")
  BY <1>2, <1>3, Zenon DEF Answers
<1>5. Waiting' = Waiting
  BY <1>1, <1>4 DEF Waiting
<1>6. InboxInv'
  <2>1. CASE loop # "exited"
    <3> DEFINE cmd == [op |-> "read", read |-> r]
    <3>1. cmd \in Commands /\ cmd.op = "read" /\ cmd.read = r
      BY DEF Commands
    <3>2. inbox' = Append(inbox, cmd) /\ caller'[r] = "sent"
      BY <1>2, <1>3, <2>1
    <3> HIDE DEF cmd
    <3>3. QED
      BY <1>1, <1>4, <3>1, <3>2, InboxAppend
  <2>2. CASE loop = "exited"
    <3>1. inbox' = inbox
      BY <1>3, <2>2
    <3>2. \A i \in 1..Len(inbox) : inbox[i].op = "read" => caller'[inbox[i].read] = "sent"
      <4>1. \A c \in Commands : c.op = "read" => c.read \in Reads
        BY DEF Commands
      <4>2. QED
        BY <1>1, <1>2, <1>4, <4>1 DEF InboxInv
    <3>3. QED
      BY <1>2, <3>1, <3>2 DEF InboxInv
  <2>3. QED
    BY <2>1, <2>2
<1>7. QueuesInv'
  <2>1. loop' = "exited" => \A q \in Reads : caller'[q] \notin {"sent", "parked"}
    BY <1>1, <1>2, <1>4 DEF QueuesInv
  <2>2. QED
    BY <1>1, <1>2, <1>5, <2>1 DEF QueuesInv
<1>8. WaitersInv' /\ PolledInv'
  BY <1>1, <1>2, <1>5, ZenonT(60) DEF WaitersInv, PolledInv, Registered
<1>9. EngineTypeOK' /\ AnnouncedOnce' /\ swarm' \in [Torrents -> {"empty", "leechers", "seeds"}]
  BY <1>1, <1>4 DEF EngineInv, EngineTypeOK, AnnouncedOnce
<1>10. QED
  BY <1>4, <1>6, <1>7, <1>8, <1>9 DEF EngineInv

LEMMA SendCommandKeeps ==
  ASSUME EngineInv, NEW cmd \in Commands, cmd.op # "read", SendCommand(cmd)
  PROVE  EngineInv' /\ caller' = caller
<1>1. /\ UNCHANGED <<caller, rd, loop, parked, todo, handles, readers, cold, sourceless, swarm, data,
                    broken>>
      /\ inbox' \in {inbox, Append(inbox, cmd)}
  BY DEF SendCommand, swarmVars
<1>2. InboxInv'
  <2>1. CASE inbox' = Append(inbox, cmd)
    BY <1>1, <2>1, InboxAppend
  <2>2. CASE inbox' = inbox
    BY <1>1, <2>2, Zenon DEF EngineInv, InboxInv
  <2>3. QED
    BY <1>1, <2>1, <2>2
<1>3. QED
  BY <1>1, <1>2, OutsideKeeps DEF EngineInv, EngineTypeOK

LEMMA CommandsKeep ==
  ASSUME EngineInv, RequestStop \/ \E t \in Torrents : Unlink(t) \/ AddAgain(t)
  PROVE  EngineInv' /\ caller' = caller
<1>1. CASE RequestStop
  <2>1. [op |-> "shutdown"] \in Commands /\ [op |-> "shutdown"].op # "read"
    BY DEF Commands
  <2>2. QED
    BY <1>1, <2>1, SendCommandKeeps DEF RequestStop
<1>2. ASSUME NEW t \in Torrents, Unlink(t) \/ AddAgain(t) PROVE EngineInv' /\ caller' = caller
  <2>1. /\ [op |-> "remove", torrent |-> t] \in Commands
        /\ [op |-> "ensure", torrent |-> t] \in Commands
    BY DEF Commands
  <2>2. QED
    BY <1>2, <2>1, SendCommandKeeps DEF Unlink, AddAgain
<1>3. QED
  BY <1>1, <1>2

LEMMA SwarmKeeps ==
  ASSUME EngineInv, NEW t \in Torrents,
         \/ SwarmChanges(t) \/ CheckStarts(t) \/ CheckEnds(t) \/ HandleFails(t)
         \/ \E p \in Pieces : PieceArrives(t, p) \/ EvictPiece(t, p)
  PROVE  EngineInv' /\ caller' = caller
<1>1. UNCHANGED engineVars
  BY DEF SwarmChanges, CheckStarts, CheckEnds, HandleFails, PieceArrives, EvictPiece
<1>2. /\ swarm \in [Torrents -> {"empty", "leechers", "seeds"}]
      /\ data \in [Torrents -> [Pieces -> {"missing", "local", "stale"}]]
  BY DEF EngineInv, EngineTypeOK
<1>3. swarm' \in [Torrents -> {"empty", "leechers", "seeds"}]
  BY <1>2, ZenonT(60) DEF SwarmChanges, CheckStarts, CheckEnds, HandleFails, PieceArrives, EvictPiece
<1>4. data' \in [Torrents -> [Pieces -> {"missing", "local", "stale"}]]
  <2>1. CASE data' = data
    BY <1>2, <2>1
  <2>2. CASE CheckEnds(t)
    BY <1>2, <2>2 DEF CheckEnds
  <2>3. ASSUME NEW p \in Pieces, PieceArrives(t, p) \/ EvictPiece(t, p)
        PROVE  data' \in [Torrents -> [Pieces -> {"missing", "local", "stale"}]]
    <3>1. PICK value \in {"local", "stale"} : data' = [data EXCEPT ![t][p] = value]
      BY <2>3 DEF PieceArrives, EvictPiece
    <3>2. [data[t] EXCEPT ![p] = value] \in [Pieces -> {"missing", "local", "stale"}]
      BY <1>2
    <3>3. QED
      BY <1>2, <3>1, <3>2
  <2>4. QED
    BY <2>1, <2>2, <2>3 DEF SwarmChanges, CheckStarts, HandleFails
<1>5. InboxInv'
  BY <1>1, ZenonT(60) DEF EngineInv, InboxInv, engineVars
<1>6. broken \subseteq broken'
  BY DEF SwarmChanges, CheckStarts, CheckEnds, HandleFails, PieceArrives, EvictPiece
<1>7. QED
  BY <1>1, <1>3, <1>4, <1>5, <1>6, OutsideKeeps DEF engineVars

LEMMA EngineStep ==
  ASSUME EngineInv, [EngineNext]_vars
  PROVE  EngineInv'
<1>1. CASE HandleCommand
  <2>1. /\ loop = "recv" /\ inbox # <<>> /\ inbox' = Tail(inbox) /\ swarm' = swarm
        /\ Head(inbox).op = "read" => start_read(Head(inbox).read) /\ broken' = broken
    BY <1>1, ZenonT(60) DEF HandleCommand
  <2>2. QED
    BY <1>1, <2>1, ReadCommandKeeps, HandleCommandsKeep
<1>2. CASE UNCHANGED vars
  <2>1. InboxInv'
    BY <1>2, Zenon DEF EngineInv, InboxInv, vars, engineVars
  <2>2. QED
    BY <1>2, <2>1, OutsideKeeps DEF EngineInv, EngineTypeOK, vars, engineVars, swarmVars
<1>3. QED
  BY <1>1, <1>2, PollReadStep, ExitKeeps, TimeoutKeeps, SendKeeps, CommandsKeep, SwarmKeeps
     DEF EngineNext

LEMMA EngineStart ==
  ASSUME EngineInit
  PROVE  EngineInv
<1>1. swarm \in [Torrents -> {"empty", "leechers", "seeds"}]
  BY DEF EngineInit
<1>2. rd \in [Reads -> PendingRead]
  BY <1>1, FreshFacts DEF EngineInit
<1>3. Waiting = {}
  BY DEF EngineInit, Waiting
<1>4. EngineTypeOK /\ AnnouncedOnce
  BY <1>2 DEF EngineInit, EngineTypeOK, AnnouncedOnce, Flights, Verdicts
<1>5. QueuesInv /\ InboxInv
  BY <1>3, EmptyFacts DEF EngineInit, QueuesInv, InboxInv
<1>6. WaitersInv /\ PolledInv
  BY <1>3, EmptyFacts DEF EngineInit, WaitersInv, PolledInv
<1>7. QED
  BY <1>1, <1>4, <1>5, <1>6 DEF EngineInv

LEMMA EngineInvariant == EngineSpec => []EngineInv
BY EngineStart, EngineStep, PTL DEF EngineSpec

-----------------------------------------------------------------------------
(* What the invariant says of the reads.                                    *)

LEMMA QueueHoldsWaiting ==
  ASSUME QueuesInv
  PROVE  Range(parked \o todo) = Waiting /\ Len(parked \o todo) = Cardinality(Waiting)
<1> DEFINE queue == parked \o todo
           m == Len(parked)
           n == Len(todo)
<1>1. /\ parked \in Seq(Reads) /\ todo \in Seq(Reads)
      /\ NoRepeats(parked) /\ NoRepeats(todo) /\ Range(parked) \cap Range(todo) = {}
      /\ Waiting = Range(parked) \cup Range(todo)
  BY DEF QueuesInv
<1>2. /\ m \in Nat /\ n \in Nat /\ Len(queue) = m + n /\ queue \in Seq(Reads)
      /\ DOMAIN parked = 1..m /\ DOMAIN todo = 1..n /\ DOMAIN queue = 1..(m + n)
  BY <1>1
<1>3. /\ \A k \in 1..m : queue[k] = parked[k] /\ queue[k] \in Range(parked)
      /\ \A k \in 1..(m + n) \ 1..m :
           k - m \in 1..n /\ queue[k] = todo[k - m] /\ queue[k] \in Range(todo)
  BY <1>1, <1>2, SMTT(30) DEF Range
<1>4. \A k \in 1..n : m + k \in 1..(m + n) /\ queue[m + k] = todo[k]
  BY <1>1, <1>2
<1>5. \A x \in Waiting : \E k \in 1..(m + n) : queue[k] = x
  <2>1. ASSUME NEW x \in Range(parked) PROVE \E k \in 1..(m + n) : queue[k] = x
    <3>1. PICK k \in 1..m : parked[k] = x
      BY <1>2 DEF Range
    <3>2. k \in 1..(m + n)
      BY <1>2
    <3>3. QED
      BY <1>3, <3>1, <3>2
  <2>2. ASSUME NEW x \in Range(todo) PROVE \E k \in 1..(m + n) : queue[k] = x
    <3>1. PICK k \in 1..n : todo[k] = x
      BY <1>2 DEF Range
    <3>2. QED
      BY <1>4, <3>1
  <2>3. QED
    BY <1>1, <2>1, <2>2
<1>6. \A k \in 1..(m + n) : queue[k] \in Waiting
  BY <1>1, <1>2, <1>3
<1>7. ASSUME NEW k \in 1..(m + n), NEW l \in 1..(m + n), queue[k] = queue[l]
      PROVE  k = l
  <2>1. CASE k \in 1..m /\ l \in 1..m
    BY <1>1, <1>3, <1>7, <2>1 DEF NoRepeats
  <2>2. CASE k \notin 1..m /\ l \notin 1..m
    <3>1. /\ k - m \in 1..n /\ l - m \in 1..n /\ todo[k - m] = todo[l - m]
      BY <1>3, <1>7, <2>2
    <3>2. k - m = l - m
      BY <1>1, <3>1 DEF NoRepeats
    <3>3. QED
      BY <1>2, <3>2
  <2>3. QED
    BY <1>1, <1>3, <1>7, <2>1, <2>2
<1> HIDE DEF queue, m, n
<1>8. Range(queue) = Waiting
  BY <1>2, <1>5, <1>6, SMTT(30) DEF Range
<1>9. queue \in [1..(m + n) -> Waiting]
  <2>1. queue = [k \in 1..(m + n) |-> queue[k]]
    BY <1>2
  <2>2. QED
    BY <1>6, <2>1
<1>10. queue \in Bijection(1..(m + n), Waiting)
  BY <1>2, <1>5, <1>7, <1>9 DEF Bijection, Injection, Surjection, IsInjective
<1>11. Cardinality(Waiting) = m + n
  BY <1>2, <1>10, FS_CountingElements DEF ExistsBijection
<1>12. QED
  BY <1>2, <1>8, <1>11 DEF queue

\* The engine's state keeps its types, the windows of every parked read bounded
\* by the configuration and the flights by their number of announces.
THEOREM EngineTypes == EngineSpec => []EngineTypeOK
<1>1. EngineInv => EngineTypeOK
  BY DEF EngineInv
<1>2. QED
  BY <1>1, EngineInvariant, PTL

\* pending_reads and the pass in progress hold exactly the calls that wait for
\* an answer, each once, and the loop answers everybody before it ends.
THEOREM ReadsParkedOnce == EngineSpec => []ParkedOnce
<1>1. ASSUME EngineInv PROVE ParkedOnce
  <2>1. QueuesInv
    BY <1>1 DEF EngineInv
  <2>2. loop = "exited" => \A r \in Reads : caller[r] \notin {"sent", "parked"}
    BY <2>1 DEF QueuesInv
  <2>3. QED
    BY <2>1, <2>2, QueueHoldsWaiting DEF ParkedOnce
<1>2. QED
  BY <1>1, EngineInvariant, PTL

\* The scheduler knows a reader exactly while its read is parked for the swarm on
\* a working handle: release_reader and remove_torrent leave none behind, and no
\* read waits for pieces that were not asked for.
THEOREM ReadersMatchParked == EngineSpec => []ReadersAreParked
<1>1. ASSUME EngineInv PROVE ReadersAreParked
  <2>1. readers \subseteq Waiting /\ \A r \in Waiting : Sound(r, rd[r], Registered(r))
    BY <1>1 DEF EngineInv, WaitersInv
  <2>2. ASSUME NEW r \in Waiting, rd[r].phase \in {"PeerWait", "PieceWait"},
               TorrentOf[r] \in handles \ broken
        PROVE  r \in readers
    <3>1. Registered(r)
      BY <2>1, <2>2 DEF Sound
    <3>2. QED
      BY <2>2, <3>1 DEF Registered
  <2>3. QED
    BY <2>1, <2>2 DEF ReadersAreParked
<1>2. QED
  BY <1>1, EngineInvariant, PTL

\* A read in the discovery window has waited at least as long as the flight it
\* shares: nobody is given a window of their own behind a running probe.
THEOREM ProbeIsShared == EngineSpec => []SharedProbe
<1>1. ASSUME EngineInv PROVE SharedProbe
  <2>1. \A r \in Waiting : InStep(rd[r], cold[TorrentOf[r]])
    BY <1>1 DEF EngineInv, WaitersInv
  <2>2. QED
    BY <2>1 DEF SharedProbe, InStep
<1>2. QED
  BY <1>1, EngineInvariant, PTL

\* read_wait_budget_secs with the margin of the FUSE deadline covers the settling,
\* the recheck, the discovery and both piece waits of a read, whatever the
\* configured windows: the engine answers before the dispatcher gives up.
THEOREM ReadsWithinBudget == EngineSpec => []WithinBudget
<1>1. ASSUME EngineInv PROVE WithinBudget
  <2>1. \A r \in Waiting : Sound(r, rd[r], Registered(r))
    BY <1>1 DEF EngineInv, WaitersInv
  <2>2. ASSUME NEW r \in Waiting, ~rd[r].rewaits PROVE rd[r].age < Overdue
    <3>1. /\ rd[r] \in PendingRead /\ rd[r].age <= Before(rd[r]) + rd[r].spent
          /\ rd[r].spent <= Window(rd[r])
      BY <2>1, <2>2 DEF Sound
    <3>2. rd[r].age \in Nat /\ rd[r].spent \in Nat /\ Overdue \in Nat
      BY <3>1, RecordFields, WindowFacts
    <3>3. /\ Before(rd[r]) \in Nat /\ Window(rd[r]) \in Nat
          /\ Before(rd[r]) + Window(rd[r]) < Overdue
      BY <3>1, BudgetFacts
    <3>4. QED
      BY <3>1, <3>2, <3>3
  <2>3. QED
    BY <2>2 DEF WithinBudget
<1>2. QED
  BY <1>1, EngineInvariant, PTL

-----------------------------------------------------------------------------
(* What one step may tell a read.                                           *)

Silent(r) ==
  \/ caller'[r] = caller[r]
  \/ caller'[r] \in {"sent", "error"}

Told(r) ==
  /\ ~rd[r].reader /\ ~Answered(r)
  /\ caller'[r] \in {"discovery window", "no seeder", "slow swarm"}
  =>
    /\ caller'[r] = "discovery window"
    /\ swarm[TorrentOf[r]] = "empty"
    /\ sourceless[TorrentOf[r]] # None
    /\ sourceless[TorrentOf[r]].age < peer_discovery_window_secs

LEMMA SilentTellsNothing ==
  ASSUME NEW r \in Reads, Silent(r)
  PROVE  Told(r)
BY Zenon DEF Silent, Told, Answered, Answers

LEMMA OneReadTold ==
  ASSUME NEW q \in Reads, OneRead(q)
  PROVE  \A r \in Reads : Told(r)
<1>1. Told(q)
  BY Zenon DEF OneRead, Spoken, Told
<1>2. ASSUME NEW r \in Reads, r # q PROVE Told(r)
  <2>1. Silent(r)
    BY <1>2 DEF OneRead, Others, Silent
  <2>2. QED
    BY <2>1, SilentTellsNothing
<1>3. QED
  BY <1>1, <1>2

LEMMA StepTells ==
  ASSUME EngineInv, [EngineNext]_vars
  PROVE  \A r \in Reads : Told(r)
<1>1. CASE PollRead
  BY <1>1, PollReadStep, OneReadTold
<1>2. CASE HandleCommand /\ Head(inbox).op = "read"
  <2>1. /\ loop = "recv" /\ inbox # <<>> /\ inbox' = Tail(inbox) /\ swarm' = swarm
        /\ start_read(Head(inbox).read) /\ broken' = broken
    BY <1>2 DEF HandleCommand
  <2>2. Head(inbox).read \in Reads /\ OneRead(Head(inbox).read)
    BY <1>2, <2>1, ReadCommandKeeps
  <2>3. QED
    BY <2>2, OneReadTold
<1>3. ASSUME ~PollRead, ~(HandleCommand /\ Head(inbox).op = "read")
      PROVE  \A r \in Reads : Silent(r)
  <2>1. CASE UNCHANGED vars
    BY <2>1 DEF vars, engineVars, Silent
  <2>2. CASE Exit
    BY <2>2, ExitKeeps DEF Silent
  <2>3. CASE \E q \in Reads : Send(q)
    BY <2>3, SendKeeps DEF Silent
  <2>4. CASE HandleCommand
    BY <1>3, <2>4, HandleCommandsKeep DEF Silent
  <2>5. QED
    BY <1>3, <2>1, <2>2, <2>3, <2>4, TimeoutKeeps, CommandsKeep, SwarmKeeps DEF EngineNext, Silent
<1>4. QED
  BY <1>1, <1>2, <1>3, SilentTellsNothing

\* begin_waiting never fails a read on an old verdict alone: a read that did not
\* wait for the swarm is turned away only when the swarm is empty in that very
\* step and the probe gave up less than one window ago.
THEOREM VerdictsSpeak == EngineSpec => VerdictSpeaksForSwarm
<1>1. EngineInv /\ [EngineNext]_vars => [\A r \in Reads :
       /\ ~rd[r].reader /\ ~Answered(r)
       /\ caller'[r] \in {"discovery window", "no seeder", "slow swarm"}
       =>
         /\ caller'[r] = "discovery window"
         /\ swarm[TorrentOf[r]] = "empty"
         /\ sourceless[TorrentOf[r]] # None
         /\ sourceless[TorrentOf[r]].age < peer_discovery_window_secs]_vars
  BY StepTells, Zenon DEF Told
<1>2. QED
  BY <1>1, EngineInvariant, PTL DEF EngineSpec, VerdictSpeaksForSwarm

=============================================================================
