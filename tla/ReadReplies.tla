------------------------------ MODULE ReadReplies ------------------------------
(***************************************************************************)
(* What the FUSE front end promises the kernel: every read it has taken is *)
(* answered, once, with the bytes of the range that was asked for or with  *)
(* an error.                                                               *)
(***************************************************************************)
CONSTANTS Reads,    \* read requests
          Errnos,   \* error answers
          RangeOf   \* read -> the byte range it asks for

VARIABLES taken,    \* the reads the dispatcher has taken off /dev/fuse
          replies   \* read -> its answer, or NoReply

NoReply == <<"none", "">>

Answers(r) == {<<"data", RangeOf[r]>>} \cup {<<"errno", e>> : e \in Errnos}

Init == taken = {} /\ replies = [r \in Reads |-> NoReply]

Take(r) ==
  /\ r \notin taken
  /\ taken' = taken \cup {r}
  /\ replies' = replies

\* The waiters of one download, or the overdue ones, are answered together.
Answer(rs) ==
  /\ rs \subseteq taken
  /\ \A r \in rs : replies[r] = NoReply /\ replies'[r] \in Answers(r)
  /\ replies' = [r \in Reads |-> IF r \in rs THEN replies'[r] ELSE replies[r]]
  /\ taken' = taken

Next == (\E r \in Reads : Take(r)) \/ (\E rs \in SUBSET Reads : Answer(rs))

EveryReadAnswered == \A r \in Reads : (r \in taken) ~> (replies[r] # NoReply)

Safety == Init /\ [][Next]_<<taken, replies>>

Spec == Safety /\ EveryReadAnswered
=============================================================================
