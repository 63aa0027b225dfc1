--------------------------- MODULE MCPendingReplies ---------------------------
(* Model of PendingReplies for TLC: two torrents with the same content, so   *)
(* that r1 and r2 coalesce, a second range, one worker and one slot each.    *)
EXTENDS PendingReplies
MCRangeOf == [r1 |-> "a", r2 |-> "a", r3 |-> "b"]
MCTorrentOf == [r1 |-> 1, r2 |-> 2, r3 |-> 2]
=============================================================================
