---------------------------- MODULE PieceScheduler ----------------------------
(***************************************************************************)
(* The piece control plane (piece_scheduler.rs), for one torrent of one    *)
(* file: which pieces libtorrent is asked for.  The operations are         *)
(* functions on the scheduler's record, which also holds the priorities    *)
(* libtorrent itself was last given, so that the two can be told apart.    *)
(***************************************************************************)
EXTENDS Integers, Sequences, FiniteSetsExt, Functions

CONSTANTS
  NumPieces, PieceLength,
  FileSize,                      \* bytes
  Reads, OffsetOf, SizeOf,       \* what each read asks for, in bytes
  CacheCapacity,                 \* bytes
  piece_priority,                \* [piece_priority]: the fields the configuration sets
  DEFAULT_PRIORITIES,            \* PiecePriorityConfig::default, its window in bytes
  LIBTORRENT_DEFAULT             \* what a recheck resets every priority to

ASSUME SchedulerAssumption ==
  /\ {NumPieces, PieceLength, FileSize} \subseteq Nat \ {0}
  /\ FileSize <= NumPieces * PieceLength
  /\ OffsetOf \in [Reads -> 0..(FileSize - 1)] /\ SizeOf \in [Reads -> Nat \ {0}]
  /\ {CacheCapacity, LIBTORRENT_DEFAULT} \subseteq Nat
  /\ DOMAIN DEFAULT_PRIORITIES = {"access_window", "current_priority", "step_priorities",
                                 "window_edge_priority", "rest_priority"}
  /\ DOMAIN piece_priority \subseteq DOMAIN DEFAULT_PRIORITIES
  /\ \A c \in {piece_priority, DEFAULT_PRIORITIES} : \A f \in DOMAIN c :
       IF f = "step_priorities" THEN c[f] \in Seq(Nat) ELSE c[f] \in Nat

Pieces == 0..(NumPieces - 1)

\* A priority for every piece.
Vectors == [Pieces -> Nat]
NothingWanted == [p \in Pieces |-> 0]
None == <<>>

-----------------------------------------------------------------------------
(* The gradient of a read.                                                  *)

\* from_toml: a field the configuration does not set has its default.
Config ==
  [f \in DOMAIN DEFAULT_PRIORITIES |->
     IF f \in DOMAIN piece_priority THEN piece_priority[f] ELSE DEFAULT_PRIORITIES[f]]

\* One piece of the cache is kept for the piece being served.
effective_window_pieces(window, capacity, length) ==
  Min({window, Max({capacity - length, 0})}) \div length

decide_priority(p, start, end, window) ==
  CASE p < start -> 0
    [] p \in start..end -> Config.current_priority
    [] p > end /\ p - end > window -> Config.rest_priority
    [] p > end /\ p - end <= window ->
         IF p - end <= Len(Config.step_priorities) THEN Config.step_priorities[p - end]
         ELSE Config.window_edge_priority

\* The pieces a read covers, cut at the end of the file.
RangeOf ==
  [r \in Reads |-> (OffsetOf[r] \div PieceLength)
                     ..((Min({OffsetOf[r] + SizeOf[r], FileSize}) - 1) \div PieceLength)]

gradient_for ==
  LET window == effective_window_pieces(Config.access_window, CacheCapacity, PieceLength)
      last == (FileSize - 1) \div PieceLength
  IN [r \in Reads |-> [p \in Pieces |->
        IF p > last THEN 0
        ELSE decide_priority(p, Min(RangeOf[r]), Max(RangeOf[r]), window)]]

-----------------------------------------------------------------------------
(* The scheduler's record: known (the torrent has an entry), elevated,      *)
(* readers, prefetch, dirty; and asked, libtorrent's own vector.            *)

\* remove_torrent
Unknown ==
  [known |-> FALSE, elevated |-> NothingWanted, readers |-> {}, prefetch |-> None,
   dirty |-> FALSE, asked |-> NothingWanted]

\* init_torrent, and the bulk write of zeroes that ensure_handle adds to it.
init_torrent(s) ==
  [s EXCEPT !.known = TRUE, !.elevated = NothingWanted, !.prefetch = None,
            !.dirty = FALSE, !.asked = NothingWanted]

\* The maximum over the readers, or else the retained window, or else nothing.
resolve_target(readers, prefetch) ==
  IF readers # {} THEN [p \in Pieces |-> Max({gradient_for[r][p] : r \in readers})]
  ELSE prefetch

\* Mutant: the flag a recheck left is dropped without the full rewrite.
RecomputeChangedOnly(s, complete) ==
  LET target == resolve_target(s.readers, s.prefetch)
      new == [p \in Pieces |-> IF p \in complete THEN 0 ELSE target[p]]
  IN IF ~s.known THEN s
     ELSE IF target = None
     THEN [s EXCEPT !.elevated = NothingWanted, !.asked = NothingWanted, !.dirty = FALSE]
     ELSE [s EXCEPT !.elevated = new, !.dirty = FALSE,
             !.asked = [p \in Pieces |-> IF s.elevated[p] # new[p] THEN new[p] ELSE @[p]]]

recompute(s, complete) ==
  LET target == resolve_target(s.readers, s.prefetch)
      new == [p \in Pieces |-> IF p \in complete THEN 0 ELSE target[p]]
  IN IF ~s.known THEN s
     ELSE IF target = None
     THEN [s EXCEPT !.elevated = NothingWanted, !.asked = NothingWanted, !.dirty = FALSE]
     ELSE [s EXCEPT !.elevated = new, !.dirty = FALSE,
             !.asked = [p \in Pieces |-> IF s.dirty \/ s.elevated[p] # new[p]
                                         THEN new[p] ELSE @[p]]]

reader_added(s, r, complete) ==
  recompute([s EXCEPT !.readers = @ \cup {r}], complete)

\* The last reader leaves its window behind, less the pieces already cached.
reader_released(s, r, complete) ==
  LET left == s.readers \ {r}
      window == [p \in Pieces |-> IF p \in complete THEN 0 ELSE gradient_for[r][p]]
      kept == IF left # {} \/ r \notin s.readers THEN s.prefetch
              ELSE IF window = NothingWanted THEN None ELSE window
  IN recompute([s EXCEPT !.readers = left, !.prefetch = kept], complete)

\* The window without the finished pieces, dropped once it is all zero.
clear_ready_piece(prefetch, ready) ==
  LET left == [p \in Pieces |-> IF p \in ready THEN 0 ELSE prefetch[p]]
  IN IF prefetch = None \/ left = NothingWanted THEN None ELSE left

\* For each of the pieces in `ready`: no order of them matters.
piece_ready(s, ready) ==
  [s EXCEPT !.asked = [p \in Pieces |-> IF p \in ready /\ s.elevated[p] # 0 THEN 0 ELSE @[p]],
            !.elevated = [p \in Pieces |-> IF p \in ready THEN 0 ELSE @[p]],
            !.prefetch = clear_ready_piece(@, ready)]

mark_priorities_dirty(s) == [s EXCEPT !.dirty = @ \/ s.known]

\* External: force_recheck resets libtorrent's own priorities.
ForceRecheck(s) == [s EXCEPT !.asked = [p \in Pieces |-> LIBTORRENT_DEFAULT]]

=============================================================================
