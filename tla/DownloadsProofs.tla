--------------------------- MODULE DownloadsProofs ---------------------------
(***************************************************************************)
(* libtorrent is asked for what the reads want, for every file, piece      *)
(* length, cache size, set of reads and configured priorities: first what  *)
(* the scheduler's operators compute (PieceScheduler), then the inductive  *)
(* invariant, then one lemma per action of Downloads.                      *)
(***************************************************************************)
EXTENDS Downloads, FiniteSetTheorems, TLAPS

-----------------------------------------------------------------------------
(* Numbers.                                                                 *)

\* A finite set of numbers has a largest one.
LEMMA LargestExists ==
  ASSUME NEW S \in SUBSET Nat, S # {}, IsFiniteSet(S)
  PROVE  \E m \in S : \A x \in S : m >= x
<1> DEFINE Bad == {T \in FiniteSubsetsOf(S) : T # {} /\ ~\E m \in T : \A x \in T : m >= x}
<1>1. SUFFICES ASSUME Bad # {} PROVE FALSE
  BY <1>1 DEF FiniteSubsetsOf
<1>2. PICK T \in Bad : \A U \in Bad : ~(<<U, T>> \in StrictSubsetOrdering(S))
  <2>1. IsWellFoundedOn(StrictSubsetOrdering(S), FiniteSubsetsOf(S))
    BY FS_StrictSubsetOrderingWellFounded
  <2>2. Bad \subseteq FiniteSubsetsOf(S)
    OBVIOUS
  <2> HIDE DEF Bad
  <2>3. QED
    BY <1>1, <2>1, <2>2, WFMin
<1>3. PICK x \in T : TRUE
  OBVIOUS
<1>4. T \ {x} \notin Bad /\ T \ {x} \in FiniteSubsetsOf(S)
  <2>1. T \ {x} \in FiniteSubsetsOf(S)
    BY FS_Subset DEF FiniteSubsetsOf
  <2>2. <<T \ {x}, T>> \in StrictSubsetOrdering(S)
    BY <2>1, Zenon DEF StrictSubsetOrdering, FiniteSubsetsOf
  <2>3. QED
    BY <1>2, <2>1, <2>2, Zenon
<1>5. T \subseteq Nat
  BY DEF FiniteSubsetsOf
<1>6. CASE T \ {x} = {}
  BY <1>3, <1>5, <1>6
<1>7. CASE T \ {x} # {}
  <2>1. PICK m \in T \ {x} : \A y \in T \ {x} : m >= y
    BY <1>4, <1>7
  <2>2. m \in Nat /\ x \in Nat
    BY <1>5
  <2>3. CASE m >= x
    BY <1>5, <2>1, <2>2, <2>3
  <2>4. CASE x >= m
    BY <1>5, <2>1, <2>2, <2>4
  <2>5. QED
    BY <2>2, <2>3, <2>4
<1>8. QED
  BY <1>6, <1>7

LEMMA MaxIs ==
  ASSUME NEW S \in SUBSET Int, NEW m \in S, \A x \in S : m >= x
  PROVE  Max(S) = m
<1>1. \E y \in S : \A x \in S : y >= x
  OBVIOUS
<1>2. Max(S) \in S /\ \A x \in S : Max(S) >= x
  BY <1>1, Zenon DEF Max
<1>3. Max(S) \in Int /\ m \in Int /\ Max(S) >= m /\ m >= Max(S)
  BY <1>2, Zenon
<1>4. QED
  BY <1>3

LEMMA MinIs ==
  ASSUME NEW S \in SUBSET Int, NEW m \in S, \A x \in S : m <= x
  PROVE  Min(S) = m
<1>1. \E y \in S : \A x \in S : y =< x
  OBVIOUS
<1>2. Min(S) \in S /\ \A x \in S : Min(S) =< x
  BY <1>1, Zenon DEF Min
<1>3. Min(S) \in Int /\ m \in Int /\ Min(S) <= m /\ m <= Min(S)
  BY <1>2, Zenon
<1>4. QED
  BY <1>3

LEMMA DivOrder ==
  ASSUME NEW a \in Nat, NEW b \in Nat, NEW n \in Nat \ {0}, a <= b
  PROVE  a \div n \in Nat /\ b \div n \in Nat /\ a \div n <= b \div n
<1>1. /\ a \div n \in Int /\ b \div n \in Int /\ a % n \in 0..(n-1) /\ b % n \in 0..(n-1)
      /\ a = n * (a \div n) + (a % n) /\ b = n * (b \div n) + (b % n)
  OBVIOUS
<1> DEFINE x == a \div n
           y == b \div n
<1>2. x \in Int /\ y \in Int /\ n * x <= a /\ a < n * (x + 1) /\ n * y <= b /\ b < n * (y + 1)
  BY <1>1
<1> HIDE DEF x, y
<1>3. x >= 0 /\ y >= 0
  BY <1>2
<1>4. x <= y
  <2>1. SUFFICES ASSUME x >= y + 1 PROVE FALSE
    BY <1>2
  <2>2. n * x >= n * (y + 1)
    BY <1>2, <2>1
  <2>3. QED
    BY <1>2, <2>2
<1>5. QED
  BY <1>2, <1>3, <1>4 DEF x, y

\* n times fits at most m - 1 times into less than m * n.
LEMMA DivBound ==
  ASSUME NEW a \in Nat, NEW n \in Nat \ {0}, NEW m \in Nat, a < m * n
  PROVE  a \div n < m
<1>1. a \div n \in Int /\ a % n \in 0..(n-1) /\ a = n * (a \div n) + (a % n)
  OBVIOUS
<1> DEFINE x == a \div n
<1>2. x \in Int /\ n * x <= a
  BY <1>1
<1> HIDE DEF x
<1>3. SUFFICES ASSUME x >= m PROVE FALSE
  BY <1>2 DEF x
<1>4. n * x >= n * m
  BY <1>2, <1>3
<1>5. QED
  BY <1>2, <1>4

-----------------------------------------------------------------------------
(* The inductive invariant.  The property speaks of a torrent at rest; the  *)
(* recorded priorities have to be right while files are checked as well,    *)
(* when the bits are about to become those of the disk.                     *)

Phases == {"idle", "recheck", "waiting", "done"}

Scheduler ==
  [known : BOOLEAN, elevated : Vectors, readers : SUBSET Reads, prefetch : Vectors \cup {None},
   dirty : BOOLEAN, asked : Vectors]

\* What the readers want, or else the retained window, or else nothing.
Wanted(s) ==
  LET target == resolve_target(s.readers, s.prefetch)
  IN IF target = None THEN NothingWanted ELSE target

\* The retained window holds no cached piece, and without readers the recorded
\* priorities are that window.
SchedulerInv(s, cached) ==
  /\ s \in Scheduler /\ IsFiniteSet(s.readers)
  /\ ~s.known => s = Unknown
  /\ s.readers = {} => s.elevated = Wanted(s)
  /\ s.prefetch # None => \A p \in cached : s.prefetch[p] = 0

\* Pieces the engine has a reason not to ask for; while files are checked the
\* bits are about to become those of the disk.
Excused == missed \cup (IF checking THEN disk ELSE have)

NoRecheck == \A r \in Reads : reading[r] # "recheck"

\* No reset of libtorrent's priorities is left to undo.
Steady == engine = "up" /\ sched.known /\ ~sched.dirty /\ NoRecheck

Follows(s, excused) ==
  /\ s.asked = s.elevated
  /\ \A p \in Pieces : s.elevated[p] = Wanted(s)[p] \/ (s.elevated[p] = 0 /\ p \in excused)

DiskInv ==
  /\ have \subseteq Pieces /\ disk \subseteq Pieces /\ complete \subseteq disk
  /\ checking \in BOOLEAN
  /\ sched.known /\ ~checking => disk \subseteq have
  /\ posted \cup channel \subseteq Pieces \cap (disk \cup missed)

ReadsInv ==
  /\ reading \in [Reads -> Phases]
  /\ \A r \in Reads : reading[r] \in {"recheck", "waiting"} => sched.known /\ engine = "up"

DownloadsInv ==
  /\ SchedulerInv(sched, complete)
  /\ DiskInv
  /\ ReadsInv
  /\ Steady => Follows(sched, Excused)

-----------------------------------------------------------------------------
(* The scheduler's operators.                                               *)

LEMMA RangeFacts ==
  ASSUME NEW r \in Reads
  PROVE  \E a, b \in Nat : /\ RangeOf[r] = a..b /\ a <= b
                           /\ b <= (FileSize - 1) \div PieceLength
                           /\ (FileSize - 1) \div PieceLength < NumPieces
<1> DEFINE o == OffsetOf[r]
           end == Min({o + SizeOf[r], FileSize})
<1>1. /\ NumPieces \in Nat \ {0} /\ PieceLength \in Nat \ {0} /\ FileSize \in Nat \ {0}
      /\ FileSize <= NumPieces * PieceLength
  BY SchedulerAssumption
<1>2. o \in 0..(FileSize - 1) /\ SizeOf[r] \in Nat \ {0}
  BY SchedulerAssumption
<1>3. o \in Nat /\ o + SizeOf[r] \in Int /\ FileSize \in Int /\ FileSize - 1 \in Nat
  BY <1>1, <1>2
<1>4. end \in {o + SizeOf[r], FileSize} /\ end <= FileSize
  <2>1. CASE o + SizeOf[r] <= FileSize
    <3>1. end = o + SizeOf[r]
      BY <1>3, <2>1, MinIs, SMTT(30)
    <3>2. QED
      BY <2>1, <3>1
  <2>2. CASE FileSize <= o + SizeOf[r]
    <3>1. end = FileSize
      BY <1>3, <2>2, MinIs, SMTT(30)
    <3>2. QED
      BY <1>3, <3>1
  <2>3. QED
    BY <1>3, <2>1, <2>2
<1>5. RangeOf[r] = (o \div PieceLength)..((end - 1) \div PieceLength)
  BY DEF RangeOf
<1> HIDE DEF o, end
<1>6. end - 1 \in Nat /\ o <= end - 1 /\ end - 1 <= FileSize - 1
  BY <1>2, <1>3, <1>4
<1>7. /\ o \div PieceLength \in Nat /\ (end - 1) \div PieceLength \in Nat
      /\ o \div PieceLength <= (end - 1) \div PieceLength
      /\ (end - 1) \div PieceLength <= (FileSize - 1) \div PieceLength
  BY <1>1, <1>3, <1>6, DivOrder
<1>8. FileSize - 1 < NumPieces * PieceLength
  <2>1. NumPieces * PieceLength \in Int
    BY <1>1
  <2>2. QED
    BY <1>1, <1>3, <2>1
<1>9. (FileSize - 1) \div PieceLength < NumPieces
  BY <1>1, <1>3, <1>8, DivBound
<1>10. QED
  BY <1>5, <1>7, <1>9

LEMMA RangeIsPieces ==
  ASSUME NEW r \in Reads
  PROVE  RangeOf[r] \subseteq Pieces
<1>1. PICK a, b \in Nat : /\ RangeOf[r] = a..b /\ a <= b
                          /\ b <= (FileSize - 1) \div PieceLength
                          /\ (FileSize - 1) \div PieceLength < NumPieces
  BY RangeFacts
<1>2. NumPieces \in Nat /\ (FileSize - 1) \div PieceLength \in Int
  BY SchedulerAssumption
<1>3. QED
  BY <1>1, <1>2 DEF Pieces

LEMMA ConfigFacts ==
  /\ Config.current_priority \in Nat /\ Config.rest_priority \in Nat
  /\ Config.window_edge_priority \in Nat /\ Config.access_window \in Nat
  /\ Config.step_priorities \in Seq(Nat)
<1>1. \A f \in DOMAIN DEFAULT_PRIORITIES :
        IF f = "step_priorities" THEN Config[f] \in Seq(Nat) ELSE Config[f] \in Nat
  BY SchedulerAssumption DEF Config
<1>2. QED
  BY <1>1, SchedulerAssumption

LEMMA WindowFacts ==
  effective_window_pieces(Config.access_window, CacheCapacity, PieceLength) \in Nat
<1> DEFINE room == Max({CacheCapacity - PieceLength, 0})
           bytes == Min({Config.access_window, room})
<1>1. PieceLength \in Nat \ {0} /\ CacheCapacity \in Nat /\ Config.access_window \in Nat
  BY SchedulerAssumption, ConfigFacts
<1>2. room \in Nat
  <2>1. CASE CacheCapacity - PieceLength >= 0
    BY <1>1, <2>1, MaxIs
  <2>2. CASE 0 >= CacheCapacity - PieceLength
    BY <1>1, <2>2, MaxIs
  <2>3. QED
    BY <1>1, <2>1, <2>2
<1> HIDE DEF room
<1>3. bytes \in Nat
  <2>1. CASE Config.access_window <= room
    BY <1>1, <1>2, <2>1, MinIs
  <2>2. CASE room <= Config.access_window
    BY <1>1, <1>2, <2>2, MinIs
  <2>3. QED
    BY <1>1, <1>2, <2>1, <2>2
<1> HIDE DEF bytes
<1>4. bytes <= bytes
  BY <1>3
<1>5. bytes \div PieceLength \in Nat
  BY <1>1, <1>3, <1>4, DivOrder
<1>6. QED
  BY <1>5 DEF effective_window_pieces, bytes, room

\* Every piece has a priority, and those a read covers the current one's.
LEMMA GradientFacts ==
  ASSUME NEW r \in Reads
  PROVE  /\ gradient_for[r] \in Vectors
         /\ \A p \in RangeOf[r] : gradient_for[r][p] = Config.current_priority
<1> DEFINE window == effective_window_pieces(Config.access_window, CacheCapacity, PieceLength)
           last == (FileSize - 1) \div PieceLength
<1>1. PICK a, b \in Nat : RangeOf[r] = a..b /\ a <= b /\ b <= last /\ last < NumPieces
  BY RangeFacts
<1>2. Min(RangeOf[r]) = a /\ Max(RangeOf[r]) = b
  <2>1. /\ a..b \in SUBSET Int /\ a \in a..b /\ b \in a..b
        /\ \A x \in a..b : a <= x /\ b >= x
    BY <1>1
  <2>2. Min(a..b) = a /\ Max(a..b) = b
    BY <2>1, MinIs, MaxIs, Zenon
  <2>3. QED
    BY <1>1, <2>2
<1>3. gradient_for[r] = [p \in Pieces |-> IF p > last THEN 0 ELSE decide_priority(p, a, b, window)]
  BY <1>2 DEF gradient_for
<1>4. window \in Nat
  BY WindowFacts
<1>5. last \in Int
  BY SchedulerAssumption
<1> HIDE DEF window, last
<1>6. ASSUME NEW p \in Pieces PROVE decide_priority(p, a, b, window) \in Nat
  <2>1. p \in Nat
    BY <1>6 DEF Pieces
  <2>2. CASE p < a
    BY <1>1, <1>4, <2>1, <2>2 DEF decide_priority
  <2>3. CASE p \in a..b
    BY <1>1, <1>4, <2>1, <2>3, ConfigFacts DEF decide_priority
  <2>4. CASE p > b /\ p - b > window
    BY <1>1, <1>4, <2>1, <2>4, ConfigFacts DEF decide_priority
  <2>5. CASE p > b /\ p - b <= window
    <3>1. decide_priority(p, a, b, window)
            = IF p - b <= Len(Config.step_priorities) THEN Config.step_priorities[p - b]
              ELSE Config.window_edge_priority
      BY <1>1, <1>4, <2>1, <2>5 DEF decide_priority
    <3>2. CASE p - b <= Len(Config.step_priorities)
      <4>1. p - b \in 1..Len(Config.step_priorities)
        BY <2>1, <2>5, <3>2, ConfigFacts
      <4>2. QED
        BY <3>1, <3>2, <4>1, ConfigFacts, SMTT(30)
    <3>3. QED
      BY <3>1, <3>2, ConfigFacts
  <2>6. QED
    BY <1>1, <1>4, <2>1, <2>2, <2>3, <2>4, <2>5
<1>7. ASSUME NEW p \in RangeOf[r]
      PROVE  /\ p \in Pieces /\ ~(p > last)
             /\ decide_priority(p, a, b, window) = Config.current_priority
  <2>1. p \in Pieces /\ p \in a..b /\ ~(p > last) /\ ~(p < a)
    BY <1>1, <1>5, <1>7, RangeIsPieces
  <2>2. QED
    BY <1>1, <2>1 DEF decide_priority
<1>8. gradient_for[r] \in Vectors
  BY <1>3, <1>6 DEF Vectors
<1>9. QED
  BY <1>3, <1>7, <1>8

LEMMA NoneIsNoVector == None \notin Vectors /\ NothingWanted \in Vectors
<1>1. 0 \in Pieces
  BY SchedulerAssumption DEF Pieces
<1>2. DOMAIN None = {}
  BY DEF None
<1>3. \A v \in Vectors : 0 \in DOMAIN v
  BY <1>1 DEF Vectors
<1>4. NothingWanted \in Vectors
  BY DEF NothingWanted, Vectors
<1>5. QED
  BY <1>2, <1>3, <1>4

\* The maximum over the readers is one of their priorities, and no less than any.
LEMMA TargetFacts ==
  ASSUME NEW readers \in SUBSET Reads, readers # {}, IsFiniteSet(readers), NEW prefetch
  PROVE  /\ resolve_target(readers, prefetch) \in Vectors
         /\ \A r \in readers, p \in Pieces :
              resolve_target(readers, prefetch)[p] >= gradient_for[r][p]
<1> DEFINE Of(p) == {gradient_for[r][p] : r \in readers}
<1>1. resolve_target(readers, prefetch) = [p \in Pieces |-> Max(Of(p))]
  BY DEF resolve_target
<1>2. ASSUME NEW p \in Pieces
      PROVE  Max(Of(p)) \in Nat /\ \A r \in readers : Max(Of(p)) >= gradient_for[r][p]
  <2>1. Of(p) \in SUBSET Nat /\ Of(p) \in SUBSET Int /\ Of(p) # {}
    BY <1>2, GradientFacts DEF Vectors
  <2>2. IsFiniteSet(Of(p))
    <3>1. [r \in readers |-> gradient_for[r][p]] \in Surjection(readers, Of(p))
      BY DEF Surjection
    <3>2. QED
      BY <3>1, FS_Surjection
  <2>3. PICK m \in Of(p) : \A x \in Of(p) : m >= x
    BY <2>1, <2>2, LargestExists, Zenon
  <2>4. Max(Of(p)) = m
    BY <2>1, <2>3, MaxIs, Zenon
  <2>5. QED
    BY <2>1, <2>3, <2>4, Zenon
<1> HIDE DEF Of
<1>3. QED
  BY <1>1, <1>2 DEF Vectors

LEMMA SchedulerFields ==
  ASSUME NEW s \in Scheduler
  PROVE  /\ s.known \in BOOLEAN /\ s.dirty \in BOOLEAN
         /\ s.elevated \in Vectors /\ s.asked \in Vectors
         /\ s.readers \subseteq Reads /\ s.prefetch \in Vectors \cup {None}
         /\ s = [known |-> s.known, elevated |-> s.elevated, readers |-> s.readers,
                 prefetch |-> s.prefetch, dirty |-> s.dirty, asked |-> s.asked]
BY DEF Scheduler

LEMMA WantedFacts ==
  ASSUME NEW s \in Scheduler, IsFiniteSet(s.readers)
  PROVE  /\ Wanted(s) \in Vectors
         /\ s.readers = {} /\ s.prefetch = None => Wanted(s) = NothingWanted
         /\ s.readers = {} /\ s.prefetch # None => Wanted(s) = s.prefetch
         /\ \A r \in s.readers : \A p \in RangeOf[r] : Wanted(s)[p] >= Config.current_priority
<1>1. s.readers \in SUBSET Reads /\ s.prefetch \in Vectors \cup {None}
  BY SchedulerFields
<1>2. CASE s.readers = {}
  <2>1. resolve_target(s.readers, s.prefetch) = s.prefetch
    BY <1>2 DEF resolve_target
  <2>2. QED
    BY <1>1, <1>2, <2>1, NoneIsNoVector DEF Wanted
<1>3. CASE s.readers # {}
  <2>1. /\ resolve_target(s.readers, s.prefetch) \in Vectors
        /\ \A r \in s.readers, p \in Pieces :
             resolve_target(s.readers, s.prefetch)[p] >= gradient_for[r][p]
    BY <1>1, <1>3, TargetFacts
  <2>2. Wanted(s) = resolve_target(s.readers, s.prefetch)
    BY <2>1, NoneIsNoVector DEF Wanted
  <2>3. ASSUME NEW r \in s.readers, NEW p \in RangeOf[r] PROVE Wanted(s)[p] >= Config.current_priority
    <3>1. r \in Reads
      BY <1>1
    <3>2. p \in Pieces /\ gradient_for[r][p] = Config.current_priority
      BY <3>1, RangeIsPieces, GradientFacts
    <3>3. QED
      BY <2>1, <2>2, <3>2
  <2>4. QED
    BY <1>3, <2>1, <2>2, <2>3
<1>4. QED
  BY <1>2, <1>3

\* What recompute leaves of a known torrent.
LEMMA RecomputeFacts ==
  ASSUME NEW s \in Scheduler, IsFiniteSet(s.readers), s.known, NEW cached
  PROVE  LET t == recompute(s, cached)
         IN /\ t \in Scheduler /\ t.known /\ ~t.dirty
            /\ t.readers = s.readers /\ t.prefetch = s.prefetch
            /\ t.elevated = [p \in Pieces |-> IF p \in cached THEN 0 ELSE Wanted(s)[p]]
            /\ s.dirty \/ s.asked = s.elevated => t.asked = t.elevated
<1> DEFINE t == recompute(s, cached)
           target == resolve_target(s.readers, s.prefetch)
           new == [p \in Pieces |-> IF p \in cached THEN 0 ELSE target[p]]
           asked == [p \in Pieces |-> IF s.dirty \/ s.elevated[p] # new[p] THEN new[p] ELSE s.asked[p]]
<1>1. /\ s.elevated \in Vectors /\ s.asked \in Vectors /\ s.dirty \in BOOLEAN
      /\ s = [known |-> s.known, elevated |-> s.elevated, readers |-> s.readers,
              prefetch |-> s.prefetch, dirty |-> s.dirty, asked |-> s.asked]
  BY SchedulerFields
<1>2. CASE target = None
  <2>1. Wanted(s) = NothingWanted
    BY <1>2 DEF Wanted
  <2>2. t = [s EXCEPT !.elevated = NothingWanted, !.asked = NothingWanted, !.dirty = FALSE]
    BY <1>2 DEF recompute
  <2>3. /\ t \in Scheduler /\ t.elevated = NothingWanted /\ t.asked = NothingWanted
        /\ t.dirty = FALSE /\ t.known = s.known /\ t.readers = s.readers /\ t.prefetch = s.prefetch
    BY <2>2, NoneIsNoVector, Zenon DEF Scheduler
  <2>4. NothingWanted = [p \in Pieces |-> IF p \in cached THEN 0 ELSE NothingWanted[p]]
    BY DEF NothingWanted
  <2>5. QED
    BY <2>1, <2>3, <2>4
<1>3. CASE target # None
  <2>1. Wanted(s) = target /\ target \in Vectors
    BY <1>3, WantedFacts DEF Wanted
  <2>2. t = [s EXCEPT !.elevated = new, !.dirty = FALSE, !.asked = asked]
    BY <1>3 DEF recompute
  <2>3. new \in Vectors /\ asked \in Vectors
    BY <1>1, <2>1 DEF Vectors
  <2>4. ASSUME s.dirty \/ s.asked = s.elevated PROVE asked = new
    BY <2>3, <2>4 DEF Vectors
  <2>5. new = [p \in Pieces |-> IF p \in cached THEN 0 ELSE Wanted(s)[p]]
    BY <2>1
  <2> HIDE DEF new, asked, target
  <2>6. /\ t \in Scheduler /\ t.elevated = new /\ t.asked = asked
        /\ t.dirty = FALSE /\ t.known = s.known /\ t.readers = s.readers /\ t.prefetch = s.prefetch
    BY <2>2, <2>3, Zenon DEF Scheduler
  <2>7. QED
    BY <2>4, <2>5, <2>6
<1>4. QED
  BY <1>2, <1>3

\* What finished pieces leave.
LEMMA PieceReadyFacts ==
  ASSUME NEW s \in Scheduler, NEW ready
  PROVE  LET t == piece_ready(s, ready)
         IN /\ t \in Scheduler
            /\ t.known = s.known /\ t.dirty = s.dirty /\ t.readers = s.readers
            /\ t.elevated = [p \in Pieces |-> IF p \in ready THEN 0 ELSE s.elevated[p]]
            /\ t.prefetch = clear_ready_piece(s.prefetch, ready)
            /\ s.asked = s.elevated => t.asked = t.elevated
<1> DEFINE t == piece_ready(s, ready)
           asked == [p \in Pieces |-> IF p \in ready /\ s.elevated[p] # 0 THEN 0 ELSE s.asked[p]]
           elevated == [p \in Pieces |-> IF p \in ready THEN 0 ELSE s.elevated[p]]
           prefetch == clear_ready_piece(s.prefetch, ready)
<1>1. /\ s.elevated \in Vectors /\ s.asked \in Vectors /\ s.prefetch \in Vectors \cup {None}
  BY SchedulerFields
<1>2. asked \in Vectors /\ elevated \in Vectors /\ prefetch \in Vectors \cup {None}
  BY <1>1 DEF Vectors, clear_ready_piece
<1>3. s.asked = s.elevated => asked = elevated
  OBVIOUS
<1>4. t = [s EXCEPT !.asked = asked, !.elevated = elevated, !.prefetch = prefetch]
  BY DEF piece_ready
<1> HIDE DEF asked, elevated, prefetch
<1>5. /\ t \in Scheduler /\ t.asked = asked /\ t.elevated = elevated /\ t.prefetch = prefetch
      /\ t.known = s.known /\ t.dirty = s.dirty /\ t.readers = s.readers
  BY <1>2, <1>4, Zenon DEF Scheduler
<1>6. QED
  BY <1>3, <1>5 DEF elevated, prefetch

-----------------------------------------------------------------------------
(* The operations keep the scheduler's invariant, and what is asked for     *)
(* follows what is wanted.                                                  *)

LEMMA FewerCached ==
  ASSUME NEW s, NEW cached, SchedulerInv(s, cached), NEW fewer, \A p \in fewer : p \in cached
  PROVE  SchedulerInv(s, fewer)
BY DEF SchedulerInv

LEMMA RecomputeKeeps ==
  ASSUME NEW s \in Scheduler, IsFiniteSet(s.readers), s.known, NEW cached,
         s.prefetch # None => \A p \in cached : s.prefetch[p] = 0
  PROVE  LET t == recompute(s, cached)
         IN /\ SchedulerInv(t, cached) /\ t.known /\ ~t.dirty
            /\ \A ex : (\A p \in cached : p \in ex) /\ (s.dirty \/ s.asked = s.elevated)
                         => Follows(t, ex)
<1> DEFINE t == recompute(s, cached)
<1>1. /\ t \in Scheduler /\ t.known /\ ~t.dirty
      /\ t.readers = s.readers /\ t.prefetch = s.prefetch
      /\ t.elevated = [p \in Pieces |-> IF p \in cached THEN 0 ELSE Wanted(s)[p]]
      /\ s.dirty \/ s.asked = s.elevated => t.asked = t.elevated
  BY RecomputeFacts
<1> HIDE DEF t
<1>2. Wanted(t) = Wanted(s) /\ Wanted(s) \in Vectors
  BY <1>1, WantedFacts DEF Wanted
<1>3. t.readers = {} => t.elevated = Wanted(t)
  <2>1. CASE s.readers = {} /\ s.prefetch = None
    BY <1>1, <1>2, <2>1, WantedFacts DEF NothingWanted
  <2>2. CASE s.readers = {} /\ s.prefetch # None
    <3>1. Wanted(s) = s.prefetch /\ s.prefetch \in Vectors
      BY <1>2, <2>2, WantedFacts
    <3>2. \A p \in Pieces : p \in cached => Wanted(s)[p] = 0
      BY <2>2, <3>1
    <3>3. QED
      BY <1>1, <1>2, <3>1, <3>2 DEF Vectors
  <2>3. QED
    BY <1>1, <2>1, <2>2
<1>4. SchedulerInv(t, cached)
  BY <1>1, <1>3 DEF SchedulerInv
<1>5. ASSUME NEW ex, \A p \in cached : p \in ex, s.dirty \/ s.asked = s.elevated
      PROVE  Follows(t, ex)
  BY <1>1, <1>2, <1>5 DEF Follows
<1>6. QED
  BY <1>1, <1>4, <1>5 DEF t

LEMMA ReadyKeeps ==
  ASSUME NEW s, NEW cached, SchedulerInv(s, cached), s.known, NEW ready, NEW now,
         \A p \in now : p \in cached \/ (p \in ready /\ p \in Pieces), \A p \in cached : p \in Pieces
  PROVE  LET t == piece_ready(s, ready)
         IN /\ SchedulerInv(t, now) /\ t.known /\ t.dirty = s.dirty
            /\ s.asked = s.elevated => t.asked = t.elevated
            /\ \A ex : (\A p \in ready : p \in ex) /\ Follows(s, ex) => Follows(t, ex)
<1> DEFINE t == piece_ready(s, ready)
<1>1. /\ t \in Scheduler
      /\ t.known = s.known /\ t.dirty = s.dirty /\ t.readers = s.readers
      /\ t.elevated = [p \in Pieces |-> IF p \in ready THEN 0 ELSE s.elevated[p]]
      /\ t.prefetch = clear_ready_piece(s.prefetch, ready)
      /\ s.asked = s.elevated => t.asked = t.elevated
  BY PieceReadyFacts, Zenon DEF SchedulerInv
<1> HIDE DEF t
<1>2. s \in Scheduler /\ IsFiniteSet(s.readers) /\ s.elevated \in Vectors /\ s.prefetch \in Vectors \cup {None}
  BY SchedulerFields DEF SchedulerInv
<1> DEFINE left == [p \in Pieces |-> IF p \in ready THEN 0 ELSE s.prefetch[p]]
<1>3. t.prefetch # None => s.prefetch # None /\ t.prefetch = left
  BY <1>1 DEF clear_ready_piece
<1>4. t.prefetch = None => s.prefetch = None \/ left = NothingWanted
  <2>1. s.prefetch # None => left \in Vectors
    BY <1>2 DEF Vectors
  <2>2. QED
    BY <1>1, <2>1, NoneIsNoVector DEF clear_ready_piece
<1>5. t.readers = {} => t.elevated = Wanted(t)
  <2>1. CASE s.readers = {} /\ s.prefetch = None
    <3>1. s.elevated = NothingWanted /\ t.prefetch = None
      BY <1>1, <1>2, <2>1, WantedFacts DEF SchedulerInv, clear_ready_piece
    <3>2. Wanted(t) = NothingWanted
      BY <1>1, <1>2, <2>1, <3>1, WantedFacts
    <3>3. QED
      BY <1>1, <3>1, <3>2 DEF NothingWanted
  <2>2. CASE s.readers = {} /\ s.prefetch # None
    <3>1. s.elevated = s.prefetch
      BY <1>2, <2>2, WantedFacts, Zenon DEF SchedulerInv
    <3>2. t.elevated = left
      BY <1>1, <3>1
    <3>3. Wanted(t) = left
      BY <1>1, <1>2, <1>3, <1>4, <2>2, WantedFacts, Zenon
    <3>4. QED
      BY <3>2, <3>3
  <2>3. QED
    BY <1>1, <2>1, <2>2
<1>6. t.prefetch # None => \A p \in now : t.prefetch[p] = 0
  BY <1>3 DEF SchedulerInv
<1>7. SchedulerInv(t, now)
  BY <1>1, <1>2, <1>5, <1>6 DEF SchedulerInv
<1>8. ASSUME NEW ex, \A p \in ready : p \in ex, Follows(s, ex) PROVE Follows(t, ex)
  <2>1. CASE s.readers = {}
    BY <1>1, <1>5, <1>8, <2>1 DEF Follows
  <2>2. CASE s.readers # {}
    <3>1. Wanted(t) = Wanted(s)
      BY <1>1, <2>2 DEF Wanted, resolve_target
    <3>2. QED
      BY <1>1, <1>8, <3>1 DEF Follows
  <2>3. QED
    BY <2>1, <2>2
<1>9. QED
  BY <1>1, <1>7, <1>8 DEF t

LEMMA AddedKeeps ==
  ASSUME NEW s, NEW cached, SchedulerInv(s, cached), s.known, NEW r \in Reads
  PROVE  LET t == reader_added(s, r, cached)
         IN /\ SchedulerInv(t, cached) /\ t.known /\ ~t.dirty
            /\ \A ex : (\A p \in cached : p \in ex) /\ (s.dirty \/ s.asked = s.elevated)
                         => Follows(t, ex)
<1> DEFINE readers == s.readers \cup {r}
           with == [s EXCEPT !.readers = readers]
<1>1. s \in Scheduler /\ IsFiniteSet(readers) /\ readers \in SUBSET Reads
  BY FS_AddElement, SchedulerFields DEF SchedulerInv
<1>2. reader_added(s, r, cached) = recompute(with, cached)
  BY DEF reader_added
<1> HIDE DEF readers
<1>3. /\ with \in Scheduler /\ with.readers = readers /\ with.known = s.known
      /\ with.prefetch = s.prefetch /\ with.dirty = s.dirty
      /\ with.asked = s.asked /\ with.elevated = s.elevated
  BY <1>1, Zenon DEF Scheduler
<1> HIDE DEF with
<1>4. with.prefetch # None => \A p \in cached : with.prefetch[p] = 0
  BY <1>3 DEF SchedulerInv
<1>5. with.known /\ IsFiniteSet(with.readers)
  BY <1>1, <1>3
<1>6. /\ SchedulerInv(recompute(with, cached), cached)
      /\ recompute(with, cached).known /\ ~recompute(with, cached).dirty
      /\ \A ex : (\A p \in cached : p \in ex) /\ (with.dirty \/ with.asked = with.elevated)
                   => Follows(recompute(with, cached), ex)
  BY <1>3, <1>4, <1>5, RecomputeKeeps
<1>7. QED
  BY <1>2, <1>3, <1>6

LEMMA ReleasedKeeps ==
  ASSUME NEW s, NEW cached, SchedulerInv(s, cached), s.known, NEW r \in Reads,
         \A p \in cached : p \in Pieces
  PROVE  LET t == reader_released(s, r, cached)
         IN /\ SchedulerInv(t, cached) /\ t.known /\ ~t.dirty
            /\ \A ex : (\A p \in cached : p \in ex) /\ (s.dirty \/ s.asked = s.elevated)
                         => Follows(t, ex)
<1> DEFINE left == s.readers \ {r}
           window == [p \in Pieces |-> IF p \in cached THEN 0 ELSE gradient_for[r][p]]
           kept == IF left # {} \/ r \notin s.readers THEN s.prefetch
                   ELSE IF window = NothingWanted THEN None ELSE window
           with == [s EXCEPT !.readers = left, !.prefetch = kept]
<1>1. s \in Scheduler /\ IsFiniteSet(left) /\ left \in SUBSET Reads
  BY FS_Subset, SchedulerFields DEF SchedulerInv
<1>2. window \in Vectors
  BY GradientFacts DEF Vectors
<1>3. kept \in Vectors \cup {None}
  BY <1>1, <1>2, SchedulerFields
<1>4. kept # None => \A p \in cached : kept[p] = 0
  BY DEF SchedulerInv
<1>5. reader_released(s, r, cached) = recompute(with, cached)
  BY DEF reader_released
<1> HIDE DEF left, kept
<1>6. /\ with \in Scheduler /\ with.readers = left /\ with.known = s.known
      /\ with.prefetch = kept /\ with.dirty = s.dirty
      /\ with.asked = s.asked /\ with.elevated = s.elevated
  BY <1>1, <1>3, Zenon DEF Scheduler
<1> HIDE DEF with
<1>7. with.known /\ IsFiniteSet(with.readers)
  BY <1>1, <1>6
<1>8. /\ SchedulerInv(recompute(with, cached), cached)
      /\ recompute(with, cached).known /\ ~recompute(with, cached).dirty
      /\ \A ex : (\A p \in cached : p \in ex) /\ (with.dirty \/ with.asked = with.elevated)
                   => Follows(recompute(with, cached), ex)
  BY <1>4, <1>6, <1>7, RecomputeKeeps
<1>9. QED
  BY <1>5, <1>6, <1>8

-----------------------------------------------------------------------------
(* The actions.                                                             *)

LEMMA CachedIsExcused ==
  ASSUME DownloadsInv, sched.known
  PROVE  \A p \in complete : p \in Excused
BY DEF DownloadsInv, DiskInv, Excused

\* A read goes to another phase.
LEMMA PhaseOf ==
  ASSUME ReadsInv, NEW r \in Reads, NEW phase \in Phases, reading' = [reading EXCEPT ![r] = phase]
  PROVE  /\ reading' \in [Reads -> Phases] /\ reading'[r] = phase
         /\ \A q \in Reads : q # r => reading'[q] = reading[q]
BY DEF ReadsInv

\* ForceRecheck and mark_priorities_dirty leave what is wanted and recorded.
LEMMA ResetKeeps ==
  ASSUME NEW s, NEW cached, SchedulerInv(s, cached), s.known
  PROVE  /\ SchedulerInv(ForceRecheck(s), cached) /\ ForceRecheck(s).known
         /\ SchedulerInv(mark_priorities_dirty(s), cached)
         /\ mark_priorities_dirty(s).known /\ mark_priorities_dirty(s).dirty
<1>1. s \in Scheduler
  BY DEF SchedulerInv
<1> DEFINE t == ForceRecheck(s)
           u == mark_priorities_dirty(s)
           reset == [p \in Pieces |-> LIBTORRENT_DEFAULT]
<1>2. reset \in Vectors
  BY SchedulerAssumption DEF Vectors
<1>3. t = [s EXCEPT !.asked = reset]
  BY DEF ForceRecheck
<1> HIDE DEF reset
<1>4. /\ t \in Scheduler /\ t.known = s.known /\ t.readers = s.readers
      /\ t.prefetch = s.prefetch /\ t.elevated = s.elevated
  BY <1>1, <1>2, <1>3, Zenon DEF Scheduler
<1>5. u = [s EXCEPT !.dirty = TRUE]
  BY <1>1, SchedulerFields, Zenon DEF mark_priorities_dirty
<1>6. /\ u \in Scheduler /\ u.known = s.known /\ u.readers = s.readers
      /\ u.prefetch = s.prefetch /\ u.elevated = s.elevated /\ u.dirty = TRUE
  BY <1>1, <1>5, Zenon DEF Scheduler
<1> HIDE DEF t, u
<1>7. Wanted(t) = Wanted(s) /\ Wanted(u) = Wanted(s)
  BY <1>4, <1>6 DEF Wanted
<1>8. SchedulerInv(t, cached) /\ SchedulerInv(u, cached)
  BY <1>4, <1>6, <1>7 DEF SchedulerInv
<1>9. QED
  BY <1>4, <1>6, <1>8 DEF t, u

LEMMA StartRecheckKeeps ==
  ASSUME DownloadsInv, sched.known, engine = "up", NEW r \in Reads, start_recheck(r),
         UNCHANGED <<have, disk, posted, channel, engine, missed>>
  PROVE  DownloadsInv'
<1>1. sched' = ForceRecheck(sched) /\ checking' = TRUE /\ complete' = complete
  BY DEF start_recheck
<1>2. /\ reading' \in [Reads -> Phases] /\ reading'[r] = "recheck"
  BY PhaseOf, Zenon DEF start_recheck, DownloadsInv, Phases
<1>3. SchedulerInv(sched', complete') /\ sched'.known
  BY <1>1, ResetKeeps DEF DownloadsInv
<1>4. DiskInv'
  BY <1>1 DEF DownloadsInv, DiskInv
<1>5. ReadsInv'
  BY <1>2, <1>3 DEF ReadsInv
<1>6. ~Steady'
  BY <1>2 DEF Steady, NoRecheck
<1>7. QED
  BY <1>3, <1>4, <1>5, <1>6 DEF DownloadsInv

\* A read is served, fails or is registered, over the scheduler as it is or
\* with its priorities marked dirty.
LEMMA BeginWaitingKeeps ==
  ASSUME NEW s, SchedulerInv(s, complete), s.known, DiskInv, ReadsInv,
         NEW r \in Reads, begin_waiting(r, s), NEW ex, \A p \in complete : p \in ex,
         \A p \in have \cap disk : p \in ex
  PROVE  /\ SchedulerInv(sched', complete') /\ sched'.known
         /\ complete' \subseteq disk
         /\ \E phase \in {"done", "waiting"} : reading' = [reading EXCEPT ![r] = phase]
         /\ Follows(s, ex) => Follows(sched', ex)
         /\ s.dirty => sched'.dirty \/ Follows(sched', ex)
<1>1. CASE all_pieces_local(r) /\ ServeFromDisk(r, s)
  <2> DEFINE ready == RangeOf[r] \ complete
  <2>1. /\ complete' = complete \cup RangeOf[r] /\ sched' = piece_ready(s, ready)
        /\ reading' = [reading EXCEPT ![r] = "done"]
    BY <1>1 DEF ServeFromDisk
  <2>2. /\ \A p \in ready : p \in ex /\ p \in Pieces
        /\ \A p \in complete' : p \in disk /\ (p \in complete \/ (p \in ready /\ p \in Pieces))
        /\ \A p \in complete : p \in Pieces
    BY <1>1, <2>1, RangeIsPieces DEF all_pieces_local, DiskInv
  <2> HIDE DEF ready
  <2>3. /\ SchedulerInv(sched', complete') /\ sched'.known /\ sched'.dirty = s.dirty
        /\ Follows(s, ex) => Follows(sched', ex)
    BY <2>1, <2>2, ReadyKeeps
  <2>4. QED
    BY <2>1, <2>2, <2>3
<1>2. CASE /\ reading' = [reading EXCEPT ![r] = "done"] /\ sched' = s /\ complete' = complete
  BY <1>2 DEF DiskInv
<1>3. CASE /\ reading' = [reading EXCEPT ![r] = "waiting"]
           /\ sched' = reader_added(s, r, complete) /\ complete' = complete
  <2>1. /\ SchedulerInv(sched', complete) /\ sched'.known
        /\ s.dirty \/ s.asked = s.elevated => Follows(sched', ex)
    BY <1>3, AddedKeeps
  <2>2. Follows(s, ex) => s.asked = s.elevated
    BY DEF Follows
  <2>3. QED
    BY <1>3, <2>1, <2>2 DEF DiskInv
<1>4. QED
  BY <1>1, <1>2, <1>3 DEF begin_waiting

LEMMA StartReadKeeps ==
  ASSUME DownloadsInv, NEW r \in Reads, StartRead(r)
  PROVE  DownloadsInv'
<1>1. /\ engine = "up" /\ sched.known /\ ~checking /\ reading[r] = "idle"
      /\ UNCHANGED <<have, disk, posted, channel, engine, missed>>
  BY DEF StartRead, alertVars
<1>2. CASE start_recheck(r)
  BY <1>1, <1>2, StartRecheckKeeps
<1>3. CASE begin_waiting(r, sched) /\ checking' = checking
  <2>1. Excused' = Excused /\ \A p \in complete : p \in Excused
    BY <1>1, <1>3, CachedIsExcused DEF Excused
  <2>2. \A p \in have \cap disk : p \in Excused
    BY DEF Excused
  <2>3. SchedulerInv(sched, complete) /\ DiskInv /\ ReadsInv
    BY DEF DownloadsInv
  <2>4. /\ SchedulerInv(sched', complete') /\ sched'.known /\ complete' \subseteq disk
        /\ \E phase \in {"done", "waiting"} : reading' = [reading EXCEPT ![r] = phase]
        /\ Follows(sched, Excused) => Follows(sched', Excused)
        /\ sched.dirty => sched'.dirty \/ Follows(sched', Excused)
    BY <1>1, <1>3, <2>1, <2>2, <2>3, BeginWaitingKeeps
  <2>5. PICK phase \in {"done", "waiting"} : reading' = [reading EXCEPT ![r] = phase]
    BY <2>4, Zenon
  <2>6. /\ reading' \in [Reads -> Phases] /\ reading'[r] = phase
        /\ \A q \in Reads : q # r => reading'[q] = reading[q]
    BY <2>3, <2>5, PhaseOf, Zenon DEF Phases
  <2>7. NoRecheck' => NoRecheck
    BY <1>1, <2>6 DEF NoRecheck
  <2>8. DiskInv' /\ ReadsInv'
    BY <1>1, <1>3, <2>3, <2>4, <2>6 DEF DiskInv, ReadsInv
  <2>9. Steady' => Follows(sched', Excused')
    BY <1>1, <2>1, <2>4, <2>7 DEF Steady, DownloadsInv
  <2>10. QED
    BY <2>4, <2>8, <2>9 DEF DownloadsInv
<1>4. QED
  BY <1>2, <1>3 DEF StartRead

LEMMA PollRecheckKeeps ==
  ASSUME DownloadsInv, NEW r \in Reads, PollRecheck(r)
  PROVE  DownloadsInv'
<1> DEFINE s == mark_priorities_dirty(sched)
<1>1. /\ engine = "up" /\ reading[r] = "recheck" /\ finish_recheck(r)
      /\ UNCHANGED <<have, disk, checking, posted, channel, engine, missed>>
  BY DEF PollRecheck, alertVars
<1>2. SchedulerInv(sched, complete) /\ DiskInv /\ ReadsInv /\ sched.known
  BY <1>1 DEF DownloadsInv, ReadsInv
<1>3. SchedulerInv(s, complete) /\ s.known /\ s.dirty
  BY <1>2, ResetKeeps
<1>4. Excused' = Excused /\ \A p \in complete : p \in Excused
  BY <1>1, <1>2, CachedIsExcused DEF Excused
<1>5. \A p \in have \cap disk : p \in Excused
  <2>1. checking \in BOOLEAN
    BY <1>2 DEF DiskInv
  <2>2. QED
    BY <2>1 DEF Excused
<1>6. CASE r \in s.readers
  <2>1. sched' = recompute(s, complete) /\ reading' = [reading EXCEPT ![r] = "waiting"] /\ complete' = complete
    BY <1>1, <1>6 DEF finish_recheck
  <2>2. /\ s \in Scheduler /\ IsFiniteSet(s.readers)
        /\ s.prefetch # None => \A p \in complete : s.prefetch[p] = 0
    BY <1>3 DEF SchedulerInv
  <2> HIDE DEF s
  <2>3. SchedulerInv(sched', complete) /\ sched'.known /\ Follows(sched', Excused)
    BY <1>3, <1>4, <2>1, <2>2, RecomputeKeeps
  <2>4. reading' \in [Reads -> Phases]
    BY <1>2, <2>1, PhaseOf, Zenon DEF Phases
  <2>5. DiskInv' /\ ReadsInv'
    BY <1>1, <1>2, <2>1, <2>3, <2>4 DEF DiskInv, ReadsInv
  <2>6. QED
    BY <1>4, <2>1, <2>3, <2>5 DEF DownloadsInv
<1>7. CASE r \notin s.readers
  <2>1. begin_waiting(r, s)
    BY <1>1, <1>7 DEF finish_recheck
  <2> HIDE DEF s
  <2>2. /\ SchedulerInv(sched', complete') /\ sched'.known /\ complete' \subseteq disk
        /\ \E phase \in {"done", "waiting"} : reading' = [reading EXCEPT ![r] = phase]
        /\ s.dirty => sched'.dirty \/ Follows(sched', Excused)
    BY <1>2, <1>3, <1>4, <1>5, <2>1, BeginWaitingKeeps
  <2>3. reading' \in [Reads -> Phases]
    BY <1>2, <2>2, PhaseOf, Zenon DEF Phases
  <2>4. DiskInv' /\ ReadsInv'
    BY <1>1, <1>2, <2>2, <2>3 DEF DiskInv, ReadsInv
  <2>5. QED
    BY <1>3, <1>4, <2>2, <2>4 DEF DownloadsInv, Steady
<1>8. QED
  BY <1>6, <1>7

LEMMA PollPieceWaitKeeps ==
  ASSUME DownloadsInv, NEW r \in Reads, PollPieceWait(r)
  PROVE  DownloadsInv'
<1>1. /\ engine = "up" /\ reading[r] = "waiting"
      /\ UNCHANGED <<have, disk, posted, channel, engine, missed>>
  BY DEF PollPieceWait, alertVars
<1>2. SchedulerInv(sched, complete) /\ DiskInv /\ ReadsInv /\ sched.known
  BY <1>1 DEF DownloadsInv, ReadsInv
<1>3. \A p \in complete : p \in Excused
  BY <1>2, CachedIsExcused
\* Released: recomputed with one reader less.
<1>4. ASSUME NEW s, SchedulerInv(s, complete'), s.known, sched' = reader_released(s, r, complete'),
             s.dirty = sched.dirty, sched.asked = sched.elevated => s.asked = s.elevated,
             \A p \in complete' : p \in disk /\ p \in Excused,
             reading' = [reading EXCEPT ![r] = "done"], checking' = checking
      PROVE  DownloadsInv'
  <2>1. Excused' = Excused
    BY <1>1, <1>4 DEF Excused
  <2>2. \A p \in complete' : p \in Pieces
    BY <1>2, <1>4 DEF DiskInv
  <2>3. /\ SchedulerInv(sched', complete') /\ sched'.known
        /\ s.dirty \/ s.asked = s.elevated => Follows(sched', Excused)
    BY <1>4, <2>2, ReleasedKeeps
  <2>4. /\ reading' \in [Reads -> Phases] /\ reading'[r] = "done"
        /\ \A q \in Reads : q # r => reading'[q] = reading[q]
    BY <1>2, <1>4, PhaseOf, ZenonT(60) DEF Phases
  <2>5. NoRecheck' => NoRecheck
    BY <1>1, <2>4 DEF NoRecheck
  <2>6. DiskInv' /\ ReadsInv'
    BY <1>1, <1>2, <1>4, <2>3, <2>4 DEF DiskInv, ReadsInv
  <2>7. Steady' => s.dirty \/ s.asked = s.elevated
    BY <1>1, <1>2, <1>4, <2>5 DEF Steady, DownloadsInv, Follows
  <2>8. QED
    BY <2>1, <2>3, <2>6, <2>7 DEF DownloadsInv
\* Served from disk: whole, or as far as the pieces go.
<1>5. ASSUME NEW served, served \subseteq RangeOf[r], served \subseteq have \cap disk,
             complete' = complete \cup served,
             sched' = reader_released(piece_ready(sched, served \ complete), r, complete'),
             reading' = [reading EXCEPT ![r] = "done"], checking' = checking
      PROVE  DownloadsInv'
  <2> DEFINE ready == served \ complete
             s == piece_ready(sched, ready)
  <2>1. /\ \A p \in complete' : p \in disk /\ p \in Excused
        /\ \A p \in complete' : p \in complete \/ (p \in ready /\ p \in Pieces)
        /\ \A p \in complete : p \in Pieces
    BY <1>2, <1>3, <1>5, RangeIsPieces DEF DiskInv, Excused
  <2> HIDE DEF ready
  <2>2. /\ SchedulerInv(s, complete') /\ s.known /\ s.dirty = sched.dirty
        /\ sched.asked = sched.elevated => s.asked = s.elevated
    BY <1>2, <2>1, ReadyKeeps
  <2>3. sched' = reader_released(s, r, complete')
    BY <1>5 DEF ready
  <2> HIDE DEF s
  <2>4. QED
    BY <1>4, <1>5, <2>1, <2>2, <2>3
<1>6. CASE start_recheck(r)
  BY <1>1, <1>2, <1>6, StartRecheckKeeps
<1>7. CASE /\ all_pieces_local(r)
           /\ complete' = complete \cup RangeOf[r]
           /\ sched' = reader_released(piece_ready(sched, RangeOf[r] \ complete), r, complete')
           /\ reading' = [reading EXCEPT ![r] = "done"]
           /\ UNCHANGED <<checking, mishaps>>
  BY <1>5, <1>7 DEF all_pieces_local
<1>8. CASE ServePrefix(r) /\ checking' = checking
  <2>1. \A served \in {{}, LocalPrefix(r)} : served \subseteq RangeOf[r] /\ served \subseteq have \cap disk
    <3>1. RangeOf[r] \subseteq Nat
      BY RangeIsPieces DEF Pieces
    <3>2. \A p \in RangeOf[r] : p <= p
      BY <3>1
    <3>3. LocalPrefix(r) \subseteq RangeOf[r] /\ LocalPrefix(r) \subseteq have \cap disk
      BY <3>2 DEF LocalPrefix
    <3>4. QED
      BY <3>3
  <2>2. PICK served \in {{}, LocalPrefix(r)} :
           /\ complete' = complete \cup served
           /\ sched' = reader_released(piece_ready(sched, served \ complete), r, complete')
           /\ reading' = [reading EXCEPT ![r] = "done"]
    BY <1>8 DEF ServePrefix
  <2>3. QED
    BY <1>5, <1>8, <2>1, <2>2
<1>9. QED
  BY <1>6, <1>7, <1>8 DEF PollPieceWait

LEMMA UnknownFacts ==
  /\ Unknown \in Scheduler /\ ~Unknown.known /\ Unknown.readers = {} /\ Unknown.prefetch = None
  /\ \A cached : SchedulerInv(Unknown, cached)
<1>1. NothingWanted \in Vectors
  BY DEF NothingWanted, Vectors
<1>2. Unknown \in Scheduler
  BY <1>1 DEF Unknown, Scheduler
<1>3. /\ ~Unknown.known /\ Unknown.readers = {} /\ Unknown.prefetch = None
      /\ Unknown.elevated = NothingWanted
  BY DEF Unknown
<1>4. IsFiniteSet(Unknown.readers)
  BY <1>3, FS_EmptySet
<1>5. Unknown.elevated = Wanted(Unknown)
  BY <1>2, <1>3, <1>4, WantedFacts
<1>6. QED
  BY <1>2, <1>3, <1>4, <1>5 DEF SchedulerInv

LEMMA HandleKeeps ==
  ASSUME DownloadsInv, AddHandle \/ RemoveHandle
  PROVE  DownloadsInv'
<1>1. SchedulerInv(sched, complete) /\ DiskInv /\ ReadsInv
  BY DEF DownloadsInv
<1>2. CASE AddHandle
  <2>1. /\ engine = "up" /\ ~sched.known /\ sched' = init_torrent(sched) /\ checking' = TRUE
        /\ UNCHANGED <<have, disk, complete, reading, posted, channel, engine, missed>>
    BY <1>2 DEF AddHandle, alertVars
  <2>2. sched = Unknown
    BY <1>1, <2>1 DEF SchedulerInv
  <2>3. NothingWanted \in Vectors
    BY DEF NothingWanted, Vectors
  <2>4. /\ sched' \in Scheduler /\ sched'.known /\ sched'.readers = {} /\ sched'.prefetch = None
        /\ sched'.elevated = NothingWanted /\ sched'.asked = NothingWanted
    BY <2>1, <2>2, <2>3, Zenon DEF init_torrent, Unknown, Scheduler
  <2>5. IsFiniteSet(sched'.readers)
    BY <2>4, FS_EmptySet
  <2>6. Wanted(sched') = NothingWanted
    BY <2>4, <2>5, WantedFacts
  <2>7. SchedulerInv(sched', complete')
    BY <2>4, <2>5, <2>6 DEF SchedulerInv
  <2>8. Follows(sched', Excused')
    BY <2>4, <2>6 DEF Follows
  <2>9. DiskInv' /\ ReadsInv'
    BY <1>1, <2>1, <2>4 DEF DiskInv, ReadsInv
  <2>10. QED
    BY <2>7, <2>8, <2>9 DEF DownloadsInv
<1>3. CASE RemoveHandle
  <2>1. /\ sched' = Unknown /\ have' = {} /\ checking' = FALSE
        /\ reading' = [r \in Reads |-> IF reading[r] = "idle" THEN "idle" ELSE "done"]
        /\ UNCHANGED <<disk, complete, posted, channel, engine, missed>>
    BY <1>3 DEF RemoveHandle, alertVars
  <2>2. SchedulerInv(sched', complete') /\ ~sched'.known
    BY <2>1, UnknownFacts
  <2>3. DiskInv' /\ ReadsInv'
    BY <1>1, <2>1, <2>2, Zenon DEF DiskInv, ReadsInv, Phases
  <2>4. QED
    BY <2>2, <2>3 DEF DownloadsInv, Steady
<1>4. QED
  BY <1>2, <1>3

\* Steps that leave the scheduler's record, and excuse no fewer pieces.
LEMMA SameRecordKeeps ==
  ASSUME DownloadsInv, sched' = sched, engine' = engine, DiskInv', ReadsInv',
         \A p \in complete' : p \in complete,
         NoRecheck' => NoRecheck, \A p \in Excused : p \in Excused'
  PROVE  DownloadsInv'
<1>1. SchedulerInv(sched', complete')
  BY FewerCached DEF DownloadsInv
<1>2. Steady' => Follows(sched, Excused)
  BY DEF Steady, DownloadsInv
<1>3. Follows(sched, Excused) => Follows(sched', Excused')
  BY DEF Follows
<1>4. QED
  BY <1>1, <1>2, <1>3 DEF DownloadsInv

LEMMA DownloadKeeps ==
  ASSUME DownloadsInv, NEW p \in Pieces, Download(p)
  PROVE  DownloadsInv'
<1>1. /\ ~checking /\ have' = have \cup {p} /\ disk' = disk \cup {p} /\ missed' = missed \ {p}
      /\ posted' = posted \cup {p}
      /\ UNCHANGED <<sched, complete, checking, reading, channel, engine>>
  BY DEF Download
<1>2. DiskInv' /\ ReadsInv'
  BY <1>1 DEF DownloadsInv, DiskInv, ReadsInv
<1>3. (NoRecheck' => NoRecheck) /\ \A q \in Excused : q \in Excused'
  BY <1>1 DEF NoRecheck, Excused
<1>4. QED
  BY <1>1, <1>2, <1>3, SameRecordKeeps

LEMMA CheckEndsKeeps ==
  ASSUME DownloadsInv, CheckEnds
  PROVE  DownloadsInv'
<1>1. /\ checking /\ checking' = FALSE /\ have' = disk
      /\ UNCHANGED <<sched, disk, complete, reading, posted, channel, engine, missed>>
  BY DEF CheckEnds, alertVars
<1>2. DiskInv' /\ ReadsInv'
  BY <1>1, Zenon DEF DownloadsInv, DiskInv, ReadsInv
<1>3. (NoRecheck' => NoRecheck) /\ \A q \in Excused : q \in Excused'
  BY <1>1 DEF NoRecheck, Excused
<1>4. QED
  BY <1>1, <1>2, <1>3, SameRecordKeeps

LEMMA EvictKeeps ==
  ASSUME DownloadsInv, NEW p \in Pieces, Evict(p)
  PROVE  DownloadsInv'
<1>1. /\ complete' = complete \ {p} /\ disk' = disk \ {p}
      /\ missed' = IF p \in OnItsWay \/ UnwatchedCheck THEN missed \cup {p} ELSE missed
      /\ UNCHANGED <<sched, have, checking, reading, posted, channel, engine>>
  BY DEF Evict, alertVars
<1>2. DiskInv' /\ ReadsInv'
  BY <1>1 DEF DownloadsInv, DiskInv, ReadsInv, OnItsWay
<1>3. NoRecheck' => NoRecheck
  BY <1>1 DEF NoRecheck
<1>4. CASE ~checking \/ UnwatchedCheck
  <2>1. \A q \in Excused : q \in Excused'
    BY <1>1, <1>4 DEF Excused
  <2>2. QED
    BY <1>1, <1>2, <1>3, <2>1, SameRecordKeeps
<1>5. CASE checking /\ ~UnwatchedCheck /\ NoRecheck'
  <2>1. sched.readers = {}
    BY <1>3, <1>5 DEF UnwatchedCheck, NoRecheck
  <2>2. SchedulerInv(sched', complete')
    BY <1>1, FewerCached DEF DownloadsInv
  <2>3. Steady' => sched'.asked = sched'.elevated
    BY <1>1, <1>3 DEF Steady, DownloadsInv, Follows
  <2>4. sched'.elevated = Wanted(sched')
    BY <1>1, <2>1, <2>2 DEF SchedulerInv
  <2>5. Steady' => Follows(sched', Excused')
    BY <2>3, <2>4 DEF Follows
  <2>6. QED
    BY <1>2, <2>2, <2>5 DEF DownloadsInv
<1>6. CASE ~NoRecheck'
  <2>1. SchedulerInv(sched', complete')
    BY <1>1, FewerCached DEF DownloadsInv
  <2>2. QED
    BY <1>2, <1>6, <2>1 DEF DownloadsInv, Steady
<1>7. QED
  BY <1>4, <1>5, <1>6

LEMMA ConsumerKeeps ==
  ASSUME DownloadsInv, Consumer
  PROVE  DownloadsInv'
<1>1. /\ UNCHANGED <<sched, have, disk, complete, checking, reading, engine, missed>>
      /\ posted' \cup channel' \subseteq posted \cup channel
  BY DEF Consumer, drain_alerts, NothingDrained, WaitTest, WaitBlocks, WaitEnds, ConsumerStops
<1>2. DiskInv' /\ ReadsInv'
  BY <1>1 DEF DownloadsInv, DiskInv, ReadsInv
<1>3. (NoRecheck' => NoRecheck) /\ \A q \in Excused : q \in Excused'
  BY <1>1 DEF NoRecheck, Excused
<1>4. QED
  BY <1>1, <1>2, <1>3, SameRecordKeeps

LEMMA PieceFinishedKeeps ==
  ASSUME DownloadsInv, NEW p \in Pieces, handle_piece_finished(p)
  PROVE  DownloadsInv'
<1>1. /\ p \in channel /\ channel' = channel \ {p}
      /\ complete' = IF p \in disk THEN complete \cup {p} ELSE complete
      /\ sched' = IF sched.known THEN piece_ready(sched, {p}) ELSE sched
      /\ UNCHANGED <<have, disk, checking, reading, posted, engine, missed>>
  BY DEF handle_piece_finished
<1>2. SchedulerInv(sched, complete) /\ DiskInv /\ ReadsInv
  BY DEF DownloadsInv
<1>3. CASE ~sched.known
  <2>1. sched = Unknown /\ sched' = sched
    BY <1>1, <1>2, <1>3 DEF SchedulerInv
  <2>2. SchedulerInv(sched', complete')
    BY <2>1, UnknownFacts
  <2>3. DiskInv' /\ ReadsInv'
    BY <1>1, <1>2, <2>1 DEF DiskInv, ReadsInv
  <2>4. QED
    BY <1>3, <2>1, <2>2, <2>3 DEF DownloadsInv, Steady
<1>4. CASE sched.known
  <2>1. /\ \A q \in complete' : q \in complete \/ (q \in {p} /\ q \in Pieces)
        /\ \A q \in complete : q \in Pieces
        /\ sched' = piece_ready(sched, {p})
    BY <1>1, <1>2, <1>4 DEF DiskInv
  <2>2. p \in Excused /\ Excused' = Excused
    BY <1>1, <1>2, <1>4 DEF DiskInv, Excused
  <2>3. /\ SchedulerInv(sched', complete') /\ sched'.known /\ sched'.dirty = sched.dirty
        /\ Follows(sched, Excused) => Follows(sched', Excused)
    BY <1>2, <1>4, <2>1, <2>2, ReadyKeeps
  <2>4. DiskInv' /\ ReadsInv'
    BY <1>1, <1>2, <1>4, <2>3, SMTT(30) DEF DiskInv, ReadsInv
  <2>5. Steady' => Steady
    BY <1>1, <1>4, <2>3 DEF Steady, NoRecheck
  <2>6. QED
    BY <2>2, <2>3, <2>4, <2>5 DEF DownloadsInv
<1>5. QED
  BY <1>3, <1>4

LEMMA EngineEndsKeeps ==
  ASSUME DownloadsInv, EngineStops \/ EngineDown
  PROVE  DownloadsInv'
<1>1. SchedulerInv(sched, complete) /\ DiskInv /\ ReadsInv
  BY DEF DownloadsInv
<1>2. CASE EngineStops
  <2>1. /\ engine' = "joining"
        /\ reading' = [r \in Reads |-> IF reading[r] = "idle" THEN "idle" ELSE "done"]
        /\ UNCHANGED <<sched, have, disk, complete, checking, posted, channel, missed>>
    BY <1>2 DEF EngineStops
  <2>2. DiskInv' /\ ReadsInv'
    BY <1>1, <2>1 DEF DiskInv, ReadsInv, Phases
  <2>3. QED
    BY <1>1, <2>1, <2>2 DEF DownloadsInv, Steady
<1>3. CASE EngineDown
  <2>1. /\ engine = "joining" /\ engine' = "down" /\ sched' = Unknown /\ checking' = FALSE
        /\ UNCHANGED <<have, disk, complete, reading, posted, channel, missed>>
    BY <1>3 DEF EngineDown, alertVars
  <2>2. SchedulerInv(sched', complete') /\ ~sched'.known
    BY <2>1, UnknownFacts
  <2>3. DiskInv' /\ ReadsInv'
    BY <1>1, <2>1, <2>2, Zenon DEF DiskInv, ReadsInv
  <2>4. QED
    BY <2>2, <2>3 DEF DownloadsInv, Steady
<1>4. QED
  BY <1>2, <1>3

LEMMA DownloadsStep ==
  ASSUME DownloadsInv, [DownloadsNext]_downloadVars
  PROVE  DownloadsInv'
<1>1. ASSUME NEW r \in Reads, ReadAgain(r) PROVE DownloadsInv'
  <2>1. /\ reading[r] = "done" /\ reading' = [reading EXCEPT ![r] = "idle"]
        /\ UNCHANGED <<sched, have, disk, complete, checking, posted, channel, engine, missed>>
    BY <1>1 DEF ReadAgain, alertVars
  <2>2. /\ reading' \in [Reads -> Phases] /\ reading'[r] = "idle"
        /\ \A q \in Reads : q # r => reading'[q] = reading[q]
    BY <2>1, PhaseOf, Zenon DEF DownloadsInv, Phases
  <2>3. DiskInv' /\ ReadsInv'
    BY <2>1, <2>2 DEF DownloadsInv, DiskInv, ReadsInv
  <2>4. (NoRecheck' => NoRecheck) /\ \A p \in Excused : p \in Excused'
    BY <2>1, <2>2 DEF NoRecheck, Excused
  <2>5. QED
    BY <2>1, <2>3, <2>4, SameRecordKeeps
<1>2. CASE UNCHANGED downloadVars
  <2>1. DiskInv' /\ ReadsInv'
    BY <1>2 DEF DownloadsInv, DiskInv, ReadsInv, downloadVars
  <2>2. (NoRecheck' => NoRecheck) /\ \A p \in Excused : p \in Excused'
    BY <1>2 DEF NoRecheck, Excused, downloadVars
  <2>3. QED
    BY <1>2, <2>1, <2>2, SameRecordKeeps DEF downloadVars
<1>3. QED
  BY <1>1, <1>2, StartReadKeeps, PollRecheckKeeps, PollPieceWaitKeeps, HandleKeeps, DownloadKeeps,
     CheckEndsKeeps, EvictKeeps, ConsumerKeeps, PieceFinishedKeeps, EngineEndsKeeps
     DEF DownloadsNext, Finished

LEMMA DownloadsStart ==
  ASSUME DownloadsInit
  PROVE  DownloadsInv
<1>1. SchedulerInv(sched, complete) /\ ~sched.known
  BY UnknownFacts DEF DownloadsInit
<1>2. DiskInv /\ ReadsInv
  BY ZenonT(60) DEF DownloadsInit, DiskInv, ReadsInv, Phases
<1>3. QED
  BY <1>1, <1>2 DEF DownloadsInv, Steady

\* Whatever the pieces, the reads, the configured priorities and the number of
\* mishaps, libtorrent is asked for what the scheduler recorded, and that is what
\* the registered reads want (apply_elevations, reader_added, reader_released).
THEOREM AsksForWhatIsRead == DownloadsSpec => []AskedForWhatIsRead
<1>1. ASSUME DownloadsInv PROVE AskedForWhatIsRead
  <2> SUFFICES ASSUME engine = "up", sched.known, ~sched.dirty, ~checking,
                      \A r \in Reads : reading[r] # "recheck"
               PROVE  /\ sched.asked = sched.elevated
                      /\ \A p \in Pieces : \/ sched.asked[p] = Wanted(sched)[p]
                                           \/ sched.asked[p] = 0 /\ p \in have \cup missed
                      /\ \A r \in sched.readers : \A p \in RangeOf[r] :
                           Wanted(sched)[p] >= Config.current_priority
    BY DEF AskedForWhatIsRead, Wanted
  <2>1. Follows(sched, Excused)
    BY <1>1 DEF DownloadsInv, Steady, NoRecheck
  <2>2. sched \in Scheduler /\ IsFiniteSet(sched.readers)
    BY <1>1 DEF DownloadsInv, SchedulerInv
  <2>3. \A r \in sched.readers : \A p \in RangeOf[r] : Wanted(sched)[p] >= Config.current_priority
    BY <2>2, WantedFacts
  <2>4. QED
    BY <2>1, <2>3 DEF Follows, Excused
<1>2. QED
  BY <1>1, DownloadsStart, DownloadsStep, PTL DEF DownloadsSpec

=============================================================================
