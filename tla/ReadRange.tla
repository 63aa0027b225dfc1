------------------------------ MODULE ReadRange ------------------------------
(***************************************************************************)
(* Which bytes answer a read of a file under data/: the range clipped to   *)
(* the file (fs_service.rs, read), the range cache in memory (read_data),  *)
(* the test whether the pieces are there (piece_store.rs, pieces_on_disk), *)
(* and the read by the engine, which cuts it from piece files (engine.rs,  *)
(* prepare_read, read_from_disk) or, when a piece did not come in time,    *)
(* returns what came before it (read_timed_out).                           *)
(*                                                                         *)
(* A byte is its position in the torrent, so a wrong byte shows.  Piece    *)
(* files come and go at any time: every look at them finds them in some    *)
(* state of its own, and so does every wait.                               *)
(***************************************************************************)
EXTENDS Integers, Sequences, SequencesExt, FiniteSetsExt

CONSTANTS
  FileSizes,        \* the files of the torrent, in order
  piece_length,
  Sizes,            \* bound: sizes of the requests; the kernel sends no empty one
  MAX_L1_ENTRIES

ASSUME RangeAssumption ==
  piece_length \in Nat \ {0} /\ Sizes \subseteq Nat \ {0} /\ MAX_L1_ENTRIES \in Nat \ {0}

VARIABLES
  l1,      \* torrent_data_cache: range -> the bytes; `cut`: ghost, see below
  answer   \* history: the last read and what it was answered

rangeVars == <<l1, answer>>

-----------------------------------------------------------------------------
(* The torrent.                                                             *)

total_size == FoldLeft(+, 0, FileSizes)
file_start_offset(f) == FoldLeft(+, 0, SubSeq(FileSizes, 1, f - 1))
num_pieces == (total_size + piece_length - 1) \div piece_length

Span(from, to) == [i \in 1..(to - from) |-> from + i - 1]

expected_piece_size(p) ==
  LET remainder == total_size - (num_pieces - 1) * piece_length
  IN IF p = num_pieces - 1 /\ remainder > 0 THEN remainder ELSE piece_length

\* How much of each piece a look finds: nothing, a part, or all of it.
Views == [0..(num_pieces - 1) -> {"none", "part", "whole"}]

read_piece(p, view) ==
  CASE view[p] = "whole" -> expected_piece_size(p)
    [] view[p] = "part" -> expected_piece_size(p) \div 2
    [] OTHER -> 0

-----------------------------------------------------------------------------
(* The engine's read.                                                       *)

Data(bytes) == [ok |-> TRUE, bytes |-> bytes]
Failed == [ok |-> FALSE, bytes |-> <<>>]

Empty == [size |-> 0]

\* Mutant: the last piece is the one the end lies in, not the last byte.
PrepareToEnd(f, offset, size) ==
  LET absolute_offset == file_start_offset(f) + offset
      end_offset == absolute_offset + Min({size, FileSizes[f] - offset})
      last == Min({end_offset \div piece_length, num_pieces - 1})
  IN IF offset >= FileSizes[f] THEN Empty
     ELSE [size |-> end_offset - absolute_offset, absolute_offset |-> absolute_offset,
           end_offset |-> end_offset, first |-> absolute_offset \div piece_length, last |-> last]

\* A range within a file never starts behind the last piece.
prepare_read(f, offset, size) ==
  LET absolute_offset == file_start_offset(f) + offset
      file_end == file_start_offset(f) + FileSizes[f]
      n == Max({Min({size, file_end - absolute_offset}), 1})
      end_offset == absolute_offset + n
  IN IF absolute_offset >= file_end THEN Empty
     ELSE [size |-> n, absolute_offset |-> absolute_offset, end_offset |-> end_offset,
           first |-> absolute_offset \div piece_length,
           last |-> Min({(end_offset - 1) \div piece_length, num_pieces - 1})]

\* The bytes of piece p, of which n are there, that lie in the range.
piece_chunk_bounds(p, n, absolute_offset, end_offset) ==
  LET start == p * piece_length
  IN Span(Max({absolute_offset, start}), Min({end_offset, start + n}))

\* A piece of the range that is gone or short is PieceNotReady, and so is a
\* result that is too short.
read_from_disk(read, last, end_offset, view) ==
  LET size == end_offset - read.absolute_offset
      chunk(p) == piece_chunk_bounds(p, read_piece(p, view), read.absolute_offset, end_offset)
      bytes == FlattenSeq([i \in 1..(last - read.first + 1) |-> chunk(read.first + i - 1)])
  IN IF (\E p \in read.first..last : read_piece(p, view) < expected_piece_size(p)) \/ Len(bytes) < size
     THEN Failed ELSE Data(bytes)

\* The end of what precedes the first missing piece, or the read's offset.
partial_read_bounds(read, last_complete) ==
  IF last_complete < read.first THEN read.absolute_offset
  ELSE Max({read.absolute_offset, Min({read.end_offset, (last_complete + 1) * piece_length})})

\* The wait for piece p was too long.
read_timed_out(read, p, view) ==
  LET partial_end == partial_read_bounds(read, p - 1)
  IN IF partial_end = read.absolute_offset THEN Failed
     ELSE read_from_disk(read, p - 1, partial_end, view)

\* All results a read may have: at once, with the pieces as they are, or after
\* a wait, whole or up to a piece that never came.
Quick(read, view) == read_from_disk(read, read.last, read.end_offset, view)

Waited(read) ==
  {[cut |-> FALSE, result |-> Quick(read, view)] : view \in Views}
    \cup {[cut |-> TRUE, result |-> read_timed_out(read, p, view)] :
            p \in read.first..read.last, view \in Views}
    \cup {[cut |-> FALSE, result |-> Failed]}

Ranges ==
  {k \in (DOMAIN FileSizes) \X (0..total_size) \X (1..total_size) : k[2] + k[3] <= FileSizes[k[1]]}

\* Evaluated once.
read_file_range ==
  [k \in Ranges |-> LET read == prepare_read(k[1], k[2], k[3])
                    IN IF read = Empty THEN {[cut |-> FALSE, result |-> Data(<<>>)]} ELSE Waited(read)]

-----------------------------------------------------------------------------
(* The file system's side.                                                  *)

\* The file's place is summed up from the sizes, the engine takes it from
\* libtorrent.
pieces_on_disk(f, offset, size, view) ==
  LET from == file_start_offset(f) + offset
      to == from + Min({size, FileSizes[f] - offset})
      last == Min({(to - 1) \div piece_length, num_pieces - 1})
  IN \/ offset >= FileSizes[f]
     \/ \A p \in (from \div piece_length)..last : read_piece(p, view) >= expected_piece_size(p)

\* The read of what the test was passed on.
Unchanged ==
  [k \in Ranges |-> {Quick(prepare_read(k[1], k[2], k[3]), view) :
                       view \in {v \in Views : pieces_on_disk(k[1], k[2], k[3], v)}}]

guard_empty_read(result) == result.ok /\ result.bytes = <<>>

\* When the cache is full it is emptied first.
Remember(key, entry) ==
  LET kept == IF Cardinality(DOMAIN l1) >= MAX_L1_ENTRIES THEN {} ELSE DOMAIN l1
  IN l1' = [k \in kept \cup {key} |-> IF k = key THEN entry ELSE l1[k]]

Answer(key, result, cut, quick) ==
  answer' = [key |-> key, ok |-> result.ok, bytes |-> result.bytes, cut |-> cut, quick |-> quick]

\* A worker asks the engine; an empty result is ENODATA.
resolve_or_enodata(key) ==
  \E w \in read_file_range[key] :
    /\ Answer(key, IF guard_empty_read(w.result) THEN Failed ELSE w.result, w.cut, FALSE)
    /\ l1' = l1

\* The pieces were there: the read is made at once.  They may be gone again
\* when the engine comes to it, and then it waits like any other.
ReadAtOnce(key, w, quick) ==
  IF guard_empty_read(w.result) THEN resolve_or_enodata(key)
  ELSE /\ Answer(key, w.result, w.cut, quick)
       /\ IF w.result.ok THEN Remember(key, [bytes |-> w.result.bytes, cut |-> w.cut]) ELSE l1' = l1

read_data(f, offset, size) ==
  LET key == <<f, offset, size>>
  IN \/ key \in DOMAIN l1 /\ l1' = l1 /\ Answer(key, Data(l1[key].bytes), l1[key].cut, FALSE)
     \/ /\ key \notin DOMAIN l1
        /\ \/ \E result \in Unchanged[key] : ReadAtOnce(key, [cut |-> FALSE, result |-> result], TRUE)
           \/ \E w \in read_file_range[key] : ReadAtOnce(key, w, FALSE)
           \/ resolve_or_enodata(key)

read(f, offset, size) ==
  IF offset >= FileSizes[f] THEN Answer(<<f, offset, 0>>, Data(<<>>), FALSE, TRUE) /\ l1' = l1
  ELSE read_data(f, offset, Min({offset + size, FileSizes[f]}) - offset)

\* The torrent is removed and added again.
cleanup_removed_torrent_data_state == l1' = <<>> /\ UNCHANGED answer

RangeInit ==
  /\ l1 = <<>>
  /\ answer = [key |-> <<1, 0, 0>>, ok |-> TRUE, bytes |-> <<>>, cut |-> FALSE, quick |-> FALSE]

RangeNext ==
  \/ \E f \in DOMAIN FileSizes, size \in Sizes : \E offset \in 0..(FileSizes[f] + 1) : read(f, offset, size)
  \/ cleanup_removed_torrent_data_state

RangeSpec == RangeInit /\ [][RangeNext]_rangeVars

-----------------------------------------------------------------------------
(* A read is answered with the bytes of the file it asked for, from its     *)
(* offset on: none missing in the middle and none of another file or piece, *)
(* however pieces come and go between the looks at them.  It is whole       *)
(* unless the wait for a piece was cut short, for this read or for the one  *)
(* whose answer the range cache repeats; never empty before the end of the  *)
(* file; and when the pieces tested for are still there, it cannot fail:    *)
(* the test and the engine, which compute the pieces of a range apart from  *)
(* each other, mean the same ones (engine.rs, prepare_read; piece_store.rs, *)
(* pieces_on_disk).                                                         *)
ReadIsSlice ==
  LET f == answer.key[1]
      offset == answer.key[2]
      from == file_start_offset(f) + offset
      asked == Span(from, from + answer.key[3])
  IN /\ answer.ok => /\ IsPrefix(answer.bytes, asked)
                     /\ ~answer.cut => answer.bytes = asked
                     /\ answer.bytes = <<>> => offset >= FileSizes[f] \/ answer.key[3] = 0
     /\ answer.quick => answer.ok /\ answer.bytes = asked

=============================================================================
