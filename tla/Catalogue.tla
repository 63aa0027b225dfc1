----------------------------- MODULE Catalogue -----------------------------
(***************************************************************************)
(* The database (db/torrent_ops.rs, db/metadata_ops.rs) as a value, and    *)
(* its operations as functions from one value to the next.  Each is one    *)
(* transaction under the database mutex; the best-effort insertion of the  *)
(* directories of a path follows its commit and is an operation of its     *)
(* own, since it can fail by itself.                                       *)
(*                                                                         *)
(* A database is a record with                                             *)
(*   rows      torrent_sources: a function from the keys                   *)
(*             <<source_path, filename>> in use to [id, content];          *)
(*   torrents  the content table: the contents stored, one row per exact   *)
(*             .torrent bytes, each with its file tree (Mirror);           *)
(*   dirs      metadata_directories: a function from their paths to the    *)
(*             path of the row that parent_id names, << >> for NULL.       *)
(* A path is a sequence of names; << >> is the root of metadata/.          *)
(***************************************************************************)
EXTENDS Integers, Sequences, Functions

CONSTANTS Contents,   \* the valid .torrent files a user may store
          InfoHash,   \* InfoHash[c]: the info hash of c, possibly shared
          RowIds      \* ids of torrent_sources

-----------------------------------------------------------------------------
(* Paths.                                                                  *)

ParentOf(path) == SubSeq(path, 1, Len(path) - 1)

BaseName(path) == path[Len(path)]

(* path is dir or lies below it.                                           *)
IsWithin(path, dir) == Len(dir) <= Len(path) /\ SubSeq(path, 1, Len(dir)) = dir

(* path and the directories above it, without the root.                    *)
Ancestry(path) == {SubSeq(path, 1, n) : n \in 1..Len(path)}

-----------------------------------------------------------------------------
EmptyDatabase == [rows |-> << >>, torrents |-> {}, dirs |-> << >>]

Put(f, x, v) == [y \in DOMAIN f \cup {x} |-> IF y = x THEN v ELSE f[y]]

Without(f, S) == Restrict(f, DOMAIN f \ S)

Hashes == {InfoHash[c] : c \in Contents}

NoHash == "no hash"

References(db, c) == {k \in DOMAIN db.rows : db.rows[k].content = c}

get_torrents_by_infohash(db, h) == {k \in DOMAIN db.rows : InfoHash[db.rows[k].content] = h}

get_torrents_by_source_path(db, path) == {k \in DOMAIN db.rows : k[1] = path}

(* The hash whose handle and pieces are to go after a row with content c   *)
(* went: none while another row still carries it.                          *)
Unneeded(db, c) == IF get_torrents_by_infohash(db, InfoHash[c]) = {} THEN InfoHash[c] ELSE NoHash

(* A content row is deleted with the last source that references it.       *)
DropUnreferenced(db, c) ==
  IF References(db, c) = {} THEN [db EXCEPT !.torrents = @ \ {c}] ELSE db

-----------------------------------------------------------------------------
(* The first key of a source is new, a known key is repointed at the       *)
(* content, which is stored once for all the keys that share its bytes.    *)
InsertedRow(db, key, c, id) ==
  LET source == IF key \in DOMAIN db.rows THEN db.rows[key].id ELSE id IN
  [db EXCEPT !.rows = Put(@, key, [id |-> source, content |-> c]),
             !.torrents = @ \cup {c}]

insert_torrent_with_files_and_data(db, key, c, id) ==
  LET next == InsertedRow(db, key, c, id)
      reused == key \in DOMAIN db.rows
      old == db.rows[key].content
      orphaned == reused /\ old # c /\ References(next, old) = {}
  IN [db |-> IF orphaned THEN DropUnreferenced(next, old) ELSE next,
      source_reused |-> reused,
      stale_info_hash |-> IF orphaned THEN Unneeded(next, old) ELSE NoHash]

delete_torrent(db, key) ==
  DropUnreferenced([db EXCEPT !.rows = Without(@, {key})], db.rows[key].content)

(* UNIQUE(source_path, filename) makes the update fail on a key in use.    *)
CanRename(db, key, new) == new = key \/ new \notin DOMAIN db.rows

rename_torrent(db, key, new) ==
  [db EXCEPT !.rows = Put(Without(@, {key}), new, @[key])]

move_torrent_replacing(db, key, new) ==
  rename_torrent(IF new \in DOMAIN db.rows THEN delete_torrent(db, new) ELSE db, key, new)

-----------------------------------------------------------------------------
(* metadata_directories.                                                   *)

(* An existing row keeps the parent it has.                                *)
ensure_metadata_directories(db, path) ==
  [db EXCEPT !.dirs = [p \in DOMAIN @ \cup Ancestry(path) |->
                         IF p \in DOMAIN @ THEN @[p] ELSE ParentOf(p)]]

(* A directory's row takes the rows below it with it (ON DELETE CASCADE),  *)
(* as far as their parent_id leads to it.                                  *)
CascadesTo(db, path) ==
  {p \in DOMAIN db.dirs :
     /\ IsWithin(p, path)
     /\ \A q \in Ancestry(p) : Len(q) > Len(path) => q \in DOMAIN db.dirs /\ db.dirs[q] # << >>}

delete_metadata_directory(db, path) ==
  [db EXCEPT !.dirs = Without(@, CascadesTo(db, path))]

(* A path with its prefix old replaced by new.                             *)
Moved(path, old, new) ==
  IF IsWithin(path, old) THEN new \o SubSeq(path, Len(old) + 1, Len(path)) ELSE path

MovedKey(key, old, new) == <<Moved(key[1], old, new), key[2]>>

Under(db, path) == {k \in DOMAIN db.rows : IsWithin(k[1], path)}

(* The two UNIQUE constraints: no directory and no row is there already.   *)
CanRenameDirectory(db, old, new) ==
  /\ \A p \in DOMAIN db.dirs : IsWithin(p, old) => Moved(p, old, new) \notin DOMAIN db.dirs
  /\ \A k \in Under(db, old) : MovedKey(k, old, new) \notin DOMAIN db.rows

(* A directory whose new parent has no row gets no parent.                 *)
MovedParent(db, p, old, new) ==
  IF p # old THEN Moved(db.dirs[p], old, new)
  ELSE IF ParentOf(new) \in DOMAIN db.dirs THEN ParentOf(new) ELSE << >>

rename_metadata_directory(db, old, new) ==
  LET dir(p) == CHOOSE q \in DOMAIN db.dirs : Moved(q, old, new) = p
      key(k) == CHOOSE j \in DOMAIN db.rows : MovedKey(j, old, new) = k IN
  [db EXCEPT !.dirs = [p \in {Moved(q, old, new) : q \in DOMAIN @} |-> MovedParent(db, dir(p), old, new)],
             !.rows = [k \in {MovedKey(j, old, new) : j \in DOMAIN @} |-> @[key(k)]]]

get_source_path_prefixes(db, path) ==
  {BaseName(p) : p \in {q \in DOMAIN db.dirs : db.dirs[q] = path}}
=============================================================================
