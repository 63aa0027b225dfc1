------------------------------- MODULE Inodes -------------------------------
(***************************************************************************)
(* The inode table below metadata/ (fuse/inodes.rs) as a value: a function *)
(* from the inode numbers in use to inodes, each with its parent and its   *)
(* name; METADATA_INO, the root of metadata/, is no entry of it.  At the   *)
(* start of the daemon it is rebuilt from the database.                    *)
(***************************************************************************)
EXTENDS Catalogue

CONSTANTS DirNames,   \* names of directories
          Files,      \* inode numbers of files
          Dirs        \* inode numbers of directories

METADATA_INO == 0

(* A buffer holds a valid torrent, or nothing or bytes that do not parse:  *)
(* these two differ only in the error a close returns.                     *)
Invalid == "invalid"

Buffers == Contents \cup {Invalid}

ASSUME InodesAssumption ==
  /\ Files \subseteq Nat /\ Dirs \subseteq Nat /\ Files \cap Dirs = {}
  /\ METADATA_INO \notin Files \cup Dirs
  /\ Invalid \notin Contents

FileInode(parent, name, data) ==
  [kind |-> "file", parent |-> parent, name |-> name, data |-> data, unlinked |-> FALSE]

DirInode(parent, name) ==
  [kind |-> "dir", parent |-> parent, name |-> name, data |-> Invalid, unlinked |-> FALSE]

extract_source_path(table, dir) ==
  LET path[d \in {METADATA_INO} \cup (DOMAIN table \cap Dirs)] ==
        IF d = METADATA_INO THEN << >> ELSE Append(path[table[d].parent], table[d].name)
  IN path[dir]

(* The key <<source_path, filename>> of a file that is not unlinked.       *)
KeyIn(table, f) == <<extract_source_path(table, table[f].parent), table[f].name>>

Place(table, i, parent, name) == [table EXCEPT ![i].parent = parent, ![i].name = name]

(* NEXT_INO counts up: the least of the numbers that nothing refers to.    *)
Least(S) == CHOOSE x \in S : \A y \in S : x <= y

Greatest(S) == CHOOSE x \in S : \A y \in S : y <= x

-----------------------------------------------------------------------------
(* The restart numbers the directories and the rows of the database; a row *)
(* whose directory has no inode shows up in the root of metadata/.         *)

Numbering(S, T) == {m \in [S -> T] : \A x, y \in S : m[x] = m[y] => x = y}

restore_metadata_inodes(db, dirs, files) ==
  LET at(path) == IF path = << >> THEN METADATA_INO ELSE dirs[path]
      tree == [i \in Range(dirs) |->
                 LET p == CHOOSE q \in DOMAIN dirs : dirs[q] = i IN
                 DirInode(at(db.dirs[p]), BaseName(p))]
      find_ino_by_full_path(path) ==
        {METADATA_INO} \cup {i \in Range(dirs) : extract_source_path(tree, i) = path}
  IN [i \in Range(dirs) \cup Range(files) |->
        IF i \in Range(dirs) THEN tree[i]
        ELSE LET k == CHOOSE j \in DOMAIN files : files[j] = i IN
             FileInode(Greatest(find_ino_by_full_path(k[1])), k[2], db.rows[k].content)]
=============================================================================
