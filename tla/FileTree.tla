------------------------------ MODULE FileTree ------------------------------
(***************************************************************************)
(* The tree of files that a torrent shows under data/, built twice by the  *)
(* program.  Once a torrent is persisted the tree is read from the tables  *)
(* torrent_directories, directory_closure and torrent_files                *)
(* (db/torrent_ops.rs, db/file_ops.rs); while its add is still in flight   *)
(* the same lookups are answered from the bencoded file list               *)
(* (fuse/lookup.rs).                                                       *)
(*                                                                         *)
(* A torrent is a record [name, multi, files]; a file is [path, size], its *)
(* path a sequence of names.  A tree is [dirs, closure, files]: the row id *)
(* of a directory is its position in dirs, that of a file its position in  *)
(* files, and NoDir is the NULL parent of the torrent's root.              *)
(***************************************************************************)
EXTENDS Integers, Sequences, SequencesExt

NoDir == 0

(* lt::file_storage::file_path: a multi-file torrent's paths begin with    *)
(* the torrent's name, a single file is stored under its own name.         *)
Top(t) == IF t.multi THEN <<t.name>> ELSE <<>>

info_files(t) ==
  [i \in DOMAIN t.files |-> [t.files[i] EXCEPT !.path = Top(t) \o @]]

-----------------------------------------------------------------------------
(* The tables.                                                             *)

EmptyTree == [dirs |-> <<>>, closure |-> {}, files |-> <<>>]

get_torrent_directory(tree, parent, name) ==
  {d \in DOMAIN tree.dirs : tree.dirs[d] = [parent |-> parent, name |-> name]}

AddDirectory(tree, parent, name) ==
  LET id == Len(tree.dirs) + 1 IN
  [tree EXCEPT !.dirs = Append(@, [parent |-> parent, name |-> name]),
               !.closure = @ \cup {<<id, id, 0>>}
                             \cup {<<r[1], id, r[3] + 1>> : r \in {c \in @ : c[2] = parent}}]

DescendByName(walk, part) ==
  LET known == {d \in DOMAIN walk.tree.dirs : walk.tree.dirs[d].name = part} IN
  IF known # {}
  THEN [walk EXCEPT !.at = CHOOSE d \in known : TRUE]
  ELSE [tree |-> AddDirectory(walk.tree, walk.at, part), at |-> Len(walk.tree.dirs) + 1]

(* One component of a path: reuse the directory's row or insert it.        *)
Descend(walk, part) ==
  LET known == get_torrent_directory(walk.tree, walk.at, part) IN
  IF known # {}
  THEN [walk EXCEPT !.at = CHOOSE d \in known : TRUE]
  ELSE [tree |-> AddDirectory(walk.tree, walk.at, part), at |-> Len(walk.tree.dirs) + 1]

insert_file(tree, file) ==
  LET walk == FoldLeft(Descend, [tree |-> tree, at |-> NoDir], Front(file.path)) IN
  [walk.tree EXCEPT !.files = Append(@, [dir |-> walk.at, name |-> Last(file.path),
                                         path |-> file.path, size |-> file.size])]

insert_files_in_tx(files) == FoldLeft(insert_file, EmptyTree, files)

-----------------------------------------------------------------------------
(* Queries on the tables.                                                  *)

get_torrent_directories_by_parent(tree, parent) ==
  {d \in DOMAIN tree.dirs : tree.dirs[d].parent = parent}

(* get_root_files is the case dir = NoDir.                                 *)
get_files_in_directory(tree, dir) == {f \in DOMAIN tree.files : tree.files[f].dir = dir}

get_torrent_file_by_name(tree, dir, name) ==
  {f \in get_files_in_directory(tree, dir) : tree.files[f].name = name}

get_all_files_under_directory(tree, dir) ==
  {f \in DOMAIN tree.files : \E r \in tree.closure : r[1] = dir /\ r[2] = tree.files[f].dir}

(* The directory at a path; {NoDir} for the root, {} when there is none.   *)
resolve_directory_path(tree, path) ==
  FoldLeft(LAMBDA at, part : UNION {get_torrent_directory(tree, d, part) : d \in at},
           {NoDir}, path)

get_file_by_path(tree, path) ==
  UNION {get_torrent_file_by_name(tree, d, Last(path)) : d \in resolve_directory_path(tree, Front(path))}

Dir(name) == [name |-> name, kind |-> "dir", size |-> 0]

File(name, size) == [name |-> name, kind |-> "file", size |-> size]

(* What readdir shows of a directory of a persisted torrent.               *)
readdir_torrent(tree, dir) ==
  {Dir(tree.dirs[d].name) : d \in get_torrent_directories_by_parent(tree, dir)}
    \cup {File(tree.files[f].name, tree.files[f].size) : f \in get_files_in_directory(tree, dir)}

(* A lookup tries the directories first.                                   *)
resolve_torrent_dir_lookup(tree, parent, name) ==
  IF get_torrent_directory(tree, parent, name) # {} THEN {Dir(name)}
  ELSE {File(name, tree.files[f].size) : f \in get_torrent_file_by_name(tree, parent, name)}

-----------------------------------------------------------------------------
(* The same questions while the add is in flight: the bencoded file list.  *)

extract_bencode_files(t) ==
  IF t.multi THEN t.files ELSE <<[t.files[1] EXCEPT !.path = <<t.name>>]>>

Below(files, dir) ==
  {[f EXCEPT !.path = SubSeq(@, Len(dir) + 1, Len(@))] :
     f \in {g \in ToSet(files) : IsStrictPrefix(dir, g.path)}}

readdir_pending_torrent(files, dir) ==
  {IF Len(f.path) > 1 THEN Dir(f.path[1]) ELSE File(f.path[1], f.size) : f \in Below(files, dir)}

resolve_pending_torrent_children(files, dir, name) ==
  IF \E f \in Below(files, dir) : Len(f.path) > 1 /\ f.path[1] = name THEN {Dir(name)}
  ELSE {File(name, f.size) : f \in {g \in Below(files, dir) : g.path = <<name>>}}

-----------------------------------------------------------------------------
(* What the tables must say of a torrent t, whose files libtorrent lists   *)
(* with their top folder: every directory lists and resolves what the list *)
(* has there, the files keep libtorrent's order, because a read takes the  *)
(* position of a row for libtorrent's file index, every file is found at   *)
(* its path, and the closure relates a directory to all the files below    *)
(* it.                                                                     *)
Directories(files) == UNION {Prefixes(Front(f.path)) : f \in ToSet(files)}

ListsTorrent(tree, t) ==
  LET files == info_files(t) IN
  /\ \A p \in Directories(files) :
       \E d \in resolve_directory_path(tree, p) :
         /\ readdir_torrent(tree, d) = readdir_pending_torrent(files, p)
         /\ \A e \in readdir_torrent(tree, d) :
              resolve_torrent_dir_lookup(tree, d, e.name)
                = resolve_pending_torrent_children(files, p, e.name)
         /\ d # NoDir =>
              get_all_files_under_directory(tree, d)
                = {f \in DOMAIN files : IsPrefix(p, files[f].path)}
  /\ \A f \in DOMAIN tree.files :
       /\ tree.files[f].path = files[f].path
       /\ get_file_by_path(tree, tree.files[f].path) = {f}

(* The tree shown while the add is in flight begins below the top folder   *)
(* and is otherwise the one of the tables.                                 *)
PendingShowsBelowTop(tree, t) ==
  LET files == extract_bencode_files(t) IN
  \A p \in Directories(files) :
    \E d \in resolve_directory_path(tree, Top(t) \o p) :
      /\ readdir_pending_torrent(files, p) = readdir_torrent(tree, d)
      /\ \A e \in readdir_torrent(tree, d) :
           resolve_pending_torrent_children(files, p, e.name)
             = resolve_torrent_dir_lookup(tree, d, e.name)
=============================================================================
