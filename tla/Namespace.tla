----------------------------- MODULE Namespace -----------------------------
(***************************************************************************)
(* How .torrent files are stored, renamed and removed under metadata/, and *)
(* how data/ mirrors them: FsService (fuse/fs_service.rs) over the inode   *)
(* table (fuse/inodes.rs), the data/ resolver (fuse/lookup.rs),            *)
(* TorrentService (services/torrent.rs) and the database (Catalogue).      *)
(*                                                                         *)
(* The FUSE dispatcher runs one handler at a time.  Closing a valid        *)
(* .torrent starts a detached thread that persists it and registers its    *)
(* download handle; the threads run beside the dispatcher and meet it in   *)
(* the database, in processing_torrents and in persist_errors.  Handlers   *)
(* that remove or rename a name first wait, for a bounded time, until no   *)
(* add of it is in flight.  A database operation may fail; the daemon may  *)
(* crash at any point and rebuilds its inodes from the rows.               *)
(*                                                                         *)
(* A handler that removes a row leaves the database lock before it sends   *)
(* the engine its command, so it takes two steps here; between them the    *)
(* dispatcher is held by task and only the threads run.                    *)
(***************************************************************************)
EXTENDS Inodes

CONSTANTS Names,         \* Names[dir]: the .torrent names used in a directory
          Handles,       \* file handles
          MaxRequests,   \* bound: requests of the users
          MaxFailures,   \* bound: database operations that fail
          MaxCrashes     \* bound: restarts of the daemon

None == "none"

ASSUME NamespaceAssumption ==
  /\ Handles \subseteq Nat /\ RowIds \subseteq Nat \ {0}
  /\ {MaxRequests, MaxFailures, MaxCrashes} \subseteq Nat
  /\ None \notin Contents /\ NoHash \notin Hashes

VARIABLES inodes,          \* InodeManager::inodes below metadata/
          open_files,      \* file handle -> inode
          processing,      \* processing_torrents
          persist_errors,  \* the keys of persist_errors
          db,              \* the database
          handles,         \* info hashes whose handle the add threads and the
                           \* removals asked the engine for and did not release
          adds,            \* the add threads, by the key they persist
          task,            \* what the dispatcher has yet to finish
          roots,           \* TorrentRoot entries of data_inodes: row id -> key
          provisional,     \* those made for an add in flight: the key each was made
                           \* for -> the key it has now
          listing,         \* data_readdir_cache
          failures, crashes, requests,
          promised,        \* ghost: the content closed as a file's last
          uncounted,       \* ghost: hashes whose rows went uncounted, so that
                           \* nothing was released
          astray           \* ghost: rows the program itself left behind, as
                           \* <<key, content, id>>

disk == <<db>>
memory == <<inodes, open_files, processing, persist_errors, handles, adds, task>>
data_inodes == <<roots, provisional>>
mirror == <<data_inodes, listing>>
bounds == <<failures, crashes>>
ghosts == <<promised, astray, uncounted>>
vars == <<disk, memory, mirror, bounds, requests, ghosts>>

-----------------------------------------------------------------------------
(* InodeManager.                                                           *)

IsDir(i) == i = METADATA_INO \/ (i \in DOMAIN inodes /\ inodes[i].kind = "dir")

find_child_by_name(parent, name) ==
  {i \in DOMAIN inodes : /\ inodes[i].parent = parent
                         /\ inodes[i].name = name
                         /\ ~inodes[i].unlinked}

Key(f) == KeyIn(inodes, f)

Visible == {i \in DOMAIN inodes : inodes[i].kind = "file" /\ ~inodes[i].unlinked}

Opened(files, ino) == {h \in DOMAIN files : files[h] = ino}

(* The entry goes at once; the inode with its last open handle.            *)
unlink_file(table, ino) ==
  IF Opened(open_files, ino) = {} THEN Without(table, {ino})
  ELSE [table EXCEPT ![ino].unlinked = TRUE]

(* NEXT_INO never repeats: a number is free once nothing refers to it.     *)
FreshFile == {f \in Files : f \notin DOMAIN inodes /\ Opened(open_files, f) = {}}
FreshDir == {d \in Dirs : d \notin DOMAIN inodes}
FreshHandle == {h \in Handles : h \notin DOMAIN open_files}

(* AUTOINCREMENT: likewise for the ids of rows.                            *)
FreshId == RowIds \ ({db.rows[k].id : k \in DOMAIN db.rows} \cup DOMAIN roots \cup {task.id})

-----------------------------------------------------------------------------
(* The dispatcher takes a request only when it is done with the last one.  *)
Idle == [kind |-> "idle", ino |-> METADATA_INO, key |-> << << >>, "">>,
         id |-> 0, hash |-> NoHash]

Free == task = Idle

(* wait_for_pending_add returns Ok; its timeout returns an error and the   *)
(* handlers change nothing, except that release has closed the handle.     *)
Settled(key) == key \notin processing

Fails == failures < MaxFailures /\ failures' = failures + 1

Works == UNCHANGED failures

(* total_changes only grows: once a write changed a row, the cached        *)
(* listing never carries the current state again and is as good as gone.   *)
NoListing == [path |-> << >>, processing |-> {}, entries |-> {"nothing"}]

Write(new) ==
  /\ db' = new
  /\ listing' = IF new = db THEN listing ELSE NoListing

(* A transaction, followed by the directories of its path: best effort, one *)
(* statement for each.                                                     *)
Ensuring(new, path) ==
  \/ Works /\ Write(ensure_metadata_directories(new, path))
  \/ Fails /\ \E n \in 0..Len(path) - 1 : Write(ensure_metadata_directories(new, SubSeq(path, 1, n)))

Forget(S) == [f \in Files |-> IF f \in S THEN None ELSE promised[f]]

(* The files of one name.  There is one, unless a restart showed a row     *)
(* whose directory is gone in the root of metadata/; then what is done to  *)
(* the row of the name is done to all of them.                             *)
Namesakes(f) == {g \in Visible : Key(g) = Key(f)}

-----------------------------------------------------------------------------
(* Directories.  mkdir and rmdir ignore a failure of the database.         *)

mkdir(parent, name) ==
  /\ Free /\ FreshDir # {} /\ IsDir(parent)
  /\ find_child_by_name(parent, name) = {}
  /\ inodes' = Put(inodes, Least(FreshDir), DirInode(parent, name))
  /\ Ensuring(db, Append(extract_source_path(inodes, parent), name))
  /\ UNCHANGED <<open_files, processing, persist_errors, handles, adds, task, data_inodes,
                 crashes, ghosts>>

rmdir(dir) ==
  /\ Free /\ dir \in Dirs /\ IsDir(dir)
  /\ ~\E i \in DOMAIN inodes : inodes[i].parent = dir /\ ~inodes[i].unlinked
  /\ inodes' = Without(inodes, {dir})
  /\ LET path == extract_source_path(inodes, dir) IN
     \/ Works /\ Write(delete_metadata_directory(db, path))
     \/ Fails /\ UNCHANGED <<db, listing>>
  /\ UNCHANGED <<open_files, processing, persist_errors, handles, adds, task, data_inodes, crashes,
                 ghosts>>

-----------------------------------------------------------------------------
(* Files are created empty, and written through an open handle or          *)
(* truncated by path.  What is written to an unlinked inode goes with it   *)
(* and is left out.                                                        *)

CanCreate(parent, name) ==
  Free /\ FreshFile # {} /\ IsDir(parent) /\ find_child_by_name(parent, name) = {}

NewFile(parent, name) ==
  /\ inodes' = Put(inodes, Least(FreshFile), FileInode(parent, name, Invalid))
  /\ promised' = Forget({Least(FreshFile)})
  /\ UNCHANGED <<disk, processing, persist_errors, handles, adds, task, mirror, bounds, astray,
                 uncounted>>

mknod(parent, name) == CanCreate(parent, name) /\ NewFile(parent, name) /\ UNCHANGED open_files

create(parent, name) ==
  /\ CanCreate(parent, name) /\ FreshHandle # {}
  /\ open_files' = Put(open_files, Least(FreshHandle), Least(FreshFile))
  /\ NewFile(parent, name)

open(f) ==
  /\ Free /\ FreshHandle # {} /\ f \in Visible
  /\ open_files' = Put(open_files, Least(FreshHandle), f)
  /\ UNCHANGED <<disk, inodes, processing, persist_errors, handles, adds, task, mirror, bounds,
                 ghosts>>

Store(f, data) ==
  /\ Free /\ f \in Visible /\ inodes[f].data # data
  /\ inodes' = [inodes EXCEPT ![f].data = data]
  /\ UNCHANGED <<disk, open_files, processing, persist_errors, handles, adds, task, mirror,
                 bounds, ghosts>>

write(fh, data) == fh \in DOMAIN open_files /\ Store(open_files[fh], data)

setattr(f) == Store(f, Invalid)

-----------------------------------------------------------------------------
(* remove_torrent and remove_torrent_and_data_state up to the database     *)
(* commit: the recorded failure goes first, then the row.  after is what   *)
(* is left to do with the inode.  Without a row nothing else happens; a    *)
(* failed database leaves the row and the inode.                           *)
Removed(after, f) ==
  CASE after = "unlink" -> unlink_file(inodes, f)
    [] after = "close" -> Without(inodes, {f})

(* After the commit the rows that still carry the hash are counted; when   *)
(* that fails, the handle and the pieces stay.                             *)
Counted(next, c, hash) ==
  /\ hash = Unneeded(next, c)
  /\ UNCHANGED uncounted

CountFails(next, c, hash) ==
  /\ hash = NoHash
  /\ uncounted' = uncounted \cup ({Unneeded(next, c)} \ {NoHash})

DeleteRow(after, f, key, hash) ==
  LET row == db.rows[key]  next == delete_torrent(db, key) IN
  /\ Write(next)
  /\ task' = [kind |-> after, ino |-> f, key |-> key, id |-> row.id, hash |-> hash]
  /\ \/ Works /\ Counted(next, row.content, hash)
     \/ Fails /\ CountFails(next, row.content, hash)

RemoveRow(after, f, key) ==
  /\ persist_errors' = persist_errors \ {key}
  /\ promised' = Forget(Namesakes(f))
  /\ \/ /\ key \notin DOMAIN db.rows /\ Works
        /\ inodes' = Removed(after, f)
        /\ UNCHANGED <<db, listing, task, uncounted>>
     \/ /\ key \in DOMAIN db.rows
        /\ \E hash \in Hashes \cup {NoHash} : DeleteRow(after, f, key, hash)
        /\ UNCHANGED inodes
     \/ Fails /\ UNCHANGED <<db, listing, task, inodes, uncounted>>

UnlinkAtOnce(f) ==
  /\ Free /\ f \in Visible
  /\ RemoveRow("unlink", f, Key(f))
  /\ UNCHANGED <<open_files, processing, handles, adds, data_inodes, crashes, astray>>

unlink(f) ==
  /\ Free /\ f \in Visible /\ Settled(Key(f))
  /\ RemoveRow("unlink", f, Key(f))
  /\ UNCHANGED <<open_files, processing, handles, adds, data_inodes, crashes, astray>>

ReplaceKeepsHandle ==
  /\ ~Free
  /\ handles' = IF task.kind = "replace" THEN handles ELSE handles \ {task.hash}
  /\ uncounted' = uncounted \ {task.hash}
  /\ roots' = Without(roots, {task.id}) /\ UNCHANGED provisional
  /\ processing' = processing \ {task.key}
  /\ inodes' = Removed(IF task.kind = "replace" THEN "unlink" ELSE task.kind, task.ino)
  /\ task' = Idle
  /\ UNCHANGED <<disk, open_files, persist_errors, adds, listing, bounds, promised, astray>>

(* After the commit: the engine's handle when no row needs it any more,    *)
(* cleanup_removed_torrent_data_state, and the inode.  The commands of the *)
(* engine are queued in order, so they take effect as they are sent.       *)
FinishRemoval ==
  /\ ~Free
  /\ handles' = handles \ {task.hash}
  /\ uncounted' = uncounted \ {task.hash}
  /\ roots' = Without(roots, {task.id}) /\ UNCHANGED provisional
  /\ processing' = processing \ {task.key}
  /\ inodes' = Removed(IF task.kind = "replace" THEN "unlink" ELSE task.kind, task.ino)
  /\ task' = Idle
  /\ UNCHANGED <<disk, open_files, persist_errors, adds, listing, bounds, promised, astray>>

-----------------------------------------------------------------------------
(* release: the last close of an unlinked inode destroys it, an invalid    *)
(* buffer removes the torrent, a valid one starts an add unless one of the *)
(* same name is in flight.                                                 *)

Close(fh) == open_files' = Without(open_files, {fh})

ReleaseUnlinked(fh, f) ==
  /\ inodes' = IF f \in DOMAIN inodes /\ Opened(open_files, f) = {fh}
               THEN Without(inodes, {f}) ELSE inodes
  /\ UNCHANGED <<disk, processing, persist_errors, handles, adds, task, mirror, bounds, ghosts>>

ReleaseInvalid(f) ==
  \/ /\ Settled(Key(f))
     /\ RemoveRow("close", f, Key(f))
     /\ UNCHANGED <<processing, handles, adds, data_inodes, crashes, astray>>
  \/ /\ ~Settled(Key(f))
     /\ UNCHANGED <<disk, inodes, processing, persist_errors, handles, adds, task, mirror, bounds,
                    ghosts>>

StartAdd(f) ==
  LET key == Key(f) IN
  /\ processing' = processing \cup {key}
  /\ adds' = IF key \in processing THEN adds
             ELSE Put(adds, key, [pc |-> "persist", content |-> inodes[f].data,
                                  is_new |-> FALSE, stale |-> NoHash])
  /\ promised' = IF key \in processing THEN Forget({f})
                 ELSE [Forget(Namesakes(f)) EXCEPT ![f] = inodes[f].data]
  /\ UNCHANGED <<disk, inodes, persist_errors, handles, task, mirror, bounds, astray,
                 uncounted>>

release(fh) ==
  /\ Free /\ fh \in DOMAIN open_files
  /\ Close(fh)
  /\ LET f == open_files[fh] IN
     \/ f \notin Visible /\ ReleaseUnlinked(fh, f)
     \/ f \in Visible /\ inodes[f].data = Invalid /\ ReleaseInvalid(f)
     \/ f \in Visible /\ inodes[f].data # Invalid /\ StartAdd(f)

-----------------------------------------------------------------------------
(* The add thread.  persist_torrent either commits, which clears an        *)
(* earlier failure of the name, or records the failure and ends the        *)
(* thread; register_torrent_handle releases the handle of an overwritten   *)
(* torrent and then sees to its own, before the name leaves                *)
(* processing_torrents.                                                    *)

Stage(key, pc) == key \in DOMAIN adds /\ adds[key].pc = pc

EndAdd(key) == adds' = Without(adds, {key}) /\ processing' = processing \ {key}

persist_torrent(key) ==
  /\ Stage(key, "persist") /\ FreshId # {}
  /\ LET out == insert_torrent_with_files_and_data(db, key, adds[key].content, Least(FreshId)) IN
     /\ Ensuring(out.db, key[1])
     /\ adds' = [adds EXCEPT ![key].pc = "register", ![key].is_new = ~out.source_reused,
                             ![key].stale = out.stale_info_hash]
  /\ persist_errors' = persist_errors \ {key}
  /\ UNCHANGED <<inodes, open_files, processing, handles, task, data_inodes, crashes, ghosts>>

PersistFails(key) ==
  /\ Stage(key, "persist") /\ Fails
  /\ persist_errors' = persist_errors \cup {key}
  /\ EndAdd(key)
  /\ UNCHANGED <<disk, inodes, open_files, handles, task, mirror, crashes, ghosts>>

ReleaseStale(key) ==
  /\ Stage(key, "register") /\ adds[key].stale # NoHash
  /\ handles' = handles \ {adds[key].stale}
  /\ uncounted' = uncounted \ {adds[key].stale}
  /\ adds' = [adds EXCEPT ![key].stale = NoHash]
  /\ UNCHANGED <<disk, inodes, open_files, processing, persist_errors, task, mirror, bounds,
                 promised, astray>>

(* A new source gets a handle; an overwritten one only merges trackers.    *)
register_torrent_handle(key) ==
  /\ Stage(key, "register") /\ adds[key].stale = NoHash
  /\ handles' = IF adds[key].is_new THEN handles \cup {InfoHash[adds[key].content]} ELSE handles
  /\ EndAdd(key)
  /\ UNCHANGED <<disk, inodes, open_files, persist_errors, task, mirror, bounds, ghosts>>

-----------------------------------------------------------------------------
(* rename.  The promise of a close survives a rename that finds the        *)
(* content in its row.  A rename to a free name does not look for adds     *)
(* that a directory rename left on their way to it.                        *)

Follows(f) == LET key == Key(f) IN
  key \in DOMAIN db.rows /\ db.rows[key].content = promised[f]

EvictOldDirectory(entries, key, new) ==
  Without(entries, {r \in DOMAIN entries : key[1] # new[1] /\ entries[r][1] = key[1]})

(* data_inodes forgets the roots of the old directory, or of the old name. *)
Evicted(entries, key, new) ==
  Without(entries, {r \in DOMAIN entries : IF key[1] # new[1] THEN entries[r][1] = key[1]
                                           ELSE entries[r] = key})

EvictRoots(key, new) ==
  /\ roots' = Evicted(roots, key, new)
  /\ provisional' = Evicted(provisional, key, new)

CanRenameFile(f, parent) == Free /\ f \in Visible /\ IsDir(parent) /\ Settled(Key(f))

(* A failed update leaves the inode under its new name and the row under   *)
(* the old one; without a row only the inode moves.                        *)
RenameFile(f, parent, name) ==
  LET key == Key(f)
      new == <<extract_source_path(inodes, parent), name>> IN
  /\ CanRenameFile(f, parent) /\ find_child_by_name(parent, name) = {}
  /\ inodes' = Place(inodes, f, parent, name)
  /\ \/ /\ key \in DOMAIN db.rows /\ CanRename(db, key, new)
        /\ Ensuring(rename_torrent(db, key, new), new[1])
        /\ EvictRoots(key, new)
        /\ promised' = Forget(IF Follows(f) /\ Settled(new) THEN Namesakes(f) \ {f} ELSE Namesakes(f))
        /\ UNCHANGED astray
     \/ /\ key \notin DOMAIN db.rows /\ Works
        /\ EvictRoots(key, new)
        /\ promised' = Forget({f})
        /\ UNCHANGED <<db, listing, astray>>
     \/ /\ key \in DOMAIN db.rows
        /\ IF CanRename(db, key, new) THEN Fails ELSE Works
        /\ promised' = Forget({f})
        /\ astray' = astray \cup {<<key, db.rows[key].content, db.rows[key].id>>}
        /\ UNCHANGED <<db, listing, data_inodes>>
  /\ UNCHANGED <<open_files, processing, persist_errors, handles, adds, task, crashes, uncounted>>

CanRenameOver(f, target) ==
  /\ target \in Visible /\ f \in Visible /\ Key(target) # Key(f)
  /\ CanRenameFile(f, inodes[target].parent) /\ Key(f) \in DOMAIN db.rows

(* The rows change in one transaction; the replaced torrent is released    *)
(* after it, when there was one and its hash is needed no more.            *)
Replace(f, target) ==
  LET key == Key(f)
      new == Key(target)
      next == move_torrent_replacing(db, key, new)
      row == db.rows[new]
      moved == Place(inodes, f, inodes[target].parent, inodes[target].name) IN
  /\ persist_errors' = persist_errors \ {new}
  /\ EvictRoots(key, new)
  /\ promised' = Forget(Namesakes(target) \cup (IF Follows(f) THEN Namesakes(f) \ {f} ELSE Namesakes(f)))
  /\ \/ /\ new \notin DOMAIN db.rows
        /\ Ensuring(next, new[1])
        /\ inodes' = unlink_file(moved, target)
        /\ UNCHANGED <<task, uncounted>>
     \/ /\ new \in DOMAIN db.rows
        /\ inodes' = moved
        /\ \E hash \in Hashes \cup {NoHash} :
             /\ task' = [kind |-> "replace", ino |-> target, key |-> new, id |-> row.id, hash |-> hash]
             /\ \/ Ensuring(next, new[1]) /\ Counted(next, row.content, hash)
                \/ /\ Fails /\ Write(ensure_metadata_directories(next, new[1]))
                   /\ CountFails(next, row.content, hash)
  /\ UNCHANGED <<open_files, processing, handles, adds, crashes, astray>>

RenameOverAtOnce(f, target) == CanRenameOver(f, target) /\ Replace(f, target)

(* Over another file: both names must be settled.  Without a source row,   *)
(* or on an error, the inode goes back to its old name and nothing has     *)
(* changed.                                                                *)
RenameOver(f, target) ==
  CanRenameOver(f, target) /\ Settled(Key(target)) /\ Replace(f, target)

(* A directory takes everything below it along and waits for no add: one   *)
(* in flight below it still persists under the old path.  The inode and    *)
(* the cached roots move first, and stay moved when the database fails.    *)
(* The kernel refuses a move of a directory below itself.  When a restart  *)
(* gave two directories one path, the rows below it move with either,      *)
(* parted from the files of the other.                                     *)
RenameDirectory(dir, parent, name) ==
  LET old == extract_source_path(inodes, dir)
      new == Append(extract_source_path(inodes, parent), name)
      next == Place(inodes, dir, parent, name)
      moved == {f \in Visible : IsWithin(Key(f)[1], old)}
      overtaken == {<<k, adds[k].content, 0>> : k \in {j \in DOMAIN adds : IsWithin(j[1], old)}}
      left == {<<k, db.rows[k].content, db.rows[k].id>> : k \in Under(db, old)}
      stays(f) == KeyIn(next, f) = Key(f)
      parted == {<<MovedKey(k, old, new), db.rows[k].content, db.rows[k].id>> :
                   k \in {Key(f) : f \in {g \in moved : stays(g)}} \cap DOMAIN db.rows} IN
  /\ Free /\ dir \in Dirs /\ IsDir(dir) /\ IsDir(parent)
  /\ ~IsWithin(new, old)
  /\ find_child_by_name(parent, name) = {}
  /\ inodes' = next
  /\ roots' = [r \in DOMAIN roots |-> MovedKey(roots[r], old, new)]
  /\ provisional' = [r \in DOMAIN provisional |-> MovedKey(provisional[r], old, new)]
  /\ \/ /\ CanRenameDirectory(db, old, new) /\ Works
        /\ Write(rename_metadata_directory(db, old, new))
        /\ promised' = Forget({f \in moved : \/ ~Follows(f) \/ stays(f)
                                            \/ ~Settled(Key(f)) \/ ~Settled(KeyIn(next, f))})
        /\ astray' = {<<MovedKey(a[1], old, new), a[2], a[3]>> : a \in astray}
                       \cup overtaken \cup parted
     \/ /\ IF CanRenameDirectory(db, old, new) THEN Fails ELSE Works
        /\ UNCHANGED <<db, listing>>
        /\ promised' = Forget(moved)
        /\ astray' = astray \cup overtaken \cup left
  /\ UNCHANGED <<open_files, processing, persist_errors, handles, adds, task, crashes, uncounted>>

-----------------------------------------------------------------------------
(* data/.  Each of its directories is named by its path.                   *)

(* A path of data/ consists of names that each level lists.                *)
Shown(path) ==
  \A p \in Ancestry(path) : BaseName(p) \in get_source_path_prefixes(db, ParentOf(p))

DataDirs == {<< >>} \cup {p \in DOMAIN db.dirs \cup {<<n>> : n \in DirNames} : Shown(p)}

(* A directory hides a torrent of its name.                                *)
resolve_source_path_dir_lookup(path, name) ==
  IF name \in get_source_path_prefixes(db, path) THEN "SourcePathDir"
  ELSE IF <<path, name>> \in get_torrents_by_source_path(db, path) THEN "TorrentRoot"
  ELSE "none"

(* A row makes a torrent root; failing that, an add in flight makes a      *)
(* provisional one.                                                        *)
lookup_data_inode(key) ==
  LET found == resolve_source_path_dir_lookup(key[1], key[2]) IN
  /\ Free /\ key[1] \in DataDirs /\ key \notin persist_errors
  /\ \/ /\ found = "TorrentRoot"
        /\ roots' = Put(roots, db.rows[key].id, key) /\ UNCHANGED provisional
     \/ /\ found = "none" /\ key \in processing
        /\ provisional' = Put(provisional, key, key) /\ UNCHANGED roots
  /\ UNCHANGED <<disk, memory, listing, bounds, ghosts>>

collect_pending_entries(path, existing) ==
  {k[2] : k \in {j \in processing : j[1] = path}} \ existing

(* What the database has below path.                                       *)
LandedEntries(path) ==
  {k[2] : k \in get_torrents_by_source_path(db, path)} \cup get_source_path_prefixes(db, path)

readdir_data(path) ==
  LandedEntries(path) \cup collect_pending_entries(path, LandedEntries(path))

(* The provisional roots of path whose name has landed since.              *)
evict_stale_pending(path) ==
  Without(provisional, {r \in DOMAIN provisional :
    provisional[r][1] = path /\ provisional[r][2] \in LandedEntries(path)})

(* The cached listing answers while it carries the current_state.          *)
Serves(path) ==
  /\ listing # NoListing
  /\ listing.path = path
  /\ listing.processing = processing

readdir(path) ==
  /\ Free /\ path \in DataDirs /\ ~Serves(path)
  /\ ~\E k \in persist_errors : k[1] = path
  /\ listing' = [path |-> path, processing |-> processing, entries |-> readdir_data(path)]
  /\ LET here == get_torrents_by_source_path(db, path)
         ids == {db.rows[k].id : k \in here} IN
     roots' = [r \in DOMAIN roots \cup ids |->
                 IF r \in ids THEN CHOOSE k \in here : db.rows[k].id = r ELSE roots[r]]
  /\ LET kept == evict_stale_pending(path)
         made == {<<path, n>> : n \in collect_pending_entries(path, LandedEntries(path))} IN
     provisional' = [r \in DOMAIN kept \cup made |-> IF r \in made THEN r ELSE kept[r]]
  /\ UNCHANGED <<disk, memory, bounds, ghosts>>

-----------------------------------------------------------------------------
(* A crash keeps the database alone.  The restart rebuilds the inodes from *)
(* it (restore_metadata_inodes) and a handle for every row.  A row whose   *)
(* directory has no row shows up in the root of metadata/.                 *)

Crash ==
  /\ crashes < MaxCrashes /\ crashes' = crashes + 1
  /\ Numbering(DOMAIN db.dirs, Dirs) # {} /\ Numbering(DOMAIN db.rows, Files) # {}
  /\ LET dirs == CHOOSE m \in Numbering(DOMAIN db.dirs, Dirs) : TRUE
         files == CHOOSE m \in Numbering(DOMAIN db.rows, Files) : TRUE
         table == restore_metadata_inodes(db, dirs, files)
         kept == {k \in DOMAIN db.rows : KeyIn(table, files[k]) = k} IN
     /\ inodes' = table
     /\ promised' = [f \in Files |-> IF \E k \in kept : files[k] = f
                                     THEN table[f].data ELSE None]
     /\ astray' = {<<k, db.rows[k].content, db.rows[k].id>> : k \in DOMAIN db.rows \ kept}
  /\ open_files' = << >> /\ adds' = << >> /\ roots' = << >> /\ provisional' = << >>
  /\ processing' = {} /\ persist_errors' = {}
  /\ handles' = {InfoHash[db.rows[k].content] : k \in DOMAIN db.rows}
  /\ task' = Idle /\ listing' = NoListing /\ uncounted' = {}
  /\ UNCHANGED <<disk, failures>>

-----------------------------------------------------------------------------
Init ==
  /\ db = EmptyDatabase /\ inodes = << >> /\ open_files = << >> /\ processing = {}
  /\ persist_errors = {} /\ handles = {} /\ adds = << >> /\ task = Idle /\ roots = << >>
  /\ provisional = << >>
  /\ listing = NoListing /\ failures = 0 /\ crashes = 0 /\ requests = 0
  /\ promised = [f \in Files |-> None] /\ astray = {} /\ uncounted = {}

Parents == {METADATA_INO} \cup Dirs

(* The requests on names and on data/.                                     *)
Request ==
  \/ \E p \in Parents, n \in DirNames : mkdir(p, n)
  \/ \E d \in Dirs : rmdir(d) \/ \E p \in Parents, n \in DirNames : RenameDirectory(d, p, n)
  \/ \E p \in Parents : \E n \in Names[p] :
       mknod(p, n) \/ create(p, n) \/ (\E f \in Files : RenameFile(f, p, n))
  \/ \E h \in Handles : release(h)
  \/ \E f \in Files : open(f) \/ unlink(f) \/ \E g \in Files : RenameOver(f, g)
  \/ \E p \in DataDirs : readdir(p) \/ \E n \in UNION Range(Names) : lookup_data_inode(<<p, n>>)

Dispatch ==
  \/ requests < MaxRequests /\ requests' = requests + 1 /\ Request
  \/ /\ UNCHANGED requests
     /\ \/ \E h \in Handles, b \in Buffers : write(h, b)
        \/ \E f \in Files : setattr(f)
        \/ FinishRemoval

AddThread(key) ==
  \/ persist_torrent(key) \/ PersistFails(key)
  \/ ReleaseStale(key) \/ register_torrent_handle(key)

Next == Dispatch \/ (UNCHANGED requests /\ (Crash \/ \E key \in DOMAIN adds : AddThread(key)))

Spec == Init /\ [][Next]_vars

-----------------------------------------------------------------------------
(* Every structure holds what the program may put there: a name in         *)
(* processing_torrents has exactly one thread that will take it out again, *)
(* a directory's inode number is never a file's, an open handle keeps its  *)
(* inode.                                                                  *)
TypeOK ==
  /\ DOMAIN inodes \subseteq Files \cup Dirs
  /\ \A i \in DOMAIN inodes :
       /\ inodes[i].kind = (IF i \in Dirs THEN "dir" ELSE "file")
       /\ inodes[i].name \in (IF i \in Dirs THEN DirNames ELSE UNION Range(Names))
       /\ inodes[i].data \in Buffers
  /\ DOMAIN open_files \subseteq Handles /\ Range(open_files) \subseteq Files
  /\ processing = DOMAIN adds
  /\ handles \subseteq Hashes
  /\ \A k \in DOMAIN db.rows : db.rows[k].id \in RowIds
  /\ \A k, j \in DOMAIN db.rows : db.rows[k].id = db.rows[j].id => k = j
  /\ db.torrents = {db.rows[k].content : k \in DOMAIN db.rows}

(* No row without its file: what data/ mirrors is a file that metadata/    *)
(* shows, although rows are written by threads and files removed and       *)
(* renamed by the dispatcher.  Excepted are the rows that a directory      *)
(* rename overtook and those that a failed database left behind.           *)
RowsHaveNames ==
  Free => \A k \in DOMAIN db.rows : \/ \E f \in Visible : Key(f) = k
                                    \/ \E a \in astray : a[1] = k

(* A torrent whose close started an add is kept: its row has the closed    *)
(* content, or the add is still in flight, or its failure is recorded and  *)
(* data/ reports it, whatever was renamed, replaced or removed since, and  *)
(* across a crash once the row is there.                                   *)
ClosedTorrentsKept ==
  \A f \in Visible : promised[f] # None =>
    LET k == Key(f) IN
    \/ k \in DOMAIN db.rows /\ db.rows[k].content = promised[f]
    \/ k \in DOMAIN adds /\ adds[k].content = promised[f]
    \/ k \in persist_errors

(* Adding, removing and renaming leave no orphaned handle: the engine was  *)
(* asked to announce a torrent only while a row carries its info hash or   *)
(* its removal is under way, although the threads register a handle some   *)
(* steps after the row.  Excepted are a hash whose remaining rows could    *)
(* not be counted, which the program keeps, and an add that a directory    *)
(* rename overtook: its row may be gone when its handle is registered.     *)
(* Handles that late reads make again are the subject of EngineReads       *)
(* (HandlesAreListed).                                                     *)
HandlesHaveRows ==
  \A h \in handles :
    \/ get_torrents_by_infohash(db, h) # {}
    \/ task.hash = h
    \/ \E k \in DOMAIN adds : adds[k].stale = h
    \/ h \in uncounted
    \/ \E a \in astray : InfoHash[a[2]] = h

(* What data/ answers from memory is what the database would answer: a     *)
(* listing that is served equals a rebuilt one and leaves no provisional   *)
(* root of a name that has landed (evict_stale_pending), and a cached      *)
(* torrent root carries the key of its row.  Excepted are the rows that    *)
(* were left behind: a later rename may take a cached entry to the place   *)
(* of such a row, or away from it.                                         *)
CachesAreCurrent ==
  Free =>
    /\ \A p \in DataDirs : Serves(p) =>
         /\ listing.entries = readdir_data(p)
         /\ \A r \in DOMAIN provisional :
              provisional[r][1] = p /\ provisional[r] \in DOMAIN db.rows
                => \E a \in astray : a[1] = provisional[r]
    /\ \A r \in DOMAIN roots : \/ roots[r] \in DOMAIN db.rows /\ db.rows[roots[r]].id = r
                               \/ \E a \in astray : a[3] = r
=============================================================================
