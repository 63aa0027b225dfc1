------------------------------ MODULE Migrations ------------------------------
(***************************************************************************)
(* Opening the database and bringing an old one up to date (database.rs).  *)
(* run_migrations reads user_version once, carries out the steps that are  *)
(* missing, and the process may be killed between any two writes: the      *)
(* first four steps commit with their version, the later ones commit their *)
(* tables first and record their version afterwards.                       *)
(*                                                                         *)
(* A torrent's files and directories are one tree, kept under its row's    *)
(* id, and named here by the .torrent bytes it was made from.              *)
(***************************************************************************)
EXTENDS Integers, FiniteSetsExt, Functions

CONSTANTS
  Bytes,        \* the contents of .torrent files
  Paths,        \* source paths; "" is the root of metadata/
  TitleOf,      \* the name inside each .torrent file
  FileNames,    \* names rows of version 4 and later may have
  MaxRows, MaxKills

ASSUME MigrationsAssumption ==
  /\ TitleOf \in [Bytes -> STRING] /\ {MaxRows, MaxKills} \subseteq Nat
  /\ "" \in Paths

VARIABLES
  db,        \* the database file
  process,   \* "closed", "opening", "open" or "failed"
  seen,      \* the user_version this open read
  step,      \* the next write of run_migrations
  kills,
  first      \* the rows the file held to begin with, by id

migrationVars == <<db, process, seen, step, kills, first>>

Null == "null"   \* a row without torrent_data

-----------------------------------------------------------------------------
(* The file: its user_version; its shape, the last step whose tables it     *)
(* has; rows and trees by id; names after the split; the directories of     *)
(* metadata/.                                                               *)

BytesOf(row) == IF row.null THEN Null ELSE row.title

NameOf(row, shape) ==
  <<row.path, IF shape < 4 THEN TitleOf[row.title] ELSE row.filename>>

\* The rows a release of this version could have: until version 4 a torrent
\* was in a directory once, from version 5 on a name was.
RowsOf(version) ==
  {rows \in UNION {[1..n -> [path : Paths, title : Bytes, null : BOOLEAN,
                              filename : IF version < 4 THEN {""} ELSE FileNames]] :
                    n \in IF version = 0 THEN {0} ELSE 0..MaxRows} :
     \A i, j \in DOMAIN rows : i # j =>
       IF version < 5 THEN <<rows[i].title, rows[i].path>> # <<rows[j].title, rows[j].path>>
       ELSE NameOf(rows[i], 5) # NameOf(rows[j], 5)}

-----------------------------------------------------------------------------
(* The steps, as functions on the file.                                     *)

migrate_v1(f) == [f EXCEPT !.shape = 2]

migrate_v2(f) == [f EXCEPT !.shape = 2]

migrate_v3(f) == [f EXCEPT !.shape = 3]

\* A column for names, filled with the torrents' own.
migrate_v4(f) ==
  [f EXCEPT !.shape = 4, !.version = 4,
            !.rows = [i \in DOMAIN @ |-> [@[i] EXCEPT !.filename = TitleOf[f.rows[i].title]]]]

\* The newest row of each name.
Newest(rows) ==
  {i \in DOMAIN rows : \A j \in DOMAIN rows :
     rows[j].path = rows[i].path /\ rows[j].filename = rows[i].filename => j <= i}

migrate_v5(f) ==
  [f EXCEPT !.shape = 5,
            !.rows = Restrict(@, Newest(f.rows)),
            !.trees = Restrict(@, DOMAIN @ \cap Newest(f.rows))]

\* The row whose new id a row's content is found under: rows are copied in the
\* order of their ids, and equal bytes share the first one's.
FirstOfBytes(rows, i) ==
  IF rows[i].null THEN i
  ELSE Min({j \in DOMAIN rows : ~rows[j].null /\ rows[j].title = rows[i].title})

\* torrents_v6 numbers its rows afresh.
NewId(rows, i) ==
  Cardinality({j \in DOMAIN rows : j <= FirstOfBytes(rows, i) /\ FirstOfBytes(rows, j) = j})

\* Mutant: the trees keep the ids of the old rows.
SplitKeepsIds(f) ==
  LET rows == f.rows
      kept == {i \in DOMAIN rows : FirstOfBytes(rows, i) = i}
      old(n) == CHOOSE i \in kept : NewId(rows, i) = n
  IN [f EXCEPT !.shape = 6,
               !.rows = [n \in {NewId(rows, i) : i \in kept} |-> rows[old(n)]],
               !.sources = {[path |-> rows[i].path, filename |-> rows[i].filename, id |-> NewId(rows, i)] :
                              i \in DOMAIN rows},
               !.trees = Restrict(@, DOMAIN @ \cap kept)]

\* Split the rows into contents and names; the trees of duplicates are deleted
\* and the others re-keyed.
migrate_v6(f) ==
  LET rows == f.rows
      kept == {i \in DOMAIN rows : FirstOfBytes(rows, i) = i}
      old(n) == CHOOSE i \in kept : NewId(rows, i) = n
  IN [f EXCEPT !.shape = 6,
               !.rows = [n \in {NewId(rows, i) : i \in kept} |-> rows[old(n)]],
               !.sources = {[path |-> rows[i].path, filename |-> rows[i].filename, id |-> NewId(rows, i)] :
                              i \in DOMAIN rows},
               !.trees = [n \in {NewId(rows, i) : i \in kept \cap DOMAIN @} |-> @[old(n)]]]

\* The loop over source paths that fills metadata_directories.
ensure_metadata_directories(f) ==
  [f EXCEPT !.dirs = @ \cup ({s.path : s \in f.sources} \ {""})]

-----------------------------------------------------------------------------
\* A file as the release of this version kept it.  What version 6 kept is what
\* migrate_v6 makes of the rows of version 5: names of their own, and contents
\* that no two rows share.
FileOf(version, rows) ==
  LET f == [version |-> version, shape |-> Min({version, 5}), rows |-> rows,
            trees |-> [i \in DOMAIN rows |-> rows[i].title],
            sources |-> {},
            dirs |-> IF version < 3 THEN {} ELSE {rows[i].path : i \in DOMAIN rows} \ {""}]
  IN IF version = 6 THEN migrate_v6(f) ELSE f

\* A new file, or one that an earlier release left.
MigrationsInit ==
  /\ \E version \in 0..6 : \E rows \in RowsOf(version) :
       /\ db = FileOf(version, rows)
       /\ first = [i \in DOMAIN rows |->
                     [name |-> NameOf(rows[i], version), bytes |-> BytesOf(rows[i]),
                      title |-> rows[i].title]]
  /\ process = "closed"
  /\ seen = 0 /\ step = 1 /\ kills = 0

-----------------------------------------------------------------------------
(* One action per write.                                                    *)

Open ==
  /\ process = "closed"
  /\ process' = "opening"
  /\ seen' = db.version
  /\ step' = 1
  /\ UNCHANGED <<db, kills, first>>

\* The n-th write: f, if the version read at the start is below the one it
\* brings; the open fails if the file is not of a shape its statements fit.
Write(n, below, shapes, f) ==
  /\ process = "opening" /\ step = n
  /\ \/ /\ seen >= below
        /\ step' = n + 1
        /\ UNCHANGED <<db, process>>
     \/ /\ seen < below /\ db.shape \in shapes
        /\ db' = f
        /\ step' = n + 1
        /\ process' = process
     \/ /\ seen < below /\ db.shape \notin shapes
        /\ process' = "failed"
        /\ UNCHANGED <<db, step>>
  /\ UNCHANGED <<seen, kills, first>>

\* The first transaction: whatever is missing up to version 4.
CommitV4 ==
  Write(1, 4, 0..3,
        migrate_v4(migrate_v3(IF seen < 1 THEN migrate_v1(db)
                              ELSE IF seen = 1 THEN migrate_v2(db) ELSE db)))

CommitV5 == Write(2, 5, 4..5, migrate_v5(db))

RecordV5 == Write(3, 5, 5..5, [db EXCEPT !.version = 5])

CommitV6 == Write(4, 6, 4..5, migrate_v6(db))

RecordV6 == Write(5, 6, 6..6, [db EXCEPT !.version = 6])

FillDirectories == Write(6, 3, 6..6, ensure_metadata_directories(db))

\* migrate_v7 creates indexes, if they do not exist.
migrate_v7 == Write(7, 7, 6..6, [db EXCEPT !.version = 7])

run_migrations ==
  CommitV4 \/ CommitV5 \/ RecordV5 \/ CommitV6 \/ RecordV6 \/ FillDirectories \/ migrate_v7

Opened ==
  /\ process = "opening" /\ step = 8
  /\ process' = "open"
  /\ UNCHANGED <<db, seen, step, kills, first>>

\* The process ends, by a kill or in order.
ProcessEnds ==
  /\ process # "closed"
  /\ kills < MaxKills
  /\ kills' = kills + 1
  /\ process' = "closed"
  /\ seen' = 0 /\ step' = 1
  /\ UNCHANGED <<db, first>>

\* Serving; after a failed open, without a database.
Stays ==
  /\ process \in {"open", "failed"}
  /\ UNCHANGED migrationVars

MigrationsNext == Open \/ run_migrations \/ Opened \/ ProcessEnds \/ Stays

-----------------------------------------------------------------------------
(* Properties.                                                              *)

\* The rows that must survive: the newest of each name.
Survivors ==
  {i \in DOMAIN first : \A j \in DOMAIN first : first[j].name = first[i].name => j <= i}

\* However often the process is killed while it upgrades an old file, a
\* database that opens shows every name the file had, each with the bytes of
\* the newest row of that name and with the files of those bytes; equal bytes
\* share one row; and no row is without a name.  A file that no longer opens
\* was cut off between migrate_v6's commit and the record of its version.
UpgradeKeepsTorrents ==
  /\ process = "open" =>
       /\ \A i \in Survivors : \E s \in db.sources :
            /\ <<s.path, s.filename>> = first[i].name
            /\ s.id \in DOMAIN db.rows /\ BytesOf(db.rows[s.id]) = first[i].bytes
            /\ s.id \in DOMAIN db.trees /\ db.trees[s.id] = first[i].title
       /\ Cardinality(db.sources) = Cardinality(Survivors)
       /\ DOMAIN db.trees = DOMAIN db.rows /\ DOMAIN db.rows = {s.id : s \in db.sources}
       /\ \A i, j \in DOMAIN db.rows :
            BytesOf(db.rows[i]) = BytesOf(db.rows[j]) => i = j \/ db.rows[i].null
  /\ process = "failed" => db.shape = 6 /\ db.version = 5

=============================================================================
