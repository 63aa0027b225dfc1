------------------------------- MODULE Mirror -------------------------------
(***************************************************************************)
(* What data/ shows of a stored torrent: the tables of FileTree, filled    *)
(* when the torrent's content is stored (Namespace) and deleted with it.   *)
(***************************************************************************)
EXTENDS Namespace, FileTree

CONSTANT Torrent    \* Torrent[c]: what parsing c yields

(* The rows of torrent_directories, directory_closure and torrent_files    *)
(* that go with a content.                                                 *)
Tree == [c \in Contents |-> insert_files_in_tx(info_files(Torrent[c]))]

Listed == [c \in Contents |-> ListsTorrent(Tree[c], Torrent[c])]

PendingListed == [c \in Contents |-> PendingShowsBelowTop(Tree[c], Torrent[c])]

(* The tables of a stored torrent show libtorrent's file list: the same    *)
(* directories, names and sizes, a multi-file torrent below the folder of  *)
(* its name, in libtorrent's file order.  While the torrent is added, the  *)
(* tree built from its bencoded list shows the same below that folder,     *)
(* which it leaves out: the contents of the folder are seen one level      *)
(* higher until the row is there.                                          *)
MirrorListsTorrent ==
  /\ \A c \in db.torrents : Listed[c]
  /\ \A k \in DOMAIN adds : PendingListed[adds[k].content]
=============================================================================
