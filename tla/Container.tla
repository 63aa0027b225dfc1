------------------------------- MODULE Container -------------------------------
(***************************************************************************)
(* Containers that run torrentfs on one host directory: the supervisor     *)
(* (entrypoint.sh), the daemon it starts (main.rs), and the mounts both    *)
(* handle.  A rootful container mounts on an internal directory and        *)
(* publishes it on the shared host directory by a bind mount; any other    *)
(* mounts directly, where only it can see the mount.                       *)
(*                                                                         *)
(* A stop signal may reach the supervisor between any two of its commands; *)
(* its trap then runs cleanup and the script goes on where it was.         *)
(***************************************************************************)
EXTENDS Integers, Sequences, SequencesExt

CONSTANTS
  Containers, Rootful,
  MAX_SESSION_RECOVERIES,
  MaxStarts,    \* container starts per behaviour
  MaxFaults     \* kills, crashes, severed sessions and failing calls

ASSUME ContainerAssumption ==
  /\ Rootful \subseteq Containers /\ 0 \notin Containers
  /\ {MAX_SESSION_RECOVERIES, MaxStarts, MaxFaults} \subseteq Nat

VARIABLES
  box,      \* container -> its supervisor, daemon and internal mount
  host,     \* the mounts stacked on the host directory, the last one on top
  misled,   \* ghost: some lock was taken on a mount, not on the directory
  starts,
  faults

containerVars == <<box, host, misled, starts, faults>>

NoCode == -1

\* pc, trap: where the script is, and where its trap is ("" when not running);
\* inner: the daemon's own mount; lock: what the script's fd 9 has locked;
\* cut: its mountpoint is no longer the host directory.
Off ==
  [pc |-> "off", trap |-> "", stopping |-> FALSE, pid |-> FALSE, rc |-> NoCode,
   daemon_rc |-> NoCode, recoveries |-> 0, lock |-> <<"none">>,
   daemon |-> "none", term |-> FALSE, lost |-> FALSE, code |-> NoCode, inner |-> "none",
   cut |-> FALSE, clean |-> FALSE]

\* An earlier container, killed, may have left its mount (owner 0).
ContainerInit ==
  /\ box = [c \in Containers |-> Off]
  /\ host \in {<<>>, <<[owner |-> 0, kind |-> "dead"]>>}
  /\ misled = FALSE /\ starts = 0 /\ faults = 0

Costs(n) == faults + n <= MaxFaults /\ faults' = faults + n
Fault == Costs(1)
NoFault == Costs(0)

Becomes(c, b) ==
  /\ box' = [box EXCEPT ![c] = b]
  /\ misled' = (misled \/ b.lock[1] \in {"live", "bare", "stray"})

-----------------------------------------------------------------------------
(* Mounts.                                                                  *)

\* A mount on the host directory is a FUSE mount, with a server ("live") or
\* without, or a bind of the empty internal directory: "bare" when a stop
\* emptied it, "stray" when the daemon's session ended before it was bound.
Fuse == {"live", "dead"}

\* The entries of c lose their daemon.
Severed(c) ==
  [i \in DOMAIN host |-> IF host[i].owner = c /\ host[i].kind = "live"
                         THEN [host[i] EXCEPT !.kind = "dead"] ELSE host[i]]

\* What a container finds at its mountpoint: all the mounts, and the top one.
Stack(c) == IF c \in Rootful /\ ~box[c].cut THEN host ELSE <<>>

\* mountpoint_has_fuse: any entry counts, hidden or not.
mountpoint_has_fuse(stack) == \E i \in DOMAIN stack : stack[i].kind \in Fuse

mountpoint_enotconn(stack) == stack # <<>> /\ Last(stack).kind = "dead"

Unmounted(stack) == IF stack = <<>> THEN stack ELSE Front(stack)

\* The FUSE connection of c still has a mount to serve.
Attached(c) ==
  box[c].inner = "live" \/ \E i \in DOMAIN host : host[i] = [owner |-> c, kind |-> "live"]

-----------------------------------------------------------------------------
(* The supervisor, up to the loop.                                          *)

\* main's checks of arguments, configuration, /dev/fuse and state paths: each
\* may end the script with one of these codes.  They touch no mount and are not
\* modelled themselves.
Refusals == {1, 2, 100}

\* The script's process ends: with it the container, its mounts and its lock.
\* What it published stays on the host.  A restart policy tells a clean stop
\* from the other codes, and so does what is kept of the code.
Gone(c, rc) ==
  /\ Becomes(c, [Off EXCEPT !.pc = "gone", !.clean = (rc = 0)])
  /\ host' = Severed(c)

Start(c) ==
  /\ box[c].pc \in {"off", "gone"}
  /\ starts < MaxStarts
  /\ starts' = starts + 1
  /\ Becomes(c, [Off EXCEPT !.pc = "prepare"])
  /\ host' = [i \in DOMAIN host |-> IF host[i].owner = c THEN [host[i] EXCEPT !.owner = 0] ELSE host[i]]
  /\ NoFault

\* The script is between two commands and no trap is running.
At(c, pc) == box[c].pc = pc /\ box[c].trap = ""

Goto(c, pc) == Becomes(c, [box[c] EXCEPT !.pc = pc]) /\ host' = host

Prepare(c) ==
  /\ At(c, "prepare")
  /\ \/ Goto(c, "recover") /\ NoFault
     \/ Fault /\ \E code \in Refusals : Gone(c, code)

\* start_torrentfs, up to the probe of recover_stale_mountpoint.
ProbeStale(c) ==
  /\ At(c, "recover")
  /\ IF box[c].stopping THEN Gone(c, 0)
     ELSE Goto(c, IF mountpoint_enotconn(Stack(c)) THEN "reclaim" ELSE "lock")
  /\ NoFault

\* The rest of recover_stale_mountpoint: umount -l takes off what is on top by
\* now; with nothing there, the container's own bind of the host directory.
recover_stale_mountpoint(c) ==
  /\ At(c, "reclaim")
  /\ \/ /\ host' = Unmounted(host)
        /\ IF mountpoint_enotconn(host') THEN Becomes(c, [Off EXCEPT !.pc = "gone"])
           ELSE Becomes(c, [box[c] EXCEPT !.pc = "lock", !.cut = host = <<>>])
        /\ NoFault
     \/ Fault /\ Gone(c, 100)

\* exec 9<mountpoint; flock -n 9: what is locked is whatever is on top.
LockTarget(c) ==
  CASE c \in Rootful /\ box[c].cut -> <<"own", c>>
    [] Stack(c) = <<>> -> <<"dir">>
    [] OTHER -> <<Last(host).kind, Last(host).owner>>

Lock(c) ==
  /\ At(c, "lock")
  /\ \/ LockTarget(c)[1] = "dead" /\ Gone(c, 1)
     \/ /\ LockTarget(c)[1] # "dead"
        /\ IF \E o \in Containers \ {c} : box[o].lock = LockTarget(c) THEN Gone(c, 101)
           ELSE /\ Becomes(c, [box[c] EXCEPT !.pc = "check", !.lock = LockTarget(c)])
                /\ host' = host
  /\ NoFault

\* The rest of start_torrentfs, and the start of the two functions it calls.
start_torrentfs(c) ==
  /\ At(c, "check")
  /\ IF mountpoint_has_fuse(Stack(c)) THEN Gone(c, 101)
     ELSE IF box[c].stopping THEN Gone(c, 0) ELSE Goto(c, "top")
  /\ NoFault

\* start_torrentfs_rootless, where a bind mount cannot be propagated.
RefuseBind(c) ==
  /\ At(c, "check")
  /\ c \notin Rootful
  /\ ~box[c].stopping
  /\ Fault
  /\ Gone(c, 102)

-----------------------------------------------------------------------------
(* The loop.                                                                *)

\* What a stop reports: the daemon's own status, if the trap reaped it.
StopCode(b) == IF b.daemon_rc = NoCode THEN 0 ELSE b.daemon_rc

Break(c, rc) ==
  Becomes(c, [box[c] EXCEPT !.pc = "final", !.rc = rc, !.daemon_rc = NoCode])

RunDaemon(c) ==
  /\ At(c, "top")
  /\ NoFault /\ host' = host
  /\ \/ box[c].stopping /\ Break(c, StopCode(box[c]))
     \/ /\ ~box[c].stopping
        /\ Becomes(c, [box[c] EXCEPT !.pc = "pid", !.daemon = "boot"])

\* torrentfs_pid=$!, a command of its own.
SetPid(c) ==
  /\ At(c, "pid")
  /\ Becomes(c, [box[c] EXCEPT !.pc = "await", !.pid = TRUE])
  /\ host' = host /\ NoFault

\* wait: the shell has collected the status of the daemon, and forgets it.
Collected(b) == [b EXCEPT !.daemon = "none", !.code = NoCode]

\* wait_for_fuse_mount: ready, stopped, the daemon gone, or 30 seconds over;
\* rc holds what it returns.
wait_for_fuse_mount(c) ==
  LET b == box[c] IN
  /\ At(c, "await")
  /\ host' = host
  /\ \/ b.inner # "none" /\ Becomes(c, [b EXCEPT !.pc = "ready", !.rc = 0]) /\ NoFault
     \/ b.inner = "none" /\ b.stopping /\ Break(c, StopCode(b)) /\ NoFault
     \/ /\ b.inner = "none" /\ ~b.stopping /\ b.daemon = "exited"
        /\ Becomes(c, [Collected(b) EXCEPT !.pc = "ready",
                                           !.rc = IF b.code = 0 THEN 1 ELSE b.code])
        /\ NoFault
     \/ /\ b.inner = "none" /\ ~b.stopping /\ b.daemon # "exited"
        /\ Becomes(c, [b EXCEPT !.pc = "giveup", !.term = TRUE])
        /\ Fault

GiveUp(c) ==
  /\ At(c, "giveup")
  /\ box[c].daemon \in {"exited", "none"}
  /\ Becomes(c, [Collected(box[c]) EXCEPT !.pc = "ready", !.rc = 1])
  /\ host' = host /\ NoFault

Ready(c) ==
  LET b == box[c] IN
  /\ At(c, "ready")
  /\ IF b.stopping THEN Break(c, StopCode(b))
     ELSE Becomes(c, [b EXCEPT !.pc = CASE b.rc # 0 -> "exit"
                                        [] b.rc = 0 /\ c \in Rootful -> "bind"
                                        [] OTHER -> "wait"])
  /\ host' = host /\ NoFault

\* mount --bind: what is bound is what the internal directory shows by now.
Bind(c) ==
  LET b == box[c]
      kind == IF b.inner # "none" THEN b.inner ELSE IF b.stopping THEN "bare" ELSE "stray"
  IN /\ At(c, "bind")
     /\ \/ /\ host' = IF b.cut THEN host ELSE Append(host, [owner |-> c, kind |-> kind])
           /\ Becomes(c, [b EXCEPT !.pc = "published"])
           /\ NoFault
        \/ Fault /\ Becomes(c, [b EXCEPT !.pc = "exit", !.rc = 32]) /\ host' = host

\* Mutant: a stop after the bind trusts the trap to have undone it.
TrustTheTrap(c) ==
  /\ NoFault /\ host' = host
  /\ Break(c, StopCode(box[c]))

\* withdraw_publish_bind, after a stop that raced the bind: the trap may have
\* detached it already, or have run before there was anything to detach.
withdraw_publish_bind(c) ==
  \/ /\ host' = IF box[c].cut THEN host ELSE Unmounted(host)
     /\ Break(c, StopCode(box[c])) /\ NoFault
  \/ /\ Fault /\ host' = host
     /\ LET same == /\ Stack(c) # <<>> /\ Last(host).owner = c
                    /\ Last(host).kind = (IF box[c].inner = "none" THEN "bare" ELSE box[c].inner)
                    /\ Last(host).kind # "dead"
        IN Break(c, IF same THEN 103 ELSE StopCode(box[c]))

Published(c) ==
  /\ At(c, "published")
  /\ \/ box[c].stopping /\ withdraw_publish_bind(c)
     \/ ~box[c].stopping /\ Goto(c, "wait") /\ NoFault

\* wait for the daemon; a trap that ran meanwhile has reaped it.
Wait(c) ==
  LET b == box[c] IN
  /\ At(c, "wait")
  /\ \/ b.daemon = "exited" /\ b.pid
        /\ Becomes(c, [Collected(b) EXCEPT !.pc = "reaped", !.pid = FALSE, !.rc = b.code])
     \/ ~b.pid /\ Becomes(c, [b EXCEPT !.pc = "reaped", !.rc = 0])
  /\ host' = host /\ NoFault

should_recover_session(b) == b.rc = 104 /\ b.recoveries < MAX_SESSION_RECOVERIES

Reaped(c) ==
  LET b == box[c] IN
  /\ At(c, "reaped")
  /\ \/ b.stopping /\ Break(c, StopCode(b))
     \/ ~b.stopping /\ should_recover_session(b)
        /\ Becomes(c, [b EXCEPT !.pc = "detach", !.recoveries = @ + 1])
     \/ ~b.stopping /\ ~should_recover_session(b) /\ Becomes(c, [b EXCEPT !.pc = "final"])
  /\ host' = host /\ NoFault

\* force_unmount_fuse on the internal mount, detach_publish_bind on the
\* published one: what each may leave.  The second looks for a FUSE mount and
\* takes off the top one; when that was busy it looks again.
force_unmount_fuse(b) ==
  {[left |-> "none", ok |-> TRUE, fault |-> 0]}
  \cup IF b.inner = "none" THEN {} ELSE {[left |-> b.inner, ok |-> FALSE, fault |-> 1]}

detach_publish_bind(c) ==
  IF ~mountpoint_has_fuse(Stack(c)) THEN {[left |-> host, ok |-> TRUE, fault |-> 0]}
  ELSE {[left |-> Front(host), ok |-> TRUE, fault |-> 0],
        [left |-> Front(host), ok |-> ~mountpoint_has_fuse(Front(host)), fault |-> 0],
        [left |-> host, ok |-> FALSE, fault |-> 1]}

\* The two, in this order; the second only when the first succeeded.
DetachBoth(c, pc, rc, pcFailed, rcFailed) ==
  \E i \in force_unmount_fuse(box[c]) :
    LET failed == [box[c] EXCEPT !.inner = i.left, !.pc = pcFailed, !.rc = rcFailed] IN
    \/ ~i.ok /\ Becomes(c, failed) /\ host' = host /\ Costs(i.fault)
    \/ /\ i.ok
       /\ \E p \in detach_publish_bind(c) :
            /\ host' = p.left
            /\ Becomes(c, IF p.ok THEN [failed EXCEPT !.pc = pc, !.rc = rc] ELSE failed)
            /\ Costs(p.fault)

\* Before a restart, both mounts of the dead session are detached.
DetachDead(c) ==
  /\ At(c, "detach")
  /\ DetachBoth(c, "top", box[c].rc, "exit", box[c].rc)

\* After the loop: a clean stop must have left nothing behind.
Final(c) ==
  /\ At(c, "final")
  /\ \/ box[c].rc # 0 /\ Goto(c, "exit") /\ NoFault
     \/ box[c].rc = 0 /\ DetachBoth(c, "exit", 0, "exit", 103)

\* exit runs the trap once more, and the process ends.
Exit(c) ==
  /\ NoFault
  /\ \/ /\ At(c, "exit")
        /\ Becomes(c, [box[c] EXCEPT !.pc = "exiting", !.trap = "reap", !.stopping = TRUE])
        /\ host' = host
     \/ At(c, "exiting") /\ Gone(c, box[c].rc)

Script(c) ==
  /\ starts' = starts
  /\ \/ Prepare(c) \/ ProbeStale(c) \/ recover_stale_mountpoint(c) \/ Lock(c) \/ start_torrentfs(c)
     \/ RefuseBind(c) \/ RunDaemon(c) \/ SetPid(c) \/ wait_for_fuse_mount(c) \/ GiveUp(c) \/ Ready(c) \/ Bind(c)
     \/ Published(c) \/ Wait(c) \/ Reaped(c) \/ DetachDead(c) \/ Final(c) \/ Exit(c)

-----------------------------------------------------------------------------
(* The trap.                                                                *)

BeforeLoop == {"prepare", "recover", "reclaim", "lock", "check"}

\* stop_requested before the loop; afterwards cleanup, unless it is running.
StopSignal(c) ==
  LET b == box[c] IN
  /\ b.pc \notin {"off", "gone"} /\ ~b.stopping
  /\ Becomes(c, [b EXCEPT !.stopping = TRUE,
                          !.trap = IF b.pc \in BeforeLoop THEN "" ELSE "reap"])
  /\ UNCHANGED <<host, starts, faults>>

\* reap_daemon_on_stop: terminate the daemon the script knows of, and wait.
reap_daemon_on_stop(c) ==
  LET b == box[c] IN
  /\ b.trap = "reap"
  /\ \/ /\ b.pid /\ b.daemon \notin {"none", "exited"} /\ ~b.term
        /\ Becomes(c, [b EXCEPT !.term = TRUE])
     \/ /\ b.pid /\ b.daemon = "exited"
        /\ Becomes(c, [Collected(b) EXCEPT !.trap = "inner", !.pid = FALSE, !.daemon_rc = b.code])
     \/ /\ ~b.pid \/ b.daemon = "none"
        /\ Becomes(c, [b EXCEPT !.trap = "inner", !.pid = FALSE])
  /\ UNCHANGED <<host, faults>>

\* cleanup, after the daemon: both detaches may fail unnoticed.
CleanupInner(c) ==
  /\ box[c].trap = "inner"
  /\ \E i \in force_unmount_fuse(box[c]) :
       /\ Becomes(c, [box[c] EXCEPT !.inner = i.left, !.trap = IF c \in Rootful THEN "publish" ELSE ""])
       /\ Costs(i.fault)
  /\ host' = host

CleanupPublish(c) ==
  /\ box[c].trap = "publish"
  /\ Becomes(c, [box[c] EXCEPT !.trap = ""])
  /\ \E p \in detach_publish_bind(c) : host' = p.left /\ Costs(p.fault)

Trap(c) ==
  /\ starts' = starts
  /\ reap_daemon_on_stop(c) \/ CleanupInner(c) \/ CleanupPublish(c)

-----------------------------------------------------------------------------
(* The daemon.                                                              *)

Exited(b, code) == [b EXCEPT !.daemon = "exited", !.code = code, !.term = FALSE, !.lost = FALSE]

\* Its process ends; what is still mounted stays, without a server, unless
\* the mount helper (AutoUnmount) takes the internal one off.
DaemonExits(c, code) ==
  /\ \E m \in IF box[c].inner = "none" THEN {"none"} ELSE {"none", "dead"} :
       Becomes(c, [Exited(box[c], code) EXCEPT !.inner = m])
  /\ host' = Severed(c)

\* main up to install_shutdown_signal_handlers: a SIGTERM kills.
Boot(c) ==
  LET b == box[c] IN
  /\ b.daemon = "boot"
  /\ \/ b.term /\ DaemonExits(c, 143) /\ NoFault
     \/ Fault /\ DaemonExits(c, 1)
     \/ Becomes(c, [b EXCEPT !.daemon = "init"]) /\ host' = host /\ NoFault

\* Nothing to report when the directory is there or could be made.
mountpoint_setup_status(exists, created) == IF exists \/ created THEN {} ELSE {1}

\* The lock file is opened, and flock answers.
acquire_mountpoint_lock(opened, flock) ==
  IF ~opened \/ flock = "failed" THEN {1} ELSE IF flock = "EWOULDBLOCK" THEN {101} ELSE {}

classify_mount_error(kind, probe) ==
  IF kind = "PermissionDenied" THEN 2 ELSE IF probe = "Blocked" THEN 100 ELSE 1

\* The codes main ends with before it serves; 1 also of a bad configuration,
\* a state directory, the database or the engine, 3 without /dev/fuse.
StartupFailures ==
  UNION {{1, 3},
         UNION {mountpoint_setup_status(exists, created) : exists, created \in BOOLEAN},
         UNION {acquire_mountpoint_lock(opened, flock) :
                  opened \in BOOLEAN, flock \in {"taken", "EWOULDBLOCK", "failed"}},
         {classify_mount_error(kind, probe) :
            kind \in {"PermissionDenied", "other"}, probe \in {"Blocked", "NotBlocked"}}}

\* main, from there to the mount; a SIGTERM is only noted.
MainMounts(c) ==
  /\ box[c].daemon = "init"
  /\ \/ Fault /\ \E code \in StartupFailures : DaemonExits(c, code)
     \/ Becomes(c, [box[c] EXCEPT !.daemon = "serving", !.inner = "live"]) /\ host' = host /\ NoFault

\* wait_for_shutdown, its loop: the signal comes before the lost session.
ShutdownBegins(c) ==
  LET b == box[c] IN
  /\ b.daemon = "serving"
  /\ b.term \/ ~Attached(c)
  /\ Becomes(c, [b EXCEPT !.daemon = "drain", !.lost = ~b.term])
  /\ host' = host /\ NoFault

\* What /proc/self/mountinfo tells of the daemon's mount; <<>> if it cannot be read.
mountpoint_has_fuse_mount(c) == {<<box[c].inner # "none">>, <<>>}

session_lost_exit_code(attached) == IF attached = <<TRUE>> THEN 104 ELSE 102

\* unmount_fuse: up to three rounds; a mount already gone is success.
unmount_fuse(c, code, failed) ==
  \/ /\ Becomes(c, [Exited(box[c], code) EXCEPT !.inner = "none"])
     /\ host' = Severed(c) /\ NoFault
  \/ Fault /\ box[c].inner # "none" /\ DaemonExits(c, failed)

\* The rest of wait_for_shutdown, after engine, cache and workers stopped: each
\* within a bound, so the process always ends.
wait_for_shutdown(c) ==
  /\ box[c].daemon = "drain"
  /\ IF box[c].lost
     THEN \E attached \in mountpoint_has_fuse_mount(c) :
            LET code == session_lost_exit_code(attached) IN unmount_fuse(c, code, code)
     ELSE unmount_fuse(c, 0, 1)

\* External: the kernel aborts the connection.
Sever(c) ==
  /\ box[c].daemon = "serving" /\ Attached(c)
  /\ Fault
  /\ Becomes(c, [box[c] EXCEPT !.inner = IF @ = "live" THEN "dead" ELSE @])
  /\ host' = Severed(c)

DaemonDies(c) ==
  /\ box[c].daemon \notin {"none", "exited"}
  /\ Fault
  /\ DaemonExits(c, 137)

Daemon(c) ==
  /\ starts' = starts
  /\ \/ Boot(c) \/ MainMounts(c) \/ ShutdownBegins(c) \/ wait_for_shutdown(c)
     \/ Sever(c) \/ DaemonDies(c)

\* External: the whole container is killed.
Kill(c) ==
  /\ box[c].pc \notin {"off", "gone"}
  /\ Fault
  /\ Gone(c, 137)
  /\ starts' = starts

AllOver ==
  /\ \A c \in Containers : box[c].pc \in {"off", "gone"}
  /\ UNCHANGED containerVars

ContainerNext ==
  \/ \E c \in Containers : Start(c) \/ Script(c) \/ StopSignal(c) \/ Trap(c) \/ Daemon(c) \/ Kill(c)
  \/ AllOver

-----------------------------------------------------------------------------
(* Properties.                                                              *)

\* A container that reports a clean stop (exit 0) has left nothing of its own
\* on the host directory, wherever between fork, mount, bind and wait the stop
\* met it; and no two mounts are ever stacked there, neither on a dead one nor
\* on another container's.  Both hold as long as no session ended by itself
\* just before its bind (no detach recognises what was bound then), and every
\* lock was taken on the directory itself, not on a mount on its way off it.
MountsAccountedFor ==
  ~misled /\ (\A i \in DOMAIN host : host[i].kind # "stray") =>
    /\ \A c \in Containers : box[c].pc = "gone" /\ box[c].clean =>
         \A i \in DOMAIN host : host[i].owner # c
    /\ Len(host) <= 1

=============================================================================
