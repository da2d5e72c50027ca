---------------------------- MODULE MCSupervisor ----------------------------
(* Three services: a runs a start command then a daemon; b, a daemon, is  *)
(* started once a is READY (starton a); c runs one start command and has  *)
(* one stop command.  Four PIDs, one more than the services.              *)
EXTENDS Supervisor

CONSTANTS a, b, c, p1, p2, p3, p4, none

MCSvc == {a, b, c}
MCRepoOrder == <<a, b, c>>
MCPid == {p1, p2, p3, p4}
MCTargets == [t \in {"boot", "rescue"} |-> IF t = "boot" THEN <<a, b, c>> ELSE <<c>>]
MCStartNr == (a :> 1 @@ b :> 0 @@ c :> 1)
MCStopNr == (a :> 0 @@ b :> 0 @@ c :> 1)
MCHasDaemon == (a :> TRUE @@ b :> TRUE @@ c :> FALSE)
MCStartonPoll == (a :> <<>> @@ b :> <<a>> @@ c :> <<>>)
MCNoStopon == [s \in MCSvc |-> <<>>]
MCStartNrRenotif == (a :> 1 @@ b :> 1 @@ c :> 1)

(* Liveness: a (start command, then daemon) and b (daemon, starton a),    *)
(* three PIDs.                                                            *)
LiveSvc == {a, b}
LiveRepoOrder == <<a, b>>
LivePid == {p1, p2, p3}
PidSym == Permutations(LivePid)
MCPidSym == Permutations(MCPid)
LiveTargets == [t \in {"boot"} |-> <<a, b>>]
CtlTargets == [t \in {"boot", "other"} |-> IF t = "boot" THEN <<a, b>> ELSE <<b>>]
LiveStopNr == (a :> 1 @@ b :> 0)
LiveStoponNone == [s \in LiveSvc |-> <<>>]
(* The mounts left at shutdown: a disk filesystem or a tmpfs on /a, and   *)
(* on /a/b below it.                                                      *)
MCDirs == {"/", "/a", "/a/b"}
MCRoot == "/"
MCParentDir == ("/a" :> "/" @@ "/a/b" :> "/a")
MCFsNames == {"ext4", "tmpfs"}
MCFsTypes == ("ext4" :> FALSE @@ "tmpfs" :> TRUE @@ "fuse" :> TRUE)
(* A FUSE mount: /proc/mounts names its type fuse.<subtype>, while        *)
(* /proc/filesystems lists "fuse".                                        *)
MCFsNamesFuse == {"ext4", "fuse.sshfs"}
(* Runs about the loop itself: only the root is left mounted.             *)
MCDirsRoot == {"/"}
MCParentDirRoot == [d \in {} |-> "/"]
=============================================================================
