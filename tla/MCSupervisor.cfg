\* Boot, supervision and shutdown of three services without stopon edges.
CONSTANTS
    a = a  b = b  c = c
    p1 = p1  p2 = p2  p3 = p3  p4 = p4  none = none
    Svc <- MCSvc
    RepoOrder <- MCRepoOrder
    Pid <- MCPid
    NoChild = none
    Targets <- MCTargets
    BootTarget = "boot"
    StartNr <- MCStartNr
    StopNr <- MCStopNr
    HasDaemon <- MCHasDaemon
    StartonPoll <- MCStartonPoll
    StoponPoll <- MCNoStopon
    SpawnMayFail = FALSE
    Dirs <- MCDirs
    Root <- MCRoot
    ParentDir <- MCParentDir
    FsNames <- MCFsNames
    FsTypes <- MCFsTypes
    MountMayFail = TRUE
    MountLoadMayFail = TRUE
    InitMayFail = FALSE
    Requests = {}

SPECIFICATION Spec

INVARIANT TypeOK
INVARIANT NoStalePid
INVARIANT DrainAccounting
INVARIANT DownMeansStopped
INVARIANT NoUntrackedChild
INVARIANT UmountReported
INVARIANT LeavesFirst
SYMMETRY MCPidSym
