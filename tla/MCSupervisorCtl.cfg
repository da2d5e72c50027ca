\* Control requests and target switch on two services. The drain loop may really hang (finding: zero drain count), so deadlock is not checked.
CONSTANTS
    a = a  b = b  c = c
    p1 = p1  p2 = p2  p3 = p3  p4 = p4  none = none
    Svc <- LiveSvc
    RepoOrder <- LiveRepoOrder
    Pid <- LivePid
    NoChild = none
    Targets <- CtlTargets
    BootTarget = "boot"
    StartNr <- MCStartNr
    StopNr <- LiveStopNr
    HasDaemon <- MCHasDaemon
    StartonPoll <- MCStartonPoll
    StoponPoll <- LiveStoponNone
    SpawnMayFail = FALSE
    Dirs <- MCDirsRoot
    Root <- MCRoot
    ParentDir <- MCParentDirRoot
    FsNames <- MCFsNames
    FsTypes <- MCFsTypes
    MountMayFail = FALSE
    MountLoadMayFail = FALSE
    InitMayFail = FALSE
    Requests = {"start", "stop", "reload", "switch"}

SPECIFICATION Spec

INVARIANT NoStalePid
INVARIANT DownMeansStopped
CHECK_DEADLOCK FALSE
SYMMETRY PidSym
INVARIANT RootReadOnly
PROPERTY LifeSafety
