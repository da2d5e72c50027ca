\* Shutdown once every service was stopped by requests. The drain loop may really hang, so deadlock is not checked.
CONSTANTS
    a = a  b = b  c = c
    p1 = p1  p2 = p2  p3 = p3  p4 = p4  none = none
    Svc <- LiveSvc
    RepoOrder <- LiveRepoOrder
    Pid <- LivePid
    NoChild = none
    Targets <- LiveTargets
    BootTarget = "boot"
    StartNr <- MCStartNr
    StopNr <- LiveStopNr
    HasDaemon <- MCHasDaemon
    StartonPoll <- MCStartonPoll
    StoponPoll <- LiveStoponNone
    SpawnMayFail = FALSE
    Dirs <- MCDirsRoot
    Root <- MCRoot
    ParentDir <- MCParentDirRoot
    FsNames <- MCFsNames
    FsTypes <- MCFsTypes
    MountMayFail = FALSE
    MountLoadMayFail = FALSE
    InitMayFail = FALSE
    Requests = {"stop"}

SPECIFICATION Spec

PROPERTY ShutdownCompletes
CHECK_DEADLOCK FALSE
