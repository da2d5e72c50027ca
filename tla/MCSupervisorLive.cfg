\* Shutdown liveness on two services without stopon edges or control requests.
CONSTANTS
    a = a  b = b  c = c
    p1 = p1  p2 = p2  p3 = p3  p4 = p4  none = none
    Svc <- LiveSvc
    RepoOrder <- LiveRepoOrder
    Pid <- LivePid
    NoChild = none
    Targets <- LiveTargets
    BootTarget = "boot"
    StartNr <- MCStartNr
    StopNr <- LiveStopNr
    HasDaemon <- MCHasDaemon
    StartonPoll <- MCStartonPoll
    StoponPoll <- LiveStoponNone
    SpawnMayFail = FALSE
    Dirs <- MCDirsRoot
    Root <- MCRoot
    ParentDir <- MCParentDirRoot
    FsNames <- MCFsNames
    FsTypes <- MCFsTypes
    MountMayFail = FALSE
    MountLoadMayFail = FALSE
    InitMayFail = TRUE
    Requests = {}

SPECIFICATION Spec

INVARIANT LoggerLive
PROPERTY ShutdownCompletes
PROPERTY LifeSpec
