\* A starton sink with a start command in flight is notified again.
CONSTANTS
    a = a  b = b  c = c
    p1 = p1  p2 = p2  p3 = p3  p4 = p4  none = none
    Svc <- MCSvc
    RepoOrder <- MCRepoOrder
    Pid <- MCPid
    NoChild = none
    Targets <- MCTargets
    BootTarget = "boot"
    StartNr <- MCStartNrRenotif
    StopNr <- MCStopNr
    HasDaemon <- MCHasDaemon
    StartonPoll <- MCStartonPoll
    StoponPoll <- MCNoStopon
    SpawnMayFail = FALSE
    Dirs <- MCDirsRoot
    Root <- MCRoot
    ParentDir <- MCParentDirRoot
    FsNames <- MCFsNames
    FsTypes <- MCFsTypes
    MountMayFail = FALSE
    MountLoadMayFail = FALSE
    InitMayFail = FALSE
    Requests = {}

SPECIFICATION Spec

INVARIANT NoUntrackedChild
