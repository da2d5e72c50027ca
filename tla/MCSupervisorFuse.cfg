\* Shutdown with a FUSE mount left: its type is fuse.<subtype> in the mount table.
CONSTANTS
    a = a  b = b  c = c
    p1 = p1  p2 = p2  p3 = p3  p4 = p4  none = none
    Svc <- LiveSvc
    RepoOrder <- LiveRepoOrder
    Pid <- LivePid
    NoChild = none
    Targets <- LiveTargets
    BootTarget = "boot"
    StartNr <- MCStartNr
    StopNr <- LiveStopNr
    HasDaemon <- MCHasDaemon
    StartonPoll <- MCStartonPoll
    StoponPoll <- LiveStoponNone
    SpawnMayFail = FALSE
    Dirs <- MCDirs
    Root <- MCRoot
    ParentDir <- MCParentDir
    FsNames <- MCFsNamesFuse
    FsTypes <- MCFsTypes
    MountMayFail = TRUE
    MountLoadMayFail = FALSE
    InitMayFail = FALSE
    Requests = {}

SPECIFICATION Spec

INVARIANT MountTypesKnown
