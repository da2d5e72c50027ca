\* Target folder walk over every folder of up to 5 entries of each kind.
CONSTANTS
    a = a
    b = b
    fa = fa
    fb = fb
    fx = fx
    Svc <- MCSvc
    Files <- MCFiles
    ConfPath <- MCConfPath
    Dests <- MCDests
    MaxEnt = 5
    MayFail = TRUE
SPECIFICATION Spec
INVARIANTS TypeOK WalkResolves
