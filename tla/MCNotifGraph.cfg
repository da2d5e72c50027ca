\* Wiring pass: three services, every valid starton/stopon configuration.
CONSTANTS
    a = a
    b = b
    c = c
    ghost = ghost
    Svc <- MCSvc
    RepoOrder <- MCRepoOrder
    Missing = ghost
    MaxStarton = 2
    MaxStopon = 1

SPECIFICATION Spec

INVARIANT TypeOK
INVARIANT Acyclic
INVARIANT WiringMaximal
INVARIANT ObsrvOrder
