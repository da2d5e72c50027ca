\* STATUS reply packing and walking over every listing of up to 3 services.
CONSTANTS
    MsgSizeMax = 34
    NameMax = 255
    MaxSvc = 3
    PathLens <- MCPathLens
    Pids <- MCPids
SPECIFICATION Spec
INVARIANTS TypeOK StatusRoundTrip
