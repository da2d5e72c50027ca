\* Control server transport: buffer accounting and reply matching, with
\* interrupted and failing receives and sends.
CONSTANTS
    c1 = c1
    c2 = c2
    c3 = c3
    Clients <- MCClients
    Authorized <- MCAuthorized
    Types <- MCTypes
    Args <- MCArgs
    NBuf = 2
    RxMax = 2
    ClntQMax = 1
    SeqMod = 3
    SeqStarts = {2}
    MaxChats = 2
    MaxFail = 1
    SendFails <- MCSendFailsAll
SYMMETRY MCSymmetry
SPECIFICATION Spec
INVARIANTS TypeOK BuffersConserved OwnReply
CHECK_DEADLOCK FALSE
