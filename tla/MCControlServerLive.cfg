\* Control server transport: every request of an authorized client is
\* answered when sends do not fail.
CONSTANTS
    c1 = c1
    c2 = c2
    c3 = c3
    Clients <- MCLiveClients
    Authorized <- MCAuthorized
    Types <- MCTypes
    Args <- MCArgs
    NBuf = 2
    RxMax = 2
    ClntQMax = 2
    SeqMod = 3
    SeqStarts = {2}
    MaxChats = 2
    MaxFail = 1
    SendFails <- MCSendFailsNone
SPECIFICATION Spec
PROPERTY Answered
CHECK_DEADLOCK FALSE
