CONSTANTS
    c1 = c1
    c2 = c2
    Clients = {c1, c2}
    AllowedFrom = {17}
    TxDepth = 1
    RxDepth = 1
    TxBurstLimit = 2
    FixedReplyTo = {34}
    CallSpace = 3
    Incoming <- AllKinds
    MaxIncoming = 2
SPECIFICATION FairSpec
CHECK_DEADLOCK FALSE
INVARIANTS
    WaitingIsPending
    EventsInOrder
PROPERTIES
    SendReturns
    ReceiveNotStarved
