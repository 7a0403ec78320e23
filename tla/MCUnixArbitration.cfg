CONSTANTS
    a = a
    b = b
    Conns = {a, b}
    MAX_FILTERS = 1
    MayShutdown = FALSE
    Tearing = {}
    Ids <- TwoIds
    FilterLists <- NoLists
    Ops <- Sends
    MaxRequests = 2
SPECIFICATION Spec
CHECK_DEADLOCK FALSE
PROPERTIES
    DominantFirst
