CONSTANTS
    a = a
    b = b
    Conns = {a, b}
    MAX_FILTERS = 1
    MayShutdown = TRUE
    Tearing = {}
    Ids <- OneId
    FilterLists <- ExactAndMixed
    Ops <- Polling
    MaxRequests = 2
SPECIFICATION Spec
CHECK_DEADLOCK FALSE
SYMMETRY CanSymmetry
INVARIANTS
    InBusOrder
    AckedWasSent
    NoAckMeansAlone
    NothingMissed
    FiltersInForce
    GoneIsForgotten
