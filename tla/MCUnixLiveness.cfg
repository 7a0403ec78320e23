CONSTANTS
    a = a
    b = b
    Conns = {a, b}
    MAX_FILTERS = 1
    MayShutdown = FALSE
    Tearing = {a}
    Ids <- OneId
    FilterLists <- FitsAndTooLong
    Ops <- Answered
    MaxRequests = 2
SPECIFICATION FairSpec
CHECK_DEADLOCK FALSE
PROPERTIES
    CallsReturn
