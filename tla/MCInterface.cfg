CONSTANTS
    s1 = s1
    s2 = s2
    t1 = t1
    q1 = q1
    HEADER_LEN = 2
    TX_LEN = 4
    Senders = {s1, s2}
    Values <- SomeValues
    MaxSends = 3
    MAX_BODY = 2
    MESSAGE_IDS = {1, 2}
    DEPTH = 2
    MAX_WAITERS = 1
    Pumps = {q1}
    Tasks = {t1}
    Predicates <- AnyBodyOrY
    Arrivals <- Payloads
    MaxArrivals = 3
SPECIFICATION FairPairSpec
CHECK_DEADLOCK FALSE
PROPERTIES
    ImplementsChannel
    WaitEnds
    WireDrains
