CONSTANTS
    t1 = t1
    t2 = t2
    t3 = t3
    q1 = q1
    q2 = q2
    HEADER_LEN = 2
    MAX_BODY = 2
    MESSAGE_IDS = {1}
    DEPTH = 2
    MAX_WAITERS = 2
    Pumps = {q1, q2}
    Tasks = {t1, t2, t3}
    Predicates <- AnyBodyOrY
    Arrivals <- GoodAndBad
    MaxArrivals = 3
SPECIFICATION Spec
CHECK_DEADLOCK FALSE
SYMMETRY MailboxSymmetry
INVARIANTS
    TypeOK
    TakenInOrder
    NoLostWakeup
    Conserved
