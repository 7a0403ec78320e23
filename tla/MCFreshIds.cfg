CONSTANTS
    Files <- EmptyAndThree
    IdSpace = 4
    LossyKinds = {"req", "chunk", "accept", "ack", "complete", "abort", "reject"}
    FailingKinds = {"req", "chunk", "accept", "ack", "complete", "store"}
    MaxFaults = 2
    SendConfigs <- WindowOneAndTwo
    ExplicitIds = {}
    BareIds = {}
    MaxSends = 2
    ReceiverMax = 0
    StageMax = 4
    MaxSessions = 3
    Timely = FALSE
SPECIFICATION Spec
CHECK_DEADLOCK FALSE
INVARIANTS
    OkMeansCommitted
    WrittenIsPrefix
    AckNeverAhead
    HandleDiscipline
PROPERTIES
    ImplementsService
