CONSTANTS
    Files <- TwoOfTwo
    IdSpace = 2
    LossyKinds = {"req", "chunk", "accept", "ack", "complete"}
    FailingKinds = {"store"}
    MaxFaults = 1
    SendConfigs <- ChunkOneTwoInvalid
    ExplicitIds = {1}
    BareIds = {1}
    MaxSends = 2
    ReceiverMax = 0
    StageMax = 1
    MaxSessions = 2
    Timely = FALSE
SPECIFICATION FairSpec
CHECK_DEADLOCK FALSE
INVARIANTS
    TypeOK
    CommitIntegrity
    AckAfterWrite
PROPERTIES
    SendReturns
    HandleReleased
