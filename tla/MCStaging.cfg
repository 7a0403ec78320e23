CONSTANTS
    Files <- TwoOfTwo
    IdSpace = 3
    LossyKinds = {}
    FailingKinds = {}
    MaxFaults = 0
    SendConfigs <- ChunkOfTwo
    ExplicitIds = {}
    BareIds = {}
    MaxSends = 1
    ReceiverMax = 0
    StageMax = 1
    MaxSessions = 1
    Timely = FALSE
SPECIFICATION Spec
CHECK_DEADLOCK FALSE
INVARIANTS
    AnySizeAccepted
