CONSTANTS
    Files <- EmptyAndSeven
    IdSpace = 4
    LossyKinds = {"chunk", "ack"}
    FailingKinds = {}
    MaxFaults = 4
    SendConfigs <- PatientWindows
    ExplicitIds = {}
    BareIds = {}
    MaxSends = 2
    ReceiverMax = 0
    StageMax = 4
    MaxSessions = 2
    Timely = TRUE
SPECIFICATION FairSpec
CHECK_DEADLOCK FALSE
INVARIANTS
    LossIsRecovered
    MailboxHoldsTwoWindows
PROPERTIES
    OfferedIsCommitted
