CONSTANTS
    c1 = c1
    c2 = c2
    Clients = {c1, c2}
    AllowedFrom = {17}
    TxDepth = 1
    RxDepth = 1
    RespDepth = 1
    TxBurstLimit = 2
    FixedReplyTo = {}
    CallSpace = 4
    Incoming <- OneSource
    MaxIncoming = 2
SPECIFICATION EmbassyFairSpec
CHECK_DEADLOCK FALSE
INVARIANTS
    OwnAnswer
    AnswerNeverBlocks
PROPERTIES
    CallReturns
