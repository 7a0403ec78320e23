CONSTANTS
    Addrs = {1, 2, 3}
    local_addr = 3
    OptionSets <- OptionsAtBoundaries
    FlowControls <- FlowControlsAtBoundaries
    Lengths = {3}
    MayFail = TRUE
    MaxPayloads = 2
    MaxArrivals = 3
    MaxSends = 3
    STD_BITS = 1
    EXT_BITS = 2
    FilterLists <- Lists
SPECIFICATION LinuxSpec
CHECK_DEADLOCK FALSE
INVARIANTS
    PerPeerInOrder
    UniformFlowControl
    NeverWaitsInVain
    ModeIsAsAsked
PROPERTIES
    ConfiguredReachesSockets
    FiltersAsAsked
