SPECIFICATION FairSpec
CONSTANTS
    Client = {c1, c2}
    InitializeCommands = 2
    ConfigureCommands = 1
    MaxPackets = 2
    MaxSends = 1
    MaxCalls = 2
    MaxFaults = 1
INVARIANTS
    TypeOK
    StatusAccounted
    PacketsAnnounced
PROPERTIES
    ImplementsChannel
    PacketsDelivered
    JoinReturns
    DialogueEnds
CHECK_DEADLOCK FALSE
