SPECIFICATION FairSpec
CONSTANTS
    Command = {c1, c2}
    Client = {t1, t2}
    Callbacks = {k1}
    None = None
    Receiver = Receiver
    RadioFails = TRUE
    GivesUp = TRUE
    MaxPackets = 2
INVARIANTS
    TypeOK
    TransmittedOnce
    RetiredNotInvoked
    PacketsAccounted
PROPERTIES
    MutexReleased
    ReceiverJoined
