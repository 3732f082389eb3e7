SPECIFICATION FairSpec
CONSTANTS
    Command = {c1}
    Client = {t1}
    Callbacks = {k1}
    None = None
    Receiver = Receiver
    RadioFails = FALSE
    GivesUp = FALSE
    MaxPackets = 0
PROPERTY AcceptedIsTransmitted
