\* The communicator may end in a real deadlock, the one of CommunicatorStop.cfg.
SPECIFICATION FairSpec
CONSTANTS
    Frame = {f1, f2, f3}
    Caller = {t1, t2}
    None = None
INVARIANT TypeOK
PROPERTIES
    ImplementsChannel
    EveryFrameWritten
    QuietWhenStopped
CHECK_DEADLOCK FALSE
