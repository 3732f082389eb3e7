SPECIFICATION FairSpec
CONSTANTS
    Frame = {f1}
    Caller = {t1}
    None = None
PROPERTY StopReturns
CHECK_DEADLOCK FALSE
