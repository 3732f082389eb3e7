SPECIFICATION Spec
CONSTANTS
    Telemetry = {t1, t2, t3}
    Blank = Blank
    Capacity = 3
    MaxIndex = 4
INVARIANT TypeOK
PROPERTY ImplementsLog
