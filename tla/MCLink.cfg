SPECIFICATION Spec
CONSTANTS
    Letter = {0, 1, 170}
    ShortLength = 3
    Payload <- MCPayload
    Options = {1, 2}
    Telemetry <- MCTelemetry
    Command <- MCCommand
    MaxDamage <- MCMaxDamage
    Twice = 3
INVARIANTS
    TypeOK
    PacketsArrive
    StuffingNeverFails
    DamageDetected
    NothingMisread
    CommandsSurvive
    TelemetrySurvives
    FramesRecovered
    FramesDelimited
