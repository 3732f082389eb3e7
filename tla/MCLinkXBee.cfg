SPECIFICATION Spec
CONSTANTS
    Letter = {0, 170}
    ShortLength = 0
    Payload <- MCPayload
    Options = {1, 2}
    Telemetry <- MCTelemetry
    Command <- MCCommand
    MaxDamage <- MCMaxDamage
    Twice = 0
INVARIANT XBeePacketsArrive
