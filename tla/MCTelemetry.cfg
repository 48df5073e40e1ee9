SPECIFICATION Spec
CONSTANTS
    Files <- MCFiles
    Objects <- MCObjects
    GatewayId <- MCGatewayId
    Lowered <- MCLowered
    Digits <- MCDigits
    Types <- MCTypes
    Readings <- MCReadings
    MaxReadings = 2
INVARIANTS
    ServedAsWritten
    DevicesApart
    AsRead
    UnitsFit
\* A gateway that is refused has stopped.
CHECK_DEADLOCK FALSE
