SPECIFICATION Spec
CONSTANTS
    NaN = NaN
    None = None
    Uninitialized = Uninitialized
    Base = 16
    Exponent = 8
    Fraction = 4096
    Steps = 2
    Settings <- MCSettings
    Ranges <- MCRanges
    Doubles <- MCDoubles
    Telemetry <- MCTelemetry
    Masks <- MCMasks
    ImuData <- MCImuData
    Words <- MCWords
    Names <- MCNames
    Uuids <- MCUuids
    Descriptions <- MCDescriptions
INVARIANTS
    LimitsSound
    CommandTransmitted
    ValuesRead
    ImuRead
    FloatKeepsOrder
    VersionRead
    TelemetryAgrees
    AcceptedOnce
    RotorOrServo
    ValidIsAccepted
