SPECIFICATION FairHardwareSpec
CONSTANTS
    Asked = {"FWVersion", "Values", "ImuData"}
    MaxConnects = 2
    MaxLine = 1
    Leftover = {}
    Joints <- MCJoints
    Commands <- MCCommands
    gear_ratio = 3
    pole_pairs = 2
    None = None
    NaN = NaN
    MaxPacket = 2
INVARIANTS
    CallbackWithInterface
    CommandsWhenActive
PROPERTIES
    StatesNeverOlder
    ServoIsLastCommand
    TelemetryArrives
CHECK_DEADLOCK FALSE
