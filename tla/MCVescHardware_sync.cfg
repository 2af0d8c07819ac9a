SPECIFICATION HardwareSpec
CONSTANTS
    Asked = {"FWVersion", "Values", "ImuData"}
    MaxConnects = 2
    MaxLine = 1
    Leftover = {}
    Joints <- MCJoints
    Commands <- MCCommands
    gear_ratio = 3
    pole_pairs = 2
    None = None
    NaN = NaN
    MaxPacket = 2
PROPERTIES
    SentIsCurrentState
CHECK_DEADLOCK FALSE
