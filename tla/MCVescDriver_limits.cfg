SPECIFICATION NodeSpec
CONSTANTS
    NaN = NaN
    None = None
    Asked = {"FWVersion", "Values", "ImuData"}
    MaxConnects = 1
    MaxLine = 1
    Leftover = {}
    Firmware <- MCFirmware
    param_min <- MCMin
    param_max <- MCMax
    Commands <- MCCommands
    Degrees <- MCDegrees
INVARIANTS
    AnyValueAccepted
CHECK_DEADLOCK FALSE
