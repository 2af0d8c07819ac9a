SPECIFICATION FairNodeSpec
CONSTANTS
    NaN = NaN
    None = None
    Asked = {"FWVersion", "Values", "ImuData"}
    MaxConnects = 1
    MaxLine = 2
    Leftover = {"Values"}
    Firmware <- MCFirmware
    param_min <- MCMin
    param_max <- MCMax
    Commands <- MCCommands
    Degrees <- MCDegrees
INVARIANTS
    AnnouncedIsFirmware
    NoCommandBeforeVersion
    CommandWithinLimits
PROPERTIES
    ReachesOperating
    LostPortEndsNode
CHECK_DEADLOCK FALSE
