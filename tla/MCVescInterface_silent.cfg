SPECIFICATION SilentSpec
CONSTANTS
    Asked = {"FWVersion"}
    MaxConnects = 3
    MaxLine = 2
    Leftover = {"Values"}
PROPERTIES
    DisconnectReturns
CHECK_DEADLOCK FALSE
