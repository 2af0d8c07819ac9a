SPECIFICATION FairSpec
CONSTANTS
    Asked = {"FWVersion", "Values"}
    MaxConnects = 3
    MaxLine = 3
    Leftover = {"Values"}
INVARIANTS
    ConnectedIsReceived
    NoThreadLeft
PROPERTIES
    OneReceiver
    HandlerInConnection
    DisconnectReturns
    AnswersHandled
CHECK_DEADLOCK FALSE
