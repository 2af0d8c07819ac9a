SPECIFICATION FairLookupSpec
CONSTANTS
    Asked = {"FWVersion"}
    MaxConnects = 1
    MaxLine = 1
    Leftover = {}
    maxRetry = 2
    MaxNoise = 1
    Torn = Torn
INVARIANTS
    PrintedOnce
    NoUseAfterDestruction
PROPERTIES
    Ends
CHECK_DEADLOCK FALSE
