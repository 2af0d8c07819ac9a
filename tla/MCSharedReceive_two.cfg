SPECIFICATION Spec
CONSTANTS
    Interfaces = {left, right}
    ReceiveSize = 4
    MaxBytes = 3
INVARIANTS
    OwnBytesInOrder
CHECK_DEADLOCK FALSE
