SPECIFICATION Spec
CONSTANTS
    AttLengths = {5, 70}
    OtherLengths = {6, 40}
    PduMaxes = {62, 251}
    TX_BUF_LEN = 64
    MaxMessages = 3
    Usize = 65536
    None = None
INVARIANTS
    HandledWhole
    RightChannel
    PanicCauses
PROPERTIES
    AttDelivered
CHECK_DEADLOCK FALSE
