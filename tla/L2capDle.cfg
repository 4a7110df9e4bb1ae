SPECIFICATION Spec
CONSTANTS
    AttLengths = {5, 70}
    OtherLengths = {6, 40}
    PduMaxes = {27, 251}
    TX_BUF_LEN = 64
    MaxMessages = 2
    Usize = 65536
    None = None
INVARIANTS
    FragmentFits
CHECK_DEADLOCK FALSE
