SPECIFICATION HciSpec
CONSTANTS
    EVENT_QUEUE_LEN = 8
    SilenceLimit = 1
    None = None
    CREATE_PARAMS = 2
    HCI_QUEUE_LEN = 4
    FRAME_LEN = 6
    Packets <- HostPackets
    MaxPackets = 3
INVARIANTS
    AnsweredOnceInOrder
    EnableInEffect
    HostKnowsLink
    PanicsOnLongAcl
PROPERTY
    CommandAnswered
CHECK_DEADLOCK FALSE
