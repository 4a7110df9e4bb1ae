SPECIFICATION Spec
CONSTANTS
    EVENT_QUEUE_LEN = 8
    MaxPush = 17
    None = None
INVARIANTS
    LostOnlyWhenOverwritten
    FifoUntilOverflow
PROPERTIES
    EveryEventDelivered
    LossyHandover
CHECK_DEADLOCK FALSE
