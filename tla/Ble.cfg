SPECIFICATION Spec
CONSTANTS
    EVENT_QUEUE_LEN = 8
    SilenceLimit = 1
    None = None
INVARIANTS
    NoEventDropped
    SettledView
    RadioBackToAdvertising
PROPERTIES
    NoLinkAfterStop
    StopCompletes
    TerminateEndsLink
