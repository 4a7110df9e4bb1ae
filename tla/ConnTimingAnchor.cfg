CONSTANTS
    TimerMod = 4096
    WordMod = 16384
    CounterMod = 16
    Roles = {"Master"}
    StartTimes = {0}
    Leftovers = {1000}
    Params <- MCParams
    Instants = {0, 2}
    Gaps = {0}
    TxTicks = {3}
    Delays = {5, 300}
    MaxPackets = 2
    None = None
SPECIFICATION Spec
INVARIANT AnchorAligned
CHECK_DEADLOCK FALSE
