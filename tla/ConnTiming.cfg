CONSTANTS
    TimerMod = 4096
    WordMod = 16384
    CounterMod = 16
    Roles = {"Master", "Slave"}
    StartTimes = {0, 3700}
    Leftovers = {40, 1000}
    Params <- MCParams
    Instants = {0, 2}
    Gaps = {0, 205}
    TxTicks = {3}
    Delays = {5, 300}
    MaxPackets = 2
    None = None
SPECIFICATION Spec
INVARIANTS
    TimeoutMeansSilence
    AlignedAfterPacket
PROPERTY SilentLinkEnds
CHECK_DEADLOCK FALSE
