SPECIFICATION Spec
CONSTANTS
    TimerMod = 4096
    StartTimes = {3864}
    Gaps = {0}
    AdvIntervals = {33}
    ScanSettings <- AllSettings
    channel_map = {0, 2}
    Delays = {4, 2000}
    SpinTicks = {150}
    Callbacks = {500}
    MaxCallback = 500
    Extended = TRUE
    MaxStarts = 1
    MaxRounds = 3
INVARIANTS
    DriftFree
    CycleExactUndisturbed
    WakesUndisturbed
    
PROPERTIES
    StopReturns
CHECK_DEADLOCK FALSE
