CONSTANTS
    COC_CREDITS = 2
    SduLengths = {0, 5}
    ReadHandles = {6, 9}
    Paced = TRUE
    Callers = {"Master", "Slave"}
    MaxCalls = 4
    None = None
SPECIFICATION Spec
INVARIANTS
    CreditsAccounted
    Correlated
PROPERTY ExchangesEnd
CHECK_DEADLOCK FALSE
