SPECIFICATION LLSpec
CONSTANTS
    Requests = {"PING_REQ", "PHY_REQ"}
    MaxPdus = 4
    MaxFragments = 2
    Divisors = {1, 2}
    DataLengths = {1, 27}
    NoAnswer = NoAnswer
INVARIANTS
    AcknowledgedIsHandled
    InStepAfterFragment
    HalvedLengthStopsData
PROPERTIES
    AnswerNotReplaced
CHECK_DEADLOCK FALSE
