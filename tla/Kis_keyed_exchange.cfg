SPECIFICATION Spec
CONSTANTS
    Requests <- FourRequests
    NoKey = "none"
    MaxRetries = 1
    HonoursKeys = TRUE
    MaxCalls = 3
CHECK_DEADLOCK FALSE
INVARIANTS
    TypeOK
    OneExchangeOrderPerKey
    RecordedWasReceived
    DryRunPostsNothing
PROPERTIES
    CallsReturn
