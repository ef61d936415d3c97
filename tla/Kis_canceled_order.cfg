SPECIFICATION Spec
CONSTANTS
    Requests <- FourRequests
    NoKey = "none"
    MaxRetries = 1
    HonoursKeys = TRUE
    MaxCalls = 2
CHECK_DEADLOCK FALSE
INVARIANTS
    CanceledIsNotFilled
