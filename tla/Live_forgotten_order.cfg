SPECIFICATION SessionSpec
CONSTANTS
    Requests <- ThreeRequests
    NoKey = "none"
    MaxRetries = 1
    HonoursKeys = TRUE
    MaxCalls = 3
    Funds = 2
    MaxSaves = 2
    MaxCrashes = 2
CHECK_DEADLOCK FALSE
PROPERTIES
    NoOpenOrderForgotten
