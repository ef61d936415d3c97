SPECIFICATION Spec
CONSTANTS
    NumTickers = 2
    Unit = 100
    FeeRate = 1
    MinFee = 150
    TaxRate = 1
    SlippageRate = 1
    FillModel = "next_open"
    NoKey = "none"
    Requests <- AnyRequests
    QuotedBars <- TwoBars
    InitialCash = 500000
    MaxCalls = 4
INVARIANTS
    CashFollowsFills
