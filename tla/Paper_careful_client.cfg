SPECIFICATION CarefulSpec
CONSTANTS
    NumTickers = 2
    Unit = 100
    FeeRate = 1
    MinFee = 150
    TaxRate = 1
    SlippageRate = 1
    FillModel = "next_close"
    NoKey = "none"
    Requests <- EngineRequests
    QuotedBars <- TwoBars
    InitialCash = 500000
    MaxCalls = 4
INVARIANTS
    CashFollowsFills
    FilledOnce
PROPERTIES
    ImplementsAccount
    TerminalStatusFinal
