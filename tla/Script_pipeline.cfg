SPECIFICATION ScriptSpec
CONSTANTS
    NumTickers = 2
    NumDays = 5
    Unit = 10
    InitialCapital = 1000
    FeeRate = 1
    MinFee = 0
    TaxRate = 0
    SlippageRate = 1
    FillModel = "next_open"
    SizingMethod = "equal_weight"
    FixedFraction = 5
    FixedNotional = 500
    MinOrderQuantity = 1
    MinOrderNotional = 0
    MaxPositions = 2
    MaxPositionWeight = 6
    MaxTotalExposure = 10
    MaxDailyOrders = 2
    Prices = {100, 200}
    Missing = Missing
    None = None
    Inputs <- AllInputs
INVARIANTS
    NoLookAhead
    NoBarLost
    LoadedIsAssumed
    DrawdownIsWorstLoss
    DurationIsLongestUnderwater
    ProfitExplained
    ReportIsOfOneRun
    MarkedAtLastClose
