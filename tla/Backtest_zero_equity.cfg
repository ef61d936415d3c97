SPECIFICATION Spec
CONSTANTS
    NumTickers = 2
    NumDays = 3
    Unit = 100
    InitialCapital = 20000
    FeeRate = 0
    MinFee = 0
    TaxRate = 0
    SlippageRate = 0
    FillModel = "next_close"
    SizingMethod = "equal_weight"
    FixedFraction = 50
    FixedNotional = 25000
    MinOrderQuantity = 1
    MinOrderNotional = 0
    MaxPositions = 1
    MaxPositionWeight = 100
    MaxTotalExposure = 100
    MaxDailyOrders = 2
    Prices <- TwoPrices
INVARIANTS
    NeverCrashes
