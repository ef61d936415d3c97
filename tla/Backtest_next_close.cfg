SPECIFICATION Spec
CONSTANTS
    NumTickers = 2
    NumDays = 4
    Unit = 100
    InitialCapital = 21000
    FeeRate = 0
    MinFee = 1000
    TaxRate = 0
    SlippageRate = 0
    FillModel = "next_close"
    SizingMethod = "fixed_notional"
    FixedFraction = 50
    FixedNotional = 25000
    MinOrderQuantity = 2
    MinOrderNotional = 15000
    MaxPositions = 2
    MaxPositionWeight = 100
    MaxTotalExposure = 100
    MaxDailyOrders = 2
    Prices <- TwoPrices
INVARIANTS
    BookIdentity
PROPERTIES
    ImplementsAccount
