SPECIFICATION Spec
CONSTANTS
    NumTickers = 2
    NumDays = 4
    Unit = 100
    InitialCapital = 40000
    FeeRate = 1
    MinFee = 150
    TaxRate = 1
    SlippageRate = 1
    FillModel = "next_open"
    SizingMethod = "equal_weight"
    FixedFraction = 50
    FixedNotional = 25000
    MinOrderQuantity = 2
    MinOrderNotional = 0
    MaxPositions = 1
    MaxPositionWeight = 100
    MaxTotalExposure = 100
    MaxDailyOrders = 2
    Prices <- TwoPrices
PROPERTIES
    OrderMeetsMinimums
