SPECIFICATION Spec
CONSTANTS
    NumTickers = 3
    NumDays = 4
    Unit = 100
    InitialCapital = 50000
    FeeRate = 25
    MinFee = 3000
    TaxRate = 1
    SlippageRate = 1
    FillModel = "next_open"
    SizingMethod = "equal_weight"
    FixedFraction = 50
    FixedNotional = 25000
    MinOrderQuantity = 1
    MinOrderNotional = 0
    MaxPositions = 2
    MaxPositionWeight = 60
    MaxTotalExposure = 90
    MaxDailyOrders = 2
    Prices <- TwoPrices
INVARIANTS
    TypeOK
    CashNonNegative
    PositionLimit
    DailyOrderLimit
    BookIdentity
    ExitCompleteness
    NeverCrashes
PROPERTIES
    WholePositionOnly
    ExposureWithinLimits
