---------------------------- MODULE OrderSizing ----------------------------
(***************************************************************************)
(* How many shares an order is for: the position sizer of                  *)
(* portfolio/sizing.py and the limits of portfolio/risk.py.                *)
(***************************************************************************)
EXTENDS Money

CONSTANTS
    SizingMethod,      \* "fixed_fraction", "fixed_notional" or "equal_weight"
    FixedFraction,     \* in Unit-ths
    FixedNotional,
    MinOrderQuantity,
    MinOrderNotional,
    MaxPositions,
    MaxPositionWeight, \* in Unit-ths
    MaxTotalExposure,  \* in Unit-ths
    MaxDailyOrders

\* What StrategyConfig, ExecutionConfig and RiskConfig validate.
ASSUME LimitAssumption ==
    /\ SizingMethod \in {"fixed_fraction", "fixed_notional", "equal_weight"}
    /\ FixedFraction \in Nat \ {0} /\ FixedNotional \in Nat \ {0}
    /\ MinOrderQuantity \in Nat \ {0} /\ MinOrderNotional \in Nat
    /\ MaxPositions \in Nat \ {0} /\ MaxDailyOrders \in Nat \ {0}
    /\ MaxPositionWeight \in 1 .. Unit /\ MaxTotalExposure \in 1 .. Unit
-----------------------------------------------------------------------------
\* The amount the sizing method asks for, in Unit-ths of a minor unit.
MethodNotional(equity) ==
    CASE SizingMethod = "fixed_fraction" -> equity * FixedFraction
      [] SizingMethod = "fixed_notional" -> FixedNotional * Unit
      [] SizingMethod = "equal_weight"   -> (equity * Unit) \div MaxPositions

\* PositionSizer.calculate_quantity.
CalculateQuantity(equity, cash, price) ==
    LET target   == Min({MethodNotional(equity), equity * MaxPositionWeight, cash * Unit})
        quantity == target \div (Unit * price)
    IN  IF quantity >= MinOrderQuantity THEN quantity ELSE 0

\* The notional check_buy leaves for one more position, in Unit-ths.
AllowedNotional(equity, exposure) ==
    Max({0, Min({equity * MaxPositionWeight,
                 equity * MaxTotalExposure - Unit * exposure})})

CheckBuyOffByOne(quantity, price, equity, exposure, open, dailyOrders) ==
    LET adjusted == Min({quantity, AllowedNotional(equity, exposure) \div (Unit * price)})
    IN  IF dailyOrders <= MaxDailyOrders /\ open <= MaxPositions THEN Max({0, adjusted}) ELSE 0

CheckBuyIgnoringExposure(quantity, price, equity, exposure, open, dailyOrders) ==
    IF dailyOrders < MaxDailyOrders /\ open < MaxPositions THEN quantity ELSE 0

\* RiskManager.check_buy: the quantity of the decision, 0 when it is refused.
CheckBuy(quantity, price, equity, exposure, open, dailyOrders) ==
    LET adjusted == Min({quantity, AllowedNotional(equity, exposure) \div (Unit * price)})
    IN  IF /\ dailyOrders < MaxDailyOrders
           /\ quantity > 0
           /\ open < MaxPositions
           /\ adjusted > 0
           /\ adjusted * price >= MinOrderNotional
        THEN adjusted
        ELSE 0

CheckSellOneMore(quantity, dailyOrders) ==
    IF dailyOrders < MaxDailyOrders /\ quantity > 0 THEN quantity + 1 ELSE 0

CheckSellOneEarly(quantity, dailyOrders) ==
    IF dailyOrders + 1 < MaxDailyOrders /\ quantity > 0 THEN quantity ELSE 0

\* RiskManager.check_sell, in the same form.
CheckSell(quantity, dailyOrders) ==
    IF dailyOrders < MaxDailyOrders /\ quantity > 0 THEN quantity ELSE 0
=============================================================================
