-------------------------- MODULE BacktestEngine --------------------------
(***************************************************************************)
(* The daily loop of backtest/engine.py: BacktestEngine.run takes the bars *)
(* of one date after the other, turns the executable signal of each ticker *)
(* into at most one order, fills it, and marks the book at the close.      *)
(*                                                                         *)
(* Bars and raw signals are inputs: any non-empty set of tickers trades on *)
(* a date, with any open and close, and the close yields any raw signal,   *)
(* which the ticker's next row finds as its executable signal.  The rows   *)
(* of the warm-up place no order and are not modelled.                     *)
(***************************************************************************)
EXTENDS MarketSimulator, OrderSizing, PositionBook, FiniteSets

CONSTANTS
    NumDays,           \* how many dates the data has (bound of the model)
    Prices,            \* the opens and closes that occur
    InitialCapital

\* The validators of data/ and backtest/ reject prices that are not positive
\* and data without a row.
ASSUME EngineAssumption ==
    NumDays \in Nat \ {0} /\ Prices \subseteq Nat \ {0} /\ InitialCapital \in Nat \ {0}

VARIABLES
    day,         \* dates completed
    phase,       \* "between" dates, "orders" within one, "done" or "crashed"
    bars,        \* day_rows of the current date
    todo,        \* tickers of the date the order loop has not reached
    signal,      \* executable_signal of each ticker's next row
    cash,        \* CashLedger.cash
    positions,   \* PositionBook.positions
    dailyOrders, \* daily_orders
    ordered,     \* tickers in the order_rows of the current date
    buyFees      \* fees of the buys in fill_rows

vars == <<day, phase, bars, todo, signal, cash, positions, dailyOrders, ordered, buyFees>>

Bars == [open : Prices, close : Prices]
NoBars == [t \in {} |-> 0]

Init ==
    /\ day = 0 /\ phase = "between"
    /\ bars = NoBars /\ todo = {}
    /\ signal = [t \in Tickers |-> FALSE]
    /\ cash = InitialCapital
    /\ positions = [t \in Tickers |-> EmptyPosition]
    /\ dailyOrders = 0 /\ ordered = {} /\ buyFees = 0
-----------------------------------------------------------------------------
EquityWithoutCash(book, money) == PositionsValue(book)

Equity(book, money) == money + PositionsValue(book)

OpenDayKeepingCount ==
    /\ phase = "between" /\ day < NumDays
    /\ \E traded \in (SUBSET Tickers) \ {{}} : \E dayRows \in [traded -> Bars] :
          /\ bars' = dayRows
          /\ todo' = traded
          /\ positions' = MarkToMarket(positions, [t \in traded |-> dayRows[t].open])
    /\ phase' = "orders" /\ ordered' = {}
    /\ UNCHANGED <<day, signal, cash, buyFees, dailyOrders>>

\* The next date of the frame: its rows by ticker, the book marked at the
\* opens, the order count started over.
OpenDay ==
    /\ phase = "between" /\ day < NumDays
    /\ \E traded \in (SUBSET Tickers) \ {{}} : \E dayRows \in [traded -> Bars] :
          /\ bars' = dayRows
          /\ todo' = traded
          /\ positions' = MarkToMarket(positions, [t \in traded |-> dayRows[t].open])
    /\ phase' = "orders" /\ dailyOrders' = 0 /\ ordered' = {}
    /\ UNCHANGED <<day, signal, cash, buyFees>>

\* The loop runs over sorted(day_rows).
IsNext(t) == phase = "orders" /\ t \in todo /\ \A u \in todo : t <= u

\* _build_buy_order: the quantity of the order, 0 when it returns None.  Size
\* and limits are all taken at the open, whatever the fill model is.
BuyQuantity(t) ==
    LET price      == bars[t].open
        exposure   == PositionsValue(positions)
        equity     == cash + exposure
        desired    == CalculateQuantity(equity, cash, price)
        affordable == AffordableQuantity(cash, price, desired)
    IN  CheckBuy(affordable, price, equity, exposure,
                 Cardinality(OpenPositions(positions)), dailyOrders)

\* _build_sell_order: the whole position or nothing.
SellQuantity(t) == CheckSell(positions[t].quantity, dailyOrders)

EntryWantedAgain(t) == signal[t]

EntryWanted(t) == signal[t] /\ positions[t].quantity = 0
ExitWanted(t)  == ~ signal[t] /\ positions[t].quantity > 0

\* The order's fill, applied to both ledgers and logged in one iteration.
Execute(t, side, quantity) ==
    LET fill == FillOrder([ticker |-> t, side |-> side, quantity |-> quantity], bars[t])
    IN  /\ cash' = cash + CashEffect(fill)
        /\ positions' = ApplyFill(positions, fill)
        /\ dailyOrders' = dailyOrders + 1
        /\ ordered' = ordered \cup {t}
        /\ buyFees' = IF side = "buy" THEN buyFees + fill.fee ELSE buyFees
        /\ todo' = todo \ {t}
        /\ UNCHANGED <<day, phase, bars, signal>>

Buy(t) ==
    /\ IsNext(t) /\ EntryWanted(t)
    /\ \E quantity \in {BuyQuantity(t)} : quantity > 0 /\ Execute(t, "buy", quantity)

Sell(t) ==
    /\ IsNext(t) /\ ExitWanted(t)
    /\ \E quantity \in {SellQuantity(t)} : quantity > 0 /\ Execute(t, "sell", quantity)

\* The ticker holds what its signal asks for, or its order was refused.
NoOrder(t) ==
    /\ IsNext(t)
    /\ EntryWanted(t) => BuyQuantity(t) = 0
    /\ ExitWanted(t) => SellQuantity(t) = 0
    /\ todo' = todo \ {t}
    /\ UNCHANGED <<day, phase, bars, signal, cash, positions, dailyOrders, ordered, buyFees>>

AtCloseUnlessOrdered ==
    MarkToMarket(positions, [t \in DOMAIN bars \ ordered |-> bars[t].close])

AtClose == MarkToMarket(positions, [t \in DOMAIN bars |-> bars[t].close])

\* The close mark and the rows of the date.  The cash weight of the row is
\* cash / equity.
CloseDay ==
    /\ phase = "orders" /\ todo = {}
    /\ Equity(AtClose, cash) # 0
    /\ positions' = AtClose
    /\ phase' = "between" /\ day' = day + 1
    /\ \E raw \in [DOMAIN bars -> BOOLEAN] :
          signal' = [t \in Tickers |-> IF t \in DOMAIN bars THEN raw[t] ELSE signal[t]]
    /\ bars' = NoBars
    /\ UNCHANGED <<todo, cash, dailyOrders, ordered, buyFees>>

\* cash / equity raises ZeroDivisionError, which nothing catches.
CloseDayFails ==
    /\ phase = "orders" /\ todo = {}
    /\ Equity(AtClose, cash) = 0
    /\ positions' = AtClose
    /\ phase' = "crashed"
    /\ UNCHANGED <<day, bars, todo, signal, cash, dailyOrders, ordered, buyFees>>

\* calculate_metrics raises the final equity over the initial capital to the
\* power of 1 / years.  Of a negative quotient that is a complex number, which
\* float() refuses; one date spans no years and has no cagr.  (A quotient so
\* large over so few days that the power overflows raises too; no price here
\* is that large, and it is left out.)
MetricsFail == Equity(positions, cash) < 0 /\ NumDays > 1

\* No date is left and the metrics can be computed.  BacktestScript has what
\* they are, and the artifacts that are written before run returns.
Finish ==
    /\ phase = "between" /\ day = NumDays
    /\ ~ MetricsFail
    /\ phase' = "done"
    /\ UNCHANGED <<day, bars, todo, signal, cash, positions, dailyOrders, ordered, buyFees>>

FinishFails ==
    /\ phase = "between" /\ day = NumDays
    /\ MetricsFail
    /\ phase' = "crashed"
    /\ UNCHANGED <<day, bars, todo, signal, cash, positions, dailyOrders, ordered, buyFees>>

Ended == phase \in {"done", "crashed"} /\ UNCHANGED vars

Next ==
    \/ OpenDay
    \/ \E t \in Tickers : Buy(t) \/ Sell(t) \/ NoOrder(t)
    \/ CloseDay
    \/ CloseDayFails
    \/ Finish
    \/ FinishFails
    \/ Ended

\* run() is one sequential call: it stops only where Ended holds.  No property
\* rests on the fairness; the counterexamples are to behaviours that go on.
Spec == Init /\ [][Next]_vars /\ WF_vars(Next)
-----------------------------------------------------------------------------
\* The types of the variables; a date's rows exist only within it.
TypeOK ==
    /\ day \in 0 .. NumDays
    /\ phase \in {"between", "orders", "done", "crashed"}
    /\ \E traded \in SUBSET Tickers : bars \in [traded -> Bars]
    /\ todo \subseteq DOMAIN bars
    /\ signal \in [Tickers -> BOOLEAN]
    /\ cash \in Int
    /\ positions \in [Tickers -> Position]
    /\ dailyOrders \in Nat /\ ordered \subseteq Tickers /\ buyFees \in Nat

\* Cash shortages shrink buy orders (engine.py:236): under next_open no chain
\* of buys, fees, slippage and sales ever leaves the cash ledger negative.
CashNonNegative == cash >= 0

\* check_buy counts the open positions of the moment, with every earlier
\* ticker of the same date settled: never more than max_positions are open.
PositionLimit == Cardinality(OpenPositions(positions)) <= MaxPositions

\* Every order of a date is counted, has an order_id (date, ticker, side) of
\* its own, and the count stops at max_daily_orders.
DailyOrderLimit ==
    /\ dailyOrders <= MaxDailyOrders
    /\ phase = "orders" => dailyOrders = Cardinality(ordered)

\* The two ledgers, changed by two separate calls per fill, tell one story:
\* cash plus what the open positions cost is the initial capital plus all
\* realised profit less the fees of the buys (which no trade's pnl contains).
BookIdentity == cash + BookCost(positions) = InitialCapital + RealizedPnl(positions) - buyFees

\* A ticker the loop has passed with a false signal is flat, unless the
\* date's order count is used up.
ExitCompleteness ==
    phase = "orders" =>
        \A t \in DOMAIN bars \ todo :
            ~ signal[t] /\ positions[t].quantity > 0 => dailyOrders = MaxDailyOrders

\* A position is entered once and left at once: while it is held neither its
\* quantity nor its entry price changes (strategy_spec.md, Rules).
WholePositionOnly ==
    [][\A t \in Tickers :
          LET before == positions[t]
              after  == positions'[t]
          IN  before.quantity > 0 =>
                \/ after.quantity = 0
                \/ after.quantity = before.quantity /\ after.avgPrice = before.avgPrice]_vars

\* risk.py's limits hold of every purchase to the extent the code measures
\* them.  It measures at the open and before the fee: with the position moved
\* back from its fill price to the open, and the fee given back, the book's
\* value and the position's weight are within max_total_exposure and
\* max_position_weight.  Slippage, the fee and a fill at the close are all that
\* an order can go over them by.
ExposureWithinLimits ==
    [][phase = "orders" /\ phase' = "orders" =>
         \A t \in DOMAIN bars : positions'[t].quantity > positions[t].quantity =>
            LET quantity == positions'[t].quantity
                dearer   == quantity * (positions'[t].currentPrice - bars[t].open)
                equity   == Equity(positions', cash') + (buyFees' - buyFees)
            IN  /\ Unit * (PositionsValue(positions') - dearer) <= MaxTotalExposure * equity
                /\ Unit * (quantity * bars[t].open) <= MaxPositionWeight * equity]_vars

\* Every order is at least of the minimum quantity and notional.
OrderMeetsMinimums ==
    [][phase = "orders" /\ phase' = "orders" =>
         \A t \in DOMAIN bars : positions'[t].quantity > positions[t].quantity =>
            /\ positions'[t].quantity >= MinOrderQuantity
            /\ positions'[t].quantity * bars[t].open >= MinOrderNotional]_vars

\* A date's marks, counts and logs aside, the engine is an account that buys
\* into a ticker and sells out of it, each in one event on both ledgers.
TheAccount == INSTANCE Account WITH
    Quotes <- Prices, Capital <- InitialCapital,
    held <- [t \in Tickers |-> positions[t].quantity]

ImplementsAccount == TheAccount!InOrOut

\* run() gets past its divisions and powers: the equity of a date is never
\* zero, and the final one is not negative.
NeverCrashes == phase # "crashed"
=============================================================================
