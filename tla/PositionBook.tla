---------------------------- MODULE PositionBook ----------------------------
(***************************************************************************)
(* The long-only position book of portfolio/positions.py.  A book maps     *)
(* every ticker to its position; a ticker the dict does not hold yet has   *)
(* the empty position that get() returns for it.  Tickers are their rank   *)
(* in sorted order.  Entry times, which only reports read, are left out;   *)
(* the price of a closed position, which is only ever multiplied by its    *)
(* quantity 0, is kept at 0.                                               *)
(***************************************************************************)
EXTENDS Money

CONSTANT NumTickers

ASSUME TickerAssumption == NumTickers \in Nat \ {0}

Tickers == 1 .. NumTickers

Position ==
    [quantity : Nat, avgPrice : Int, currentPrice : Int, realizedPnl : Int,
     status : {"open", "closed"}]

EmptyPosition ==
    [quantity |-> 0, avgPrice |-> 0, currentPrice |-> 0, realizedPnl |-> 0, status |-> "closed"]

\* The sum over all tickers of an integer per ticker.
Total(amount) == SumUpTo(amount, NumTickers)
-----------------------------------------------------------------------------
IsOpen(position) == position.quantity > 0 /\ position.status = "open"

OpenPositions(book) == {t \in Tickers : IsOpen(book[t])}

PositionsValue(book) ==
    Total([t \in Tickers |->
             IF IsOpen(book[t]) THEN book[t].quantity * book[t].currentPrice ELSE 0])

\* apply_fill, BUY: the average price is the weighted cost of the position.
AfterBuy(position, fill) ==
    LET quantity     == position.quantity + fill.quantity
        weightedCost == position.avgPrice * position.quantity + fill.price * fill.quantity
    IN  [position EXCEPT !.quantity     = quantity,
                         !.avgPrice     = weightedCost \div quantity,
                         !.currentPrice = fill.price,
                         !.status       = "open"]

AfterSellGross(position, fill) ==
    LET rest == position.quantity - fill.quantity
    IN  [quantity |-> rest,
         avgPrice |-> IF rest = 0 THEN 0 ELSE position.avgPrice,
         currentPrice |-> IF rest = 0 THEN 0 ELSE fill.price,
         realizedPnl |-> position.realizedPnl + (fill.price - position.avgPrice) * fill.quantity,
         status |-> IF rest = 0 THEN "closed" ELSE position.status]

AfterSellAtMark(position, fill) ==
    LET rest == position.quantity - fill.quantity
    IN  [quantity |-> rest,
         avgPrice |-> IF rest = 0 THEN 0 ELSE position.avgPrice,
         currentPrice |-> IF rest = 0 THEN 0 ELSE fill.price,
         realizedPnl |-> position.realizedPnl
                           + (position.currentPrice - position.avgPrice) * fill.quantity,
         status |-> IF rest = 0 THEN "closed" ELSE position.status]

\* apply_fill, SELL: realises the profit net of fee and tax, and closes the
\* position when nothing of it is left.
AfterSell(position, fill) ==
    LET rest     == position.quantity - fill.quantity
        realized == (fill.price - position.avgPrice) * fill.quantity - fill.fee - fill.tax
    IN  [quantity     |-> rest,
         avgPrice     |-> IF rest = 0 THEN 0 ELSE position.avgPrice,
         currentPrice |-> IF rest = 0 THEN 0 ELSE fill.price,
         realizedPnl  |-> position.realizedPnl + realized,
         status       |-> IF rest = 0 THEN "closed" ELSE position.status]

CanApplyAlways(book, fill) == TRUE

\* apply_fill raises ValueError exactly when this is false.
CanApply(book, fill) ==
    fill.side = "sell" => fill.quantity <= book[fill.ticker].quantity

ApplyFill(book, fill) ==
    [book EXCEPT ![fill.ticker] =
        IF fill.side = "buy" THEN AfterBuy(@, fill) ELSE AfterSell(@, fill)]

\* mark_to_market: prices is a function from some of the tickers.
MarkToMarket(book, prices) ==
    [t \in Tickers |->
        IF t \in DOMAIN prices /\ IsOpen(book[t])
        THEN [book[t] EXCEPT !.currentPrice = prices[t]]
        ELSE book[t]]
-----------------------------------------------------------------------------
\* What the open positions cost, and what the closed trades earned.
BookCost(book)    == Total([t \in Tickers |-> book[t].quantity * book[t].avgPrice])
RealizedPnl(book) == Total([t \in Tickers |-> book[t].realizedPnl])
=============================================================================
