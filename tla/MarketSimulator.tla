-------------------------- MODULE MarketSimulator --------------------------
(***************************************************************************)
(* The deterministic fills of backtest/market_simulator.py and the costs   *)
(* of backtest/transaction_cost.py.  The backtest engine and the paper     *)
(* broker fill their orders with the same simulator.                       *)
(***************************************************************************)
EXTENDS Money

CONSTANTS
    FeeRate,           \* fee_rate, in Unit-ths
    MinFee,            \* min_fee, charged on every fill with a notional
    TaxRate,           \* tax_rate, in Unit-ths, on sells only
    SlippageRate,      \* slippage_bps / 10000, in Unit-ths
    FillModel          \* FillModel of core/types.py

\* config.py accepts any non-negative cost; nothing bounds them from above.
ASSUME CostAssumption ==
    /\ FeeRate \in Nat /\ MinFee \in Nat /\ TaxRate \in Nat /\ SlippageRate \in Nat
    /\ FillModel \in {"next_open", "next_close"}

\* A bar is [open, close], an order is [ticker, side, quantity, ...].
Sides == {"buy", "sell"}
-----------------------------------------------------------------------------
Fee(quantity, price) ==
    LET notional == quantity * price
    IN  Max({Part(notional, FeeRate), IF notional > 0 THEN MinFee ELSE 0})

Tax(side, quantity, price) ==
    IF side = "sell" THEN Part(quantity * price, TaxRate) ELSE 0

PriceFromBar(bar) == IF FillModel = "next_open" THEN bar.open ELSE bar.close

FillPriceInFavour(side, base) ==
    IF side = "buy" THEN base - Part(base, SlippageRate)
                    ELSE base + Part(base, SlippageRate)

FillPrice(side, base) ==
    IF side = "buy" THEN base + Part(base, SlippageRate)
                    ELSE base - Part(base, SlippageRate)

\* MarketSimulator.fill: slippage against the order, costs on the fill price.
FillOrder(order, bar) ==
    LET price == FillPrice(order.side, PriceFromBar(bar))
    IN  [ticker   |-> order.ticker,
         side     |-> order.side,
         quantity |-> order.quantity,
         price    |-> price,
         fee      |-> Fee(order.quantity, price),
         tax      |-> Tax(order.side, order.quantity, price)]

\* Fill.cash_effect: what a fill does to the cash ledger.
CashEffectWithoutFee(fill) ==
    IF fill.side = "buy" THEN -(fill.quantity * fill.price)
                         ELSE fill.quantity * fill.price - fill.tax

CashEffectFeeReturned(fill) ==
    IF fill.side = "buy"
    THEN -(fill.quantity * fill.price + fill.fee + fill.tax)
    ELSE fill.quantity * fill.price + fill.fee - fill.tax

CashEffect(fill) ==
    IF fill.side = "buy"
    THEN -(fill.quantity * fill.price + fill.fee + fill.tax)
    ELSE fill.quantity * fill.price - fill.fee - fill.tax
-----------------------------------------------------------------------------
\* What buying costs in cash at an estimated price, fees included.
CashNeeded(quantity, price) == quantity * price + Fee(quantity, price)

AffordableBeforeFees(cash, price, desired) ==
    Max({0, Min({desired, cash \div FillPrice("buy", price)})})

\* The loop of affordable_quantity starts from the smaller of the desired
\* quantity and what cash buys at the slipped price, and takes one share off
\* until cash also covers the fee.  Its result is the largest quantity in
\* that range that cash covers, and 0 when there is none.
AffordableQuantity(cash, price, desired) ==
    LET estimated == FillPrice("buy", price)
        start     == Min({desired, cash \div estimated})
    IN  Max({0} \cup {q \in 1 .. start : CashNeeded(q, estimated) <= cash})
=============================================================================
