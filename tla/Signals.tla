------------------------------ MODULE Signals ------------------------------
(***************************************************************************)
(* The averages of indicators/moving_average.py and the signals that       *)
(* signals/ma_crossover.py computes of them, for one ticker.  Prices are   *)
(* the signal_price of its rows in date order; a price may be Missing,     *)
(* for only OHLCV columns are checked.  An average is an exact fraction.   *)
(***************************************************************************)
EXTENDS MarketData, Sums

Undefined      == [defined |-> FALSE]
Fraction(n, d) == [defined |-> TRUE, num |-> n, den |-> d]

\* sma: the mean of the window that ends in row k, undefined until the window
\* is full and while a price in it is missing.
SmaAt(prices, k, window) ==
    LET trailing == SubSeq(prices, k - window + 1, k)
    IN  IF k >= window /\ \A i \in DOMAIN trailing : trailing[i] # Missing
        THEN Fraction(SumUpTo(trailing, window), window)
        ELSE Undefined

\* ema: ewm(span, adjust=False) after one more price.  The average so far
\* decays by (window - 1) / (window + 1) with every row, also with one that
\* has no price; old / unit is what it has decayed by since the last price.
EmaStep(ema, price, window) ==
    LET old  == ema.old * (window - 1)
        new  == ema.unit * 2
    IN  IF price = Missing
        THEN IF ema.seen = 0 THEN ema
             ELSE [ema EXCEPT !.old = old, !.unit = @ * (window + 1)]
        ELSE IF ema.seen = 0
        THEN [seen |-> 1, num |-> price, den |-> 1, old |-> 1, unit |-> 1]
        ELSE [seen |-> ema.seen + 1,
              num  |-> old * ema.num + new * price * ema.den,
              den  |-> ema.den * (old + new),
              old  |-> 1, unit |-> 1]

\* min_periods counts the prices seen, wherever they are.
EmaAt(prices, k, window) ==
    LET start == [seen |-> 0, num |-> 0, den |-> 1, old |-> 1, unit |-> 1]
        after[n \in 0 .. k] ==
            IF n = 0 THEN start ELSE EmaStep(after[n - 1], prices[n], window)
    IN  IF after[k].seen >= window THEN Fraction(after[k].num, after[k].den) ELSE Undefined

AverageAt(prices, k, window, maType) ==
    IF maType = "sma" THEN SmaAt(prices, k, window) ELSE EmaAt(prices, k, window)
-----------------------------------------------------------------------------
\* raw_signal: the short average is above the long one, both being defined.
RawSignal(prices, k, strategy) ==
    LET short == AverageAt(prices, k, strategy.short_window, strategy.ma_type)
        long  == AverageAt(prices, k, strategy.long_window, strategy.ma_type)
    IN  /\ short.defined /\ long.defined
        /\ short.num * long.den > long.num * short.den

RawToday(prices, k, strategy) == RawSignal(prices, k, strategy)

\* executable_signal: the raw signal shifted down by one row.
ExecutableSignal(prices, k, strategy) == k > 1 /\ RawSignal(prices, k - 1, strategy)
=============================================================================
