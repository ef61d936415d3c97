------------------------------ MODULE Metrics ------------------------------
(***************************************************************************)
(* The part of analytics/metrics.py in which rows are compared with each   *)
(* other: drawdown and its duration over the equity curve, profits and     *)
(* losses over the trades.  A drawdown is kept as the fraction             *)
(* equity / running_max of a date, which the code lowers by 1.             *)
(***************************************************************************)
EXTENDS SequencesExt, Sums

\* calculate_drawdown; the first equity of a run is its capital, above 0.
DrawdownAt(curve, k) == [num |-> curve[k], den |-> Max(ToSet(SubSeq(curve, 1, k)))]

Below(a, b) == a.num * b.den < b.num * a.den

FinalDrawdown(curve) == DrawdownAt(curve, Len(curve))

\* drawdown.min()
MaxDrawdown(curve) ==
    LET drawdown == [k \in DOMAIN curve |-> DrawdownAt(curve, k)]
    IN  CHOOSE d \in Range(drawdown) : \A e \in Range(drawdown) : ~ Below(e, d)

IsUnderwater(drawdown) == drawdown.num < drawdown.den

MaxDrawdownDurationInTotal(curve) ==
    Cardinality({k \in DOMAIN curve : IsUnderwater(DrawdownAt(curve, k))})

\* max_drawdown_duration: its loop over the dates, one of them at a time.
AfterDate(before, drawdown) ==
    IF IsUnderwater(drawdown)
    THEN [current |-> before.current + 1,
          longest |-> Max({before.longest, before.current + 1})]
    ELSE [current |-> 0, longest |-> before.longest]

MaxDrawdownDuration(curve) ==
    LET after[k \in 0 .. Len(curve)] ==
            IF k = 0 THEN [current |-> 0, longest |-> 0]
            ELSE AfterDate(after[k - 1], DrawdownAt(curve, k))
    IN  after[Len(curve)].longest

\* wins.sum() and abs(losses.sum()).
GrossProfit(pnl) == SumUpTo([i \in DOMAIN pnl |-> IF pnl[i] > 0 THEN pnl[i] ELSE 0], Len(pnl))

GrossLossSigned(pnl) == SumUpTo([i \in DOMAIN pnl |-> IF pnl[i] < 0 THEN pnl[i] ELSE 0], Len(pnl))

GrossLoss(pnl) == -SumUpTo([i \in DOMAIN pnl |-> IF pnl[i] < 0 THEN pnl[i] ELSE 0], Len(pnl))

TotalPnl(curve, capital) == Last(curve) - capital

\* calculate_metrics: what it makes of the curve and the trades.  The gross profit
\* and loss are reported only as their quotient, profit_factor.
CalculateMetrics(curve, pnl, capital) ==
    [total_pnl             |-> TotalPnl(curve, capital),
     max_drawdown          |-> MaxDrawdown(curve),
     max_drawdown_duration |-> MaxDrawdownDuration(curve),
     gross_profit          |-> GrossProfit(pnl),
     gross_loss            |-> GrossLoss(pnl),
     trade_count           |-> Len(pnl)]
=============================================================================
