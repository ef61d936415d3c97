-------------------------- MODULE MCBacktestScript --------------------------
(***************************************************************************)
(* The instance of BacktestScript that TLC checks: price files of two      *)
(* tickers over five dates with bars that rise or fall; files that are     *)
(* written oddly or wrongly; configurations with one value out of range.   *)
(***************************************************************************)
EXTENDS BacktestScript

Bar(t, hour, opened, closed, adjusted) ==
    [ticker |-> t, date |-> hour, open |-> opened, close |-> closed,
     low |-> Min({opened, closed}), high |-> Max({opened, closed}),
     volume |-> 0, adjusted_close |-> adjusted]

Rising(t, d)  == Bar(t, 24 * d, 100, 200, 200)
Falling(t, d) == Bar(t, 24 * d, 200, 100, 100)

Csv(rows) ==
    [columns |-> REQUIRED_OHLCV_COLUMNS \cup {"adjusted_close"}, zone |-> 0, rows |-> rows]

\* Files in which the second ticker has no row on the third date, or on the
\* last one.
Moves == {"none", "rising", "falling"}
RowsOf(t, moves) ==
    LET traded == SelectSeq([d \in 1 .. NumDays |-> d], LAMBDA d : moves[d] # "none")
    IN  [i \in DOMAIN traded |->
           IF moves[traded[i]] = "rising" THEN Rising(t, traded[i]) ELSE Falling(t, traded[i])]
Steady    == {h \in [1 .. NumDays -> {"rising", "falling"}] : h[1] = "rising"}
Skipping ==
    UNION {{h \in [1 .. NumDays -> Moves] : \A d \in 1 .. NumDays : h[d] = "none" <=> d = gap} :
              gap \in {3, 5}}
AllFrames == {Csv(RowsOf(2, h2) \o RowsOf(1, h1)) : h1 \in Steady, h2 \in Skipping}

\* Adjusted closes with gaps.
Adjusted(prices) == Csv([d \in 1 .. NumDays |-> Bar(1, 24 * d, 100, 100, prices[d])])
GappyFrames ==
    {Adjusted(p) : p \in {q \in [1 .. NumDays -> {100, 200, Missing}] : q[1] = 100 /\ q[5] = 200}}

Plain == Csv(RowsOf(1, [d \in 1 .. NumDays |-> IF d = 3 THEN "falling" ELSE "rising"]))

AddRow(row)  == [Plain EXCEPT !.rows = Append(@, row)]
Put(column, value) == [Plain EXCEPT !.rows[2][column] = value]

OddFrames ==
    { AddRow(Bar(1, 24 * NumDays + 9, 100, 200, 200)),   \* a second bar of one date
      AddRow(Rising(1, NumDays)),                        \* a bar twice
      AddRow(Rising(Missing, 2)),                  \* a bar of no ticker
      [Plain EXCEPT !.rows = << Rising(Missing, 2) >>],
      [Plain EXCEPT !.rows = Reverse(@)],
      [Plain EXCEPT !.rows = << >>],
      [Plain EXCEPT !.columns = @ \ {"volume"}],
      [Plain EXCEPT !.columns = @ \ {"adjusted_close"}],
      [Plain EXCEPT !.zone = 9],                   \* midnights east of UTC
      \* 10:00 one day and 08:00 the next in Seoul are one day in UTC ...
      [Plain EXCEPT !.zone = 9, !.rows[1].date = 34, !.rows[2].date = 56],
      \* ... and 08:00 and 10:00 of one day are two.
      [Plain EXCEPT !.zone = 9, !.rows[1].date = 32, !.rows[2].date = 34],
      Put("open", 0), Put("close", Missing), Put("high", 150), Put("low", 150), Put("volume", -1) }
-----------------------------------------------------------------------------
File(given) == [mapping |-> TRUE, given |-> given]

Settings ==
    [strategy |-> File(
        [short_window |-> 1, long_window |-> 2, initial_capital |-> InitialCapital,
         sizing_method |-> SizingMethod,
         fixed_fraction |-> 500000, fixed_notional |-> FixedNotional]),
     execution |-> File(
        [fee_rate |-> 100000, slippage_bps |-> 1000, fill_model |-> "next_open"]),
     risk |-> File(
        [max_position_weight |-> 600000, max_positions |-> 2, max_daily_orders |-> 2]),
     broker |-> File(<< >>),
     logging |-> File(<< >>)]

Set(section, key, value) ==
    [Settings EXCEPT ![section].given = (key :> value) @@ @]

Adjusting == Set("strategy", "use_adjusted", TRUE)
Smoothed  == [Adjusting EXCEPT !.strategy.given = ("ma_type" :> "ema") @@ @]

OddSettings ==
    { Settings, Set("strategy", "unknown", 1), Set("strategy", "price_column", "vwap"),
      Set("strategy", "price_column", "ticker"), Set("strategy", "price_column", "date"),
      Set("strategy", "short_window", 0), Set("strategy", "short_window", 2),
      Set("strategy", "short_window", 3), Set("strategy", "ma_type", "wma"),
      Set("strategy", "initial_capital", 0), Set("strategy", "sizing_method", "all"),
      Set("strategy", "fixed_fraction", 0), Set("strategy", "fixed_notional", 0),
      Set("execution", "fill_model", "next_noon"), Set("execution", "fee_rate", -1),
      Set("execution", "min_fee", -1), Set("execution", "slippage_bps", -1),
      Set("execution", "min_order_quantity", 0),
      Set("risk", "max_position_weight", 0), Set("risk", "max_position_weight", Million + 1),
      Set("risk", "max_total_exposure", 0), Set("risk", "max_total_exposure", Million + 1),
      Set("risk", "max_positions", 0), Set("risk", "max_daily_orders", 0),
      Set("risk", "stop_loss_pct", Million), Set("broker", "name", "other"),
      Set("broker", "max_retries", -1), Set("logging", "level", "LOUD"),
      [Settings EXCEPT !.strategy = File(<< >>)],
      [Settings EXCEPT !.risk.mapping = FALSE] }

AllInputs ==
    {[files |-> Settings, frame |-> frame] : frame \in AllFrames}
    \cup {[files |-> files, frame |-> frame] :
             files \in {Adjusting, Smoothed}, frame \in GappyFrames}
    \cup {[files |-> Settings, frame |-> frame] : frame \in OddFrames}
    \cup {[files |-> files, frame |-> Plain] : files \in OddSettings}
=============================================================================
