--------------------------- MODULE BacktestScript ---------------------------
(***************************************************************************)
(* scripts/run_backtest.py from its two input files to its report: main    *)
(* loads the configuration and the prices, constructs the engine and runs  *)
(* it; run prepares the prices, generates the signals, goes through the    *)
(* dates, computes the metrics and exports the artifacts one by one.  An   *)
(* exception anywhere ends the script.                                     *)
(*                                                                         *)
(* Here the bars and signals, which BacktestEngine takes as they come, are *)
(* those of the price file.                                                *)
(***************************************************************************)
EXTENDS BacktestEngine, Signals, Metrics, Configuration

CONSTANT Inputs        \* [files, frame]: the contents of the YAML files and of the CSV

\* The rows that name a ticker name one of Tickers (a bound of the model).
ASSUME InputAssumption ==
    /\ Missing \notin Tickers
    /\ \A i \in Inputs :
          /\ WellTyped(i.files) /\ IsFrame(i.frame)
          /\ \A row \in ToSet(i.frame.rows) : row.ticker \in Tickers \cup {Missing}

VARIABLES
    step,        \* what the script does next, or "exit" or "failed"
    input,       \* the files it was given
    config,      \* the ConfigBundle, None before it is loaded
    groups,      \* the validated rows, by ticker
    data,        \* per date, the rows with their executable signals
    curve,       \* the equity of each completed date (equity_rows)
    pnl,         \* the pnl of each trade (PositionBook.trades)
    metrics,     \* the metrics, << >> before they are calculated
    artifacts    \* whose content each file of the output directory has

engineVars == vars
scriptVars == <<step, input, config, groups, data, curve, pnl, metrics, artifacts, engineVars>>

\* In the order of export.
ArtifactOrder ==
    << "equity_curve.csv", "cash.csv", "positions.csv", "orders.csv", "fills.csv", "trades.csv",
       "metrics.json", "config_snapshot.yaml", "run.log.jsonl", "tearsheet.png" >>

ScriptInit ==
    /\ Init /\ input \in Inputs
    /\ step = "config"
    /\ config = None /\ groups = << >> /\ data = << >> /\ curve = << >> /\ pnl = << >> /\ metrics = << >>
    /\ artifacts = [a \in ToSet(ArtifactOrder) |-> "previous"]
-----------------------------------------------------------------------------
LoadConfig ==
    /\ step = "config"
    /\ IF CanLoad(input.files)
       THEN config' = Bundle(input.files) /\ step' = "load"
       ELSE step' = "failed" /\ UNCHANGED config
    /\ UNCHANGED <<input, groups, data, curve, pnl, metrics, artifacts, engineVars>>

LoadData ==
    /\ step = "load"
    /\ IF Validates(input.frame)
       THEN groups' = [t \in Tickers |-> Group(input.frame, t)] /\ step' = "construct"
       ELSE step' = "failed" /\ UNCHANGED groups
    /\ UNCHANGED <<input, config, data, curve, pnl, metrics, artifacts, engineVars>>

\* A bound of the model: it follows a configuration into the daily loop only
\* if the engine's part of it is what the constants are.  Nothing is said of
\* how the script goes on with any other.
IsInstance(bundle) ==
    LET s == bundle.strategy  e == bundle.execution  r == bundle.risk
    IN  /\ <<s.initial_capital, s.sizing_method, s.fixed_notional>>
             = <<InitialCapital, SizingMethod, FixedNotional>>
        /\ <<e.fill_model, e.min_fee, e.min_order_quantity, e.min_order_notional>>
             = <<FillModel, MinFee, MinOrderQuantity, MinOrderNotional>>
        /\ <<r.max_positions, r.max_daily_orders>> = <<MaxPositions, MaxDailyOrders>>
        /\ <<s.fixed_fraction * Unit, e.fee_rate * Unit, e.tax_rate * Unit, e.slippage_bps * 100 * Unit,
             r.max_position_weight * Unit, r.max_total_exposure * Unit>>
             = <<FixedFraction * Million, FeeRate * Million, TaxRate * Million, SlippageRate * Million,
                 MaxPositionWeight * Million, MaxTotalExposure * Million>>

Construct ==
    /\ step = "construct"
    /\ step' = CASE ~ CanConstruct(config) -> "failed"
                 [] IsInstance(config)     -> "prepare"
                 [] OTHER                  -> "elsewhere"
    /\ UNCHANGED <<input, config, groups, data, curve, pnl, metrics, artifacts, engineVars>>

\* generate, and the grouping by date: the rows of each date by ticker.
Generated(strategy) ==
    LET rowAt(t, k) ==
            [open |-> groups[t][k].open, close |-> groups[t][k].close,
             executable |->
                ExecutableSignal(SignalPrices(groups[t], strategy), k, strategy)]
        rank(t, d) == CHOOSE k \in DOMAIN groups[t] : groups[t][k].date = d
        traded(d)  == {t \in Tickers : \E k \in DOMAIN groups[t] : groups[t][k].date = d}
    IN  [i \in DOMAIN Dates(groups) |->
            [t \in traded(Dates(groups)[i]) |-> rowAt(t, rank(t, Dates(groups)[i]))]]

HasRows == \E t \in Tickers : groups[t] # << >>

\* Another bound: the file has the dates and the prices of the constants.
IsFileOfInstance(rows) ==
    /\ DOMAIN rows = 1 .. NumDays
    /\ \A d \in DOMAIN rows : \A t \in DOMAIN rows[d] :
          rows[d][t].open \in Prices /\ rows[d][t].close \in Prices

\* prepare and generate.  Without a named row, there is nothing to concatenate.
Prepare ==
    /\ step = "prepare"
    /\ IF CanPrepare(input.frame, config.strategy) /\ HasRows
       THEN /\ data' = Generated(config.strategy)
            /\ step' = IF IsFileOfInstance(data') THEN "run" ELSE "elsewhere"
       ELSE step' = "failed" /\ UNCHANGED data
    /\ UNCHANGED <<input, config, groups, curve, pnl, metrics, artifacts, engineVars>>
-----------------------------------------------------------------------------
\* The executable signal in the ticker's first row after the current date.
\* After its last row it has none to look at.
NextSignal(t) ==
    LET later == {d \in DOMAIN data : d > day + 1 /\ t \in DOMAIN data[d]}
    IN  IF later = {} THEN FALSE ELSE data[Min(later)][t].executable

DayRows == [t \in DOMAIN data[day + 1] |->
              [open |-> data[day + 1][t].open, close |-> data[day + 1][t].close]]

Sold == \E t \in Tickers : positions'[t].quantity < positions[t].quantity

\* A step of the daily loop on the rows of the file.
RunStep ==
    /\ step = "run" /\ Next
    /\ phase = "between" /\ phase' = "orders" => bars' = DayRows
    /\ day' # day => \A t \in DOMAIN bars : signal'[t] = NextSignal(t)
    /\ curve' = IF day' # day THEN Append(curve, Equity(positions', cash')) ELSE curve
    /\ pnl' = IF Sold THEN Append(pnl, RealizedPnl(positions') - RealizedPnl(positions)) ELSE pnl
    /\ IF phase' = "done"
       THEN step' = "export" /\ metrics' = CalculateMetrics(curve, pnl, config.strategy.initial_capital)
       ELSE /\ step' = IF phase' = "crashed" THEN "failed" ELSE "run"
            /\ UNCHANGED metrics
    /\ UNCHANGED <<input, config, groups, data, artifacts>>

Remaining == {i \in DOMAIN ArtifactOrder : artifacts[ArtifactOrder[i]] = "previous"}

WriteArtifact ==
    /\ step = "export"
    /\ artifacts' = [artifacts EXCEPT ![ArtifactOrder[Min(Remaining)]] = "this run"]
    /\ step' = IF Cardinality(Remaining) = 1 THEN "exit" ELSE "export"
    /\ UNCHANGED <<input, config, groups, data, curve, pnl, metrics, engineVars>>

WriteFailsQuietly ==
    /\ step = "export"
    /\ \E left \in {"previous", "torn"} :
          artifacts' = [artifacts EXCEPT ![ArtifactOrder[Min(Remaining)]] = left]
    /\ step' = "exit"
    /\ UNCHANGED <<input, config, groups, data, curve, pnl, metrics, engineVars>>

\* The file cannot be opened, or not be written to its end.
WriteFails ==
    /\ step = "export"
    /\ \E left \in {"previous", "torn"} :
          artifacts' = [artifacts EXCEPT ![ArtifactOrder[Min(Remaining)]] = left]
    /\ step' = "failed"
    /\ UNCHANGED <<input, config, groups, data, curve, pnl, metrics, engineVars>>

ScriptEnded == step \in {"exit", "failed", "elsewhere"} /\ UNCHANGED scriptVars

ScriptNext ==
    \/ LoadConfig \/ LoadData \/ Construct \/ Prepare
    \/ RunStep
    \/ WriteArtifact \/ WriteFails
    \/ ScriptEnded

ScriptSpec == ScriptInit /\ [][ScriptNext]_scriptVars
-----------------------------------------------------------------------------
\* The rows of the dates before the current one are the first rows of a
\* ticker, and a strategy that had seen no others would act on the same signal:
\* neither the averages nor the shift nor the two sorts (by ticker, then by
\* date) let a price of today or later decide.
NoLookAhead ==
    phase = "orders" =>
        \A t \in DOMAIN bars : \E known \in 0 .. Len(groups[t]) :
            LET history == SignalPrices(SubSeq(groups[t], 1, known), config.strategy)
            IN  /\ \A k \in DOMAIN groups[t] :
                      groups[t][k].date < Dates(groups)[day + 1] <=> k <= known
                /\ signal[t] = (known > 0 /\ RawSignal(history, known, config.strategy))

\* Every named row of an accepted file is a bar of the run of its own: none is
\* lost to another one that falls on the same date.
NoBarLost ==
    data # << >> =>
        Cardinality({i \in DOMAIN input.frame.rows : input.frame.rows[i].ticker # Missing})
          = SumUpTo([d \in DOMAIN data |-> Cardinality(DOMAIN data[d])], Len(data))

\* What load_config accepts is what sizing, limits, costs and averages assume
\* of their parameters, and what the constructors after it accept.
Sizing(bundle) == INSTANCE OrderSizing WITH
    Unit <- Million,
    SizingMethod <- bundle.strategy.sizing_method,
    FixedFraction <- bundle.strategy.fixed_fraction,
    FixedNotional <- bundle.strategy.fixed_notional,
    MinOrderQuantity <- bundle.execution.min_order_quantity,
    MinOrderNotional <- bundle.execution.min_order_notional,
    MaxPositions <- bundle.risk.max_positions,
    MaxPositionWeight <- bundle.risk.max_position_weight,
    MaxTotalExposure <- bundle.risk.max_total_exposure,
    MaxDailyOrders <- bundle.risk.max_daily_orders

Costs(bundle) == INSTANCE MarketSimulator WITH
    Unit <- Million,
    FeeRate <- bundle.execution.fee_rate,
    MinFee <- bundle.execution.min_fee,
    TaxRate <- bundle.execution.tax_rate,
    SlippageRate <- bundle.execution.slippage_bps * 100,
    FillModel <- bundle.execution.fill_model

LoadedIsAssumed ==
    config # None =>
        /\ Sizing(config)!LimitAssumption
        /\ Costs(config)!CostAssumption
        /\ CanConstruct(config)

\* max_drawdown is the worst that can happen to anyone who enters on one date
\* and looks at the equity on a later one.
DrawdownIsWorstLoss ==
    metrics # << >> =>
        LET worst == metrics.max_drawdown
        IN  /\ \A i \in DOMAIN curve : \A j \in i .. Len(curve) :
                  worst.num * curve[i] <= curve[j] * worst.den
            /\ \E i \in DOMAIN curve : \E j \in i .. Len(curve) :
                  worst.num * curve[i] = curve[j] * worst.den

\* max_drawdown_duration is the length of the longest row of dates that are
\* all below an earlier date.
DurationIsLongestUnderwater ==
    metrics # << >> =>
        LET below(k) == \E i \in 1 .. k : curve[i] > curve[k]
            lengths  == {n \in 1 .. Len(curve) :
                           \E j \in n .. Len(curve) : \A k \in j - n + 1 .. j : below(k)}
            longest  == metrics.max_drawdown_duration
        IN  longest \in lengths \cup {0} /\ \A n \in lengths : n <= longest

\* The trade statistics account for the total: it is what trades won less what
\* they lost, less the fees of the buys, and what open positions are ahead.
ProfitExplained ==
    metrics # << >> =>
        metrics.total_pnl =
            metrics.gross_profit - metrics.gross_loss - buyFees
            + PositionsValue(positions) - BookCost(positions)

\* The script exits with 0 only if every file of the directory is of this run,
\* and a script that fails before it exports leaves the previous report whole.
ReportIsOfOneRun ==
    /\ step = "exit" => \A a \in DOMAIN artifacts : artifacts[a] = "this run"
    /\ metrics = << >> => \A a \in DOMAIN artifacts : artifacts[a] = "previous"

\* The latest close of a ticker in the first n dates.
IsLastClose(price, t, n) ==
    \E d \in 1 .. n :
        /\ t \in DOMAIN data[d] /\ price = data[d][t].close
        /\ \A later \in d + 1 .. n : t \notin DOMAIN data[later]

\* Between the dates the book is valued at the market: no open position is left
\* at the price of its fill or of a morning mark, and one whose ticker skips
\* dates is still at the close of its last row, whatever the others did.
MarkedAtLastClose ==
    phase \in {"between", "done"} =>
        \A t \in OpenPositions(positions) : IsLastClose(positions[t].currentPrice, t, day)
=============================================================================
