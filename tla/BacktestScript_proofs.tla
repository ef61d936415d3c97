----------------------- MODULE BacktestScript_proofs -----------------------
(***************************************************************************)
(* The script from its input files to its report, for every file, every    *)
(* configuration and every number of dates: the report is of one run, its  *)
(* profit, drawdown and duration say what they are read as, what is loaded *)
(* is what the engine assumes, and no price of the day or of a later one   *)
(* decides an order.                                                       *)
(***************************************************************************)
EXTENDS BacktestScript, BacktestEngine_proofs, Signals_proofs

\* Whatever the script does, the engine takes a step of its own or none.
LEMMA EngineSteps == [ScriptNext]_scriptVars => [Next]_vars
BY DEF ScriptNext, scriptVars, engineVars, LoadConfig, LoadData, Construct, Prepare, RunStep,
       WriteArtifact, WriteFails, ScriptEnded

THEOREM EngineInvariance == ScriptSpec => []IInv
<1>1. ScriptInit => IInv
    BY InitIInv DEF ScriptInit
<1>2. IInv /\ [ScriptNext]_scriptVars => IInv'
    BY EngineSteps, NextKeeps
<1> QED
    BY <1>1, <1>2, PTL DEF ScriptSpec
-----------------------------------------------------------------------------
\* The report: until the metrics are there nothing is written, and then the
\* artifacts that are left are those still of the previous run.
Before == {"config", "load", "construct", "prepare", "run", "elsewhere"}

ReportInv ==
    /\ artifacts \in [ToSet(ArtifactOrder) -> {"previous", "torn", "this run"}]
    /\ step \in Before => metrics = << >>
    /\ metrics = << >> => \A a \in DOMAIN artifacts : artifacts[a] = "previous"
    /\ step = "export" => /\ metrics # << >> /\ Remaining # {}
                          /\ \A a \in DOMAIN artifacts : artifacts[a] \in {"previous", "this run"}
    /\ step = "exit" => \A a \in DOMAIN artifacts : artifacts[a] = "this run"

LEMMA Artifacts ==
    /\ DOMAIN ArtifactOrder = 1 .. 10
    /\ \A i, j \in 1 .. 10 : ArtifactOrder[i] = ArtifactOrder[j] => i = j
    /\ \A i \in 1 .. 10 : ArtifactOrder[i] \in ToSet(ArtifactOrder)
    /\ \A a \in ToSet(ArtifactOrder) : \E i \in 1 .. 10 : a = ArtifactOrder[i]
<1>1. DOMAIN ArtifactOrder = 1 .. 10
    BY DEF ArtifactOrder
<1>2. \A i, j \in 1 .. 10 : ArtifactOrder[i] = ArtifactOrder[j] => i = j
    BY DEF ArtifactOrder
<1> QED
    BY <1>1, <1>2 DEF ToSet

\* The metrics are a record, not the empty tuple.
LEMMA MetricsExist ==
    ASSUME NEW c, NEW p, NEW capital
    PROVE  CalculateMetrics(c, p, capital) # << >>
<1>1. "total_pnl" \in DOMAIN CalculateMetrics(c, p, capital)
    BY DEF CalculateMetrics
<1>2. DOMAIN << >> = {}
    OBVIOUS
<1> QED
    BY <1>1, <1>2

LEMMA WriteKeepsReport ==
    ASSUME ReportInv, WriteArtifact
    PROVE  ReportInv'
<1> DEFINE next == Min(Remaining)
<1>1. /\ Remaining # {} /\ Remaining \in SUBSET (1 .. 10) /\ step = "export" /\ metrics # << >>
      /\ artifacts \in [ToSet(ArtifactOrder) -> {"previous", "torn", "this run"}]
      /\ \A a \in DOMAIN artifacts : artifacts[a] \in {"previous", "this run"}
    BY Artifacts DEF ReportInv, Remaining, WriteArtifact
<1>2. next \in Remaining
  <2>1. Remaining \in SUBSET Nat
    <3>1. (1 .. 10) \in SUBSET Nat
        OBVIOUS
    <3> QED
        BY <1>1, <3>1
  <2>2. \E m \in Remaining : \A n \in Remaining : m <= n
      BY <1>1, <2>1, SmallestElement
  <2> QED
      BY <2>2 DEF Min
<1> HIDE DEF next
<1>3. /\ artifacts' = [artifacts EXCEPT ![ArtifactOrder[next]] = "this run"]
      /\ metrics' = metrics
      /\ step' = IF Cardinality(Remaining) = 1 THEN "exit" ELSE "export"
    BY DEF WriteArtifact, next
<1>4. /\ artifacts' \in [ToSet(ArtifactOrder) -> {"previous", "torn", "this run"}]
      /\ \A a \in DOMAIN artifacts' : artifacts'[a] \in {"previous", "this run"}
      /\ artifacts'[ArtifactOrder[next]] = "this run"
      /\ \A i \in 1 .. 10 : i # next => artifacts'[ArtifactOrder[i]] = artifacts[ArtifactOrder[i]]
    BY <1>1, <1>2, <1>3, Artifacts
<1>5. IsFiniteSet(Remaining)
  <2>1. IsFiniteSet(1 .. 10)
    <3>1. 1 \in Int /\ 10 \in Int
        OBVIOUS
    <3> QED
        BY <3>1, FS_Interval, Zenon
  <2> QED
      BY <1>1, <2>1, FS_Subset
<1>6. ASSUME Cardinality(Remaining) = 1
      PROVE  \A a \in DOMAIN artifacts' : artifacts'[a] = "this run"
  <2>1. PICK x : Remaining = {x}
      BY <1>5, <1>6, FS_Singleton
  <2>2. \A i \in 1 .. 10 : i # next => artifacts[ArtifactOrder[i]] # "previous"
      BY <2>1, <1>2, Artifacts DEF Remaining
  <2>3. \A i \in 1 .. 10 : artifacts'[ArtifactOrder[i]] = "this run"
      BY <2>2, <1>1, <1>4, Artifacts
  <2>4. DOMAIN artifacts' = ToSet(ArtifactOrder)
      BY <1>4
  <2> TAKE a \in DOMAIN artifacts'
  <2>5. PICK i \in 1 .. 10 : a = ArtifactOrder[i]
      BY <2>4, Artifacts
  <2> QED
      BY <2>3, <2>5
<1>7. ASSUME Cardinality(Remaining) # 1
      PROVE  Remaining' # {}
  <2>1. PICK i \in Remaining : i # next
    <3>1. Remaining # {next}
        BY <1>7, <1>5, FS_Singleton
    <3> QED
        BY <3>1, <1>2
  <2>2. artifacts'[ArtifactOrder[i]] = "previous" /\ i \in 1 .. 10
      BY <2>1, <1>1, <1>4 DEF Remaining
  <2> QED
      BY <2>2, Artifacts DEF Remaining
<1>8. step' = "exit" \/ step' = "export"
    BY <1>3
<1> QED
    BY <1>1, <1>3, <1>4, <1>6, <1>7, <1>8 DEF ReportInv, Before

LEMMA ReportKept == ReportInv /\ [ScriptNext]_scriptVars => ReportInv'
<1> SUFFICES ASSUME ReportInv, [ScriptNext]_scriptVars PROVE ReportInv'
    OBVIOUS
<1>1. CASE LoadConfig \/ LoadData \/ Construct \/ Prepare
  <2>1. /\ UNCHANGED <<metrics, artifacts>> /\ step \in Before
        /\ step' \in (Before \cup {"failed"})
      BY <1>1 DEF LoadConfig, LoadData, Construct, Prepare, Before
  <2>2. metrics = << >>
      BY <2>1 DEF ReportInv
  <2> QED
      BY <2>1, <2>2 DEF ReportInv, Before
<1>2. CASE RunStep
  <2>1. /\ artifacts' = artifacts /\ step = "run" /\ metrics = << >>
        /\ \A a \in DOMAIN artifacts : artifacts[a] = "previous"
      BY <1>2 DEF ReportInv, RunStep, Before
  <2>2. CASE phase' = "done"
    <3>1. step' = "export" /\ metrics' # << >>
        BY <1>2, <2>2, MetricsExist DEF RunStep
    <3>2. Remaining' # {}
      <4>1. ArtifactOrder[1] \in DOMAIN artifacts /\ 1 \in DOMAIN ArtifactOrder
        <5>1. DOMAIN artifacts = ToSet(ArtifactOrder)
            BY DEF ReportInv
        <5> QED
            BY <5>1, Artifacts
      <4> QED
          BY <4>1, <2>1 DEF Remaining
    <3> QED
        BY <2>1, <3>1, <3>2 DEF ReportInv, Before
  <2>3. CASE phase' # "done"
      BY <1>2, <2>1, <2>3 DEF ReportInv, RunStep, Before
  <2> QED
      BY <2>2, <2>3
<1>3. CASE WriteArtifact
    BY <1>3, WriteKeepsReport
<1>4. CASE WriteFails
  <2>1. PICK left \in {"previous", "torn"} :
            artifacts' = [artifacts EXCEPT ![ArtifactOrder[Min(Remaining)]] = left]
      BY <1>4 DEF WriteFails
  <2>2. /\ artifacts' \in [ToSet(ArtifactOrder) -> {"previous", "torn", "this run"}]
        /\ metrics' = metrics /\ metrics # << >> /\ step' = "failed"
      BY <2>1, <1>4 DEF ReportInv, WriteFails
  <2> QED
      BY <2>2 DEF ReportInv, Before
<1>5. CASE ScriptEnded \/ UNCHANGED scriptVars
    BY <1>5 DEF ScriptEnded, scriptVars, ReportInv, Remaining, Before
<1> QED
    BY <1>1, <1>2, <1>3, <1>4, <1>5 DEF ScriptNext

\* run_backtest.py exits with 0 only when every artifact in its directory is
\* of this run, and leaves the previous report alone until it has a result.
THEOREM ReportsOneRun == ScriptSpec => []ReportIsOfOneRun
<1>1. ScriptInit => ReportInv
    BY DEF ScriptInit, ReportInv, Before
<1>2. ReportInv /\ [ScriptNext]_scriptVars => ReportInv'
    BY ReportKept
<1>3. ReportInv => ReportIsOfOneRun
    BY DEF ReportInv, ReportIsOfOneRun
<1> QED
    BY <1>1, <1>2, <1>3, PTL DEF ScriptSpec
-----------------------------------------------------------------------------
\* What is loaded: the numbers of a bundle are the file's or the defaults.
LEMMA BundleNumbers ==
    ASSUME NEW files, WellTyped(files), NEW s \in Sections, NEW key \in Numbers[s],
           key \in DOMAIN Defaults[s], Defaults[s][key] \in Int
    PROVE  Bundle(files)[s][key] \in Int
<1>1. Bundle(files)[s][key] = IF key \in DOMAIN files[s].given THEN files[s].given[key]
                                                               ELSE Defaults[s][key]
    BY DEF Bundle
<1>2. key \in DOMAIN files[s].given => files[s].given[key] \in Int
    BY DEF WellTyped
<1> QED
    BY <1>1, <1>2

LEMMA LoadedNumbers ==
    ASSUME NEW files, WellTyped(files)
    PROVE  LET b == Bundle(files)
           IN  /\ \A key \in Numbers.strategy : b.strategy[key] \in Int
               /\ \A key \in Numbers.execution : b.execution[key] \in Int
               /\ \A key \in Numbers.risk : b.risk[key] \in Int
<1>1. \A s \in {"strategy", "execution", "risk"} : s \in Sections
    BY DEF Sections, Defaults
<1>2. \A key \in Numbers.strategy : key \in DOMAIN Defaults.strategy /\ Defaults.strategy[key] \in Int
    BY SMT DEF Numbers, Defaults, Million
<1>3. \A key \in Numbers.execution : key \in DOMAIN Defaults.execution /\ Defaults.execution[key] \in Int
    BY SMT DEF Numbers, Defaults, Million
<1>4. \A key \in Numbers.risk : key \in DOMAIN Defaults.risk /\ Defaults.risk[key] \in Int
    BY SMT DEF Numbers, Defaults, Million
<1>5. \A key \in Numbers.strategy : Bundle(files).strategy[key] \in Int
    BY <1>1, <1>2, BundleNumbers
<1>6. \A key \in Numbers.execution : Bundle(files).execution[key] \in Int
    BY <1>1, <1>3, BundleNumbers
<1>7. \A key \in Numbers.risk : Bundle(files).risk[key] \in Int
    BY <1>1, <1>4, BundleNumbers
<1> QED
    BY <1>5, <1>6, <1>7

\* One-sided checks of integers amount to what the modules assume.
LEMMA AcceptedIsAssumed ==
    ASSUME NEW files, WellTyped(files), CanLoad(files)
    PROVE  LET b == Bundle(files)
           IN  /\ Sizing(b)!LimitAssumption
               /\ Costs(b)!CostAssumption
               /\ CanConstruct(b)
<1> DEFINE b == Bundle(files)
<1>1. /\ ValidStrategy(b.strategy) /\ ValidExecution(b.execution) /\ ValidRisk(b.risk)
      /\ IsFillModel(b.execution.fill_model)
    BY DEF CanLoad, Validate
<1>2. /\ b.strategy.short_window \in Int /\ b.strategy.long_window \in Int
      /\ b.strategy.initial_capital \in Int
      /\ b.strategy.fixed_fraction \in Int /\ b.strategy.fixed_notional \in Int
    BY LoadedNumbers DEF Numbers
<1>3. /\ b.execution.fee_rate \in Int /\ b.execution.slippage_bps \in Int
      /\ b.execution.min_fee \in Int /\ b.execution.tax_rate \in Int
      /\ b.execution.min_order_quantity \in Int /\ b.execution.min_order_notional \in Int
    BY LoadedNumbers DEF Numbers
<1>4. /\ b.risk.max_position_weight \in Int /\ b.risk.max_total_exposure \in Int
      /\ b.risk.max_positions \in Int /\ b.risk.max_daily_orders \in Int
    BY LoadedNumbers DEF Numbers
<1> HIDE DEF b
<1>5. Sizing(b)!LimitAssumption
  <2>1. /\ b.strategy.sizing_method \in {"fixed_fraction", "fixed_notional", "equal_weight"}
        /\ b.strategy.fixed_fraction \in Nat \ {0} /\ b.strategy.fixed_notional \in Nat \ {0}
      BY <1>1, <1>2 DEF ValidStrategy
  <2>2. /\ b.execution.min_order_quantity \in Nat \ {0}
        /\ b.execution.min_order_notional \in Nat
      BY <1>1, <1>3 DEF ValidExecution
  <2>3. b.risk.max_positions \in Nat \ {0} /\ b.risk.max_daily_orders \in Nat \ {0}
      BY <1>1, <1>4 DEF ValidRisk
  <2>4. b.risk.max_position_weight \in 1 .. Million /\ b.risk.max_total_exposure \in 1 .. Million
    <3>1. Million \in Int
        BY SMT DEF Million
    <3>2. /\ 0 < b.risk.max_position_weight /\ b.risk.max_position_weight <= Million
          /\ 0 < b.risk.max_total_exposure /\ b.risk.max_total_exposure <= Million
        BY <1>1 DEF ValidRisk
    <3> QED
        BY <1>4, <3>1, <3>2
  <2> QED
      BY <2>1, <2>2, <2>3, <2>4, SMT DEF Sizing!LimitAssumption
<1>6. Costs(b)!CostAssumption
    BY <1>1, <1>3 DEF Costs!CostAssumption, ValidExecution, IsFillModel
<1>7. CanConstruct(b)
    BY <1>1 DEF CanConstruct, ValidStrategy, ValidExecution, ValidWindows
<1> QED
    BY <1>5, <1>6, <1>7 DEF b

LoadInv ==
    /\ input \in Inputs
    /\ config # None => CanLoad(input.files) /\ config = Bundle(input.files)

LEMMA LoadKept == LoadInv /\ [ScriptNext]_scriptVars => LoadInv'
<1> SUFFICES ASSUME LoadInv, [ScriptNext]_scriptVars PROVE LoadInv'
    OBVIOUS
<1>1. CASE LoadConfig
    BY <1>1 DEF LoadConfig, LoadInv
<1>2. CASE UNCHANGED <<input, config>>
    BY <1>2 DEF LoadInv
<1> QED
    BY <1>1, <1>2 DEF ScriptNext, scriptVars, LoadData, Construct, Prepare, RunStep,
                      WriteArtifact, WriteFails, ScriptEnded

\* What load_config lets pass is what sizer, risk manager, simulator and cost
\* model assume, and what every constructor accepts.
THEOREM LoadedAssumed == ScriptSpec => []LoadedIsAssumed
<1>1. ScriptInit => LoadInv
    BY DEF ScriptInit, LoadInv
<1>2. LoadInv /\ [ScriptNext]_scriptVars => LoadInv'
    BY LoadKept
<1>3. LoadInv => LoadedIsAssumed
  <2> SUFFICES ASSUME LoadInv, config # None
               PROVE  /\ Sizing(config)!LimitAssumption
                      /\ Costs(config)!CostAssumption
                      /\ CanConstruct(config)
      BY DEF LoadedIsAssumed
  <2>1. WellTyped(input.files) /\ CanLoad(input.files) /\ config = Bundle(input.files)
      BY InputAssumption DEF LoadInv
  <2> QED
      BY <2>1, AcceptedIsAssumed
<1> QED
    BY <1>1, <1>2, <1>3, PTL DEF ScriptSpec
-----------------------------------------------------------------------------
\* What a step of the loop does to the rows that the metrics are taken from.
LEMMA MovesOfRun ==
    ASSUME IInv, Next
    PROVE  /\ ~ Sold => RealizedPnl(positions') = RealizedPnl(positions)
           /\ day' # day => /\ day' = day + 1 /\ phase = "orders" /\ phase' = "between"
                            /\ cash' = cash
                            /\ OpenPositions(positions') = OpenPositions(positions)
           /\ day' = day => signal' = signal
           /\ day' = day /\ phase' \in {"between", "done"} =>
                 /\ phase \in {"between", "done"} /\ UNCHANGED <<cash, positions>>
                 /\ phase' = "done" => phase = "done" \/ day = NumDays
           /\ (\A t \in Tickers : ~ signal[t]) /\ OpenPositions(positions) = {} =>
                 cash' = cash /\ OpenPositions(positions') = {}
<1>1. TypeOK /\ WellFormed(positions) /\ positions \in Books /\ day \in Nat
    BY EngineAssumption DEF IInv, TypeOK, Books
<1>2. CASE OpenDay
    BY <1>1, <1>2, OpenDayFacts DEF OpenDay
<1>3. ASSUME NEW t \in Tickers, Buy(t)
      PROVE  /\ RealizedPnl(positions') = RealizedPnl(positions)
             /\ UNCHANGED <<day, phase, signal>> /\ phase = "orders" /\ signal[t]
    BY <1>1, <1>3, BuyFacts DEF Buy, Execute, IsNext
<1>4. ASSUME NEW t \in Tickers, Sell(t)
      PROVE  /\ Sold /\ OpenPositions(positions) # {}
             /\ UNCHANGED <<day, phase, signal>> /\ phase = "orders"
  <2>1. positions[t].quantity > 0 /\ positions'[t].quantity = 0
      BY <1>1, <1>4, SellFacts DEF Sell, ExitWanted
  <2>2. t \in OpenPositions(positions)
      BY <1>1, <2>1 DEF WellFormed, OpenPositions, IsOpen
  <2> QED
      BY <1>4, <2>1, <2>2 DEF Sold, Sell, Execute, IsNext
<1>5. CASE \E t \in Tickers : NoOrder(t)
    BY <1>5 DEF NoOrder, IsNext
<1>6. CASE CloseDay \/ CloseDayFails
  <2>1. /\ positions' = AtClose /\ cash' = cash /\ phase = "orders"
        /\ OpenPositions(positions') = OpenPositions(positions)
        /\ RealizedPnl(positions') = RealizedPnl(positions)
      BY <1>1, <1>6, AtCloseFacts DEF CloseDay, CloseDayFails
  <2>2. \/ day' = day + 1 /\ phase' = "between"
        \/ UNCHANGED <<day, signal>> /\ phase' = "crashed"
      BY <1>6 DEF CloseDay, CloseDayFails
  <2> QED
      BY <1>1, <2>1, <2>2
<1>7. CASE Finish \/ FinishFails
    BY <1>7 DEF Finish, FinishFails
<1>8. CASE Ended
    BY <1>8 DEF Ended, vars
<1> QED
    BY <1>2, <1>3, <1>4, <1>5, <1>6, <1>7, <1>8 DEF Next

\* The equity curve and the trades, as the ledgers explain them.
LedgerInv ==
    /\ step \in {"prepare", "run"} => config.strategy.initial_capital = InitialCapital
    /\ pnl \in Seq(Int) /\ SumUpTo(pnl, Len(pnl)) = RealizedPnl(positions)
    /\ curve \in Seq(Int) /\ Len(curve) = day
    /\ day = 0 => /\ cash = InitialCapital /\ OpenPositions(positions) = {}
                  /\ \A t \in Tickers : ~ signal[t]
    /\ day > 0 => curve[1] = InitialCapital
    /\ day > 0 /\ phase \in {"between", "done"} => curve[day] = Equity(positions, cash)
    /\ phase = "done" => day = NumDays
    /\ metrics # << >> => phase = "done" /\ metrics = CalculateMetrics(curve, pnl, InitialCapital)

LEMMA NoPositionNoValue ==
    ASSUME NEW book, OpenPositions(book) = {}
    PROVE  PositionsValue(book) = 0
<1> DEFINE value == [t \in Tickers |-> IF IsOpen(book[t])
                                       THEN book[t].quantity * book[t].currentPrice ELSE 0]
<1>1. \A t \in Tickers : value[t] = 0
    BY DEF OpenPositions
<1>2. value \in [Tickers -> Int]
    BY <1>1
<1>3. PositionsValue(book) = Total(value)
    BY DEF PositionsValue
<1> QED
    BY <1>1, <1>2, <1>3, TotalZero

LEMMA CurveKept ==
    ASSUME IInv, LedgerInv, RunStep
    PROVE  /\ curve' \in Seq(Int) /\ Len(curve') = day'
           /\ day' > 0 => curve'[1] = InitialCapital
           /\ day' > 0 /\ phase' \in {"between", "done"} => curve'[day'] = Equity(positions', cash')
           /\ (day = 0 => /\ cash = InitialCapital /\ OpenPositions(positions) = {}
                          /\ \A t \in Tickers : ~ signal[t])'
<1>1. /\ Next /\ curve \in Seq(Int) /\ Len(curve) = day /\ day \in Nat
      /\ curve' = IF day' # day THEN Append(curve, Equity(positions', cash')) ELSE curve
    BY EngineAssumption DEF RunStep, LedgerInv, IInv, TypeOK
<1>2. /\ cash' \in Int /\ positions' \in Books
  <2>1. IInv'
      BY <1>1, NextKeeps
  <2> QED
      BY <2>1 DEF IInv, TypeOK, Books
<1>3. Equity(positions', cash') \in Int
    BY <1>2, ValueType DEF Equity
<1>4. CASE day' # day
  <2>1. /\ day' = day + 1 /\ phase' = "between" /\ phase = "orders"
        /\ cash' = cash /\ OpenPositions(positions') = OpenPositions(positions)
      BY <1>1, <1>4, MovesOfRun
  <2>2. /\ curve' \in Seq(Int) /\ Len(curve') = day + 1
        /\ curve'[day + 1] = Equity(positions', cash')
        /\ day > 0 => curve'[1] = curve[1]
      BY <1>1, <1>3, <1>4
  <2>3. day = 0 => Equity(positions', cash') = InitialCapital
    <3> SUFFICES ASSUME day = 0 PROVE Equity(positions', cash') = InitialCapital
        OBVIOUS
    <3>1. cash' = InitialCapital /\ OpenPositions(positions') = {}
        BY <2>1 DEF LedgerInv
    <3>2. PositionsValue(positions') = 0
        BY <3>1, NoPositionNoValue
    <3> QED
        BY <3>1, <3>2, EngineAssumption DEF Equity
  <2>4. day > 0 => curve[1] = InitialCapital
      BY DEF LedgerInv
  <2> QED
      BY <1>1, <2>1, <2>2, <2>3, <2>4
<1>5. CASE day' = day
  <2>1. curve' = curve /\ signal' = signal
      BY <1>1, <1>5, MovesOfRun
  <2>2. day > 0 => curve[1] = InitialCapital
      BY DEF LedgerInv
  <2>3. day > 0 /\ phase' \in {"between", "done"} => curve[day] = Equity(positions', cash')
    <3> SUFFICES ASSUME day > 0, phase' \in {"between", "done"}
                 PROVE  curve[day] = Equity(positions', cash')
        OBVIOUS
    <3>1. phase \in {"between", "done"} /\ UNCHANGED <<cash, positions>>
        BY <1>1, <1>5, MovesOfRun
    <3> QED
        BY <3>1 DEF LedgerInv
  <2>4. day = 0 => cash' = InitialCapital /\ OpenPositions(positions') = {}
                   /\ \A t \in Tickers : ~ signal[t]
      BY <1>1, MovesOfRun DEF LedgerInv
  <2> QED
      BY <1>1, <1>5, <2>1, <2>2, <2>3, <2>4
<1> QED
    BY <1>4, <1>5

LEMMA TradesKept ==
    ASSUME IInv, LedgerInv, RunStep
    PROVE  pnl' \in Seq(Int) /\ SumUpTo(pnl', Len(pnl')) = RealizedPnl(positions')
<1> DEFINE gain == RealizedPnl(positions') - RealizedPnl(positions)
<1>1. /\ Next /\ pnl \in Seq(Int) /\ SumUpTo(pnl, Len(pnl)) = RealizedPnl(positions)
      /\ pnl' = IF Sold THEN Append(pnl, gain) ELSE pnl
    BY DEF RunStep, LedgerInv
<1>2. RealizedPnl(positions') \in Int /\ RealizedPnl(positions) \in Int
  <2>1. IInv'
      BY <1>1, NextKeeps
  <2>2. positions \in Books /\ positions' \in Books
      BY <2>1 DEF IInv, TypeOK, Books
  <2> QED
      BY <2>2, SumsAreInt
<1>3. CASE Sold
  <2>1. pnl' = Append(pnl, gain) /\ gain \in Int
      BY <1>1, <1>2, <1>3
  <2> HIDE DEF gain
  <2> DEFINE n == Len(pnl)
  <2>2. /\ pnl' \in Seq(Int) /\ Len(pnl') = n + 1 /\ n \in Nat /\ pnl'[n + 1] = gain
        /\ \A i \in 1 .. n : pnl[i] = pnl'[i]
      BY <1>1, <2>1
  <2> HIDE DEF n
  <2>3. SumUpTo(pnl', n + 1) = SumUpTo(pnl, n) + gain
      BY <2>2, SumOfOneMore
  <2> QED
      BY <1>1, <1>2, <2>2, <2>3 DEF gain, n
<1>4. CASE ~ Sold
    BY <1>1, <1>4, MovesOfRun
<1> QED
    BY <1>3, <1>4

LEMMA LedgerKept == IInv /\ ReportInv /\ LedgerInv /\ [ScriptNext]_scriptVars => LedgerInv'
<1> SUFFICES ASSUME IInv, ReportInv, LedgerInv, [ScriptNext]_scriptVars PROVE LedgerInv'
    OBVIOUS
<1>1. CASE RunStep
  <2>1. /\ Next /\ metrics = << >> /\ step = "run" /\ config' = config
        /\ config.strategy.initial_capital = InitialCapital
      BY <1>1 DEF RunStep, ReportInv, LedgerInv, Before
  <2>2. phase' = "done" => day' = NumDays /\ curve' = curve /\ pnl' = pnl
    <3> SUFFICES ASSUME phase' = "done" PROVE day' = NumDays /\ curve' = curve /\ pnl' = pnl
        OBVIOUS
    <3>1. day' = day
        BY <2>1, MovesOfRun
    <3>2. positions' = positions /\ (phase = "done" \/ day = NumDays)
        BY <2>1, <3>1, MovesOfRun
    <3>3. ~ Sold
      <4>1. \A t \in Tickers : positions[t].quantity \in Nat
          BY DEF IInv, TypeOK, Position
      <4> QED
          BY <3>2, <4>1 DEF Sold
    <3> QED
        BY <1>1, <3>1, <3>2, <3>3 DEF RunStep, LedgerInv
  <2>3. metrics' # << >> =>
            phase' = "done" /\ metrics' = CalculateMetrics(curve', pnl', InitialCapital)
      BY <1>1, <2>1, <2>2 DEF RunStep
  <2> QED
      BY <1>1, <2>1, <2>2, <2>3, CurveKept, TradesKept DEF LedgerInv
<1>2. CASE Construct
  <2>1. step' = "prepare" => IsInstance(config)
      BY <1>2 DEF Construct
  <2>2. step' # "run" /\ UNCHANGED <<config, curve, pnl, metrics, engineVars>>
      BY <1>2 DEF Construct
  <2>3. IsInstance(config) => config.strategy.initial_capital = InitialCapital
      BY DEF IsInstance
  <2> QED
      BY <2>1, <2>2, <2>3 DEF LedgerInv, engineVars, vars
<1>3. CASE LoadConfig \/ LoadData \/ Prepare
  <2>1. /\ UNCHANGED <<curve, pnl, metrics, engineVars>>
        /\ step' \in {"prepare", "run"} => step = "prepare" /\ config' = config
      BY <1>3 DEF LoadConfig, LoadData, Prepare
  <2> QED
      BY <2>1 DEF LedgerInv, engineVars, vars
<1>4. CASE WriteArtifact \/ WriteFails \/ ScriptEnded \/ UNCHANGED scriptVars
  <2>1. /\ UNCHANGED <<config, curve, pnl, metrics, engineVars>>
        /\ step' \in {"prepare", "run"} => step' = step
      BY <1>4 DEF WriteArtifact, WriteFails, ScriptEnded, scriptVars
  <2> QED
      BY <2>1 DEF LedgerInv, engineVars, vars
<1> QED
    BY <1>1, <1>2, <1>3, <1>4 DEF ScriptNext

LEMMA InitLedger == ScriptInit => LedgerInv
<1> SUFFICES ASSUME ScriptInit PROVE LedgerInv
    OBVIOUS
<1>1. /\ Init /\ step = "config" /\ curve = << >> /\ pnl = << >> /\ metrics = << >>
    BY DEF ScriptInit
<1>2. /\ day = 0 /\ phase = "between" /\ cash = InitialCapital
      /\ positions = [t \in Tickers |-> EmptyPosition] /\ \A t \in Tickers : ~ signal[t]
    BY <1>1 DEF Init
<1>3. OpenPositions(positions) = {}
    BY <1>2 DEF OpenPositions, IsOpen, EmptyPosition
<1>4. RealizedPnl(positions) = 0
  <2> DEFINE realized == [t \in Tickers |-> positions[t].realizedPnl]
  <2>1. \A t \in Tickers : realized[t] = 0
      BY <1>2 DEF EmptyPosition
  <2>2. realized \in [Tickers -> Int]
      BY <2>1
  <2> QED
      BY <2>1, <2>2, TotalZero DEF RealizedPnl
<1>5. SumUpTo(pnl, Len(pnl)) = 0 /\ pnl \in Seq(Int) /\ curve \in Seq(Int) /\ Len(curve) = 0
    BY <1>1, SumOfNothing
<1> QED
    BY <1>1, <1>2, <1>3, <1>4, <1>5 DEF LedgerInv

THEOREM LedgerInvariance == ScriptSpec => [](IInv /\ ReportInv /\ LedgerInv)
<1>1. ScriptInit => IInv /\ ReportInv /\ LedgerInv
    BY InitIInv, InitLedger DEF ScriptInit, ReportInv, Before
<1>2. IInv /\ ReportInv /\ LedgerInv /\ [ScriptNext]_scriptVars
        => (IInv /\ ReportInv /\ LedgerInv)'
    BY EngineSteps, NextKeeps, ReportKept, LedgerKept
<1> QED
    BY <1>1, <1>2, PTL DEF ScriptSpec
-----------------------------------------------------------------------------
\* The profits and the losses are the trades, summed apart.
LEMMA SumOfTwo ==
    ASSUME NEW N \in Nat, NEW a, NEW b, NEW c,
           \A i \in 1 .. N : a[i] \in Int /\ b[i] \in Int /\ c[i] = a[i] + b[i]
    PROVE  SumUpTo(c, N) = SumUpTo(a, N) + SumUpTo(b, N)
<1> DEFINE Bad == {n \in 0 .. N : SumUpTo(c, n) # SumUpTo(a, n) + SumUpTo(b, n)}
<1>1. ASSUME Bad # {} PROVE FALSE
  <2>1. Bad \in SUBSET Nat
      OBVIOUS
  <2>2. PICK m \in Bad : \A n \in Bad : m <= n
      BY <1>1, <2>1, SmallestElement
  <2>3. m \in 0 .. N /\ SumUpTo(c, m) # SumUpTo(a, m) + SumUpTo(b, m)
      BY <2>2
  <2>4. m # 0
      BY <2>3, SumOfNothing
  <2> DEFINE k == m - 1
  <2>5. k \in Nat /\ k \in 0 .. N /\ k \notin Bad /\ m = k + 1 /\ k + 1 \in 1 .. N
      BY <2>2, <2>3, <2>4
  <2>6. SumUpTo(c, k) = SumUpTo(a, k) + SumUpTo(b, k)
      BY <2>5
  <2> HIDE DEF k, Bad
  <2>7. /\ SumUpTo(a, k + 1) = SumUpTo(a, k) + a[k + 1]
        /\ SumUpTo(b, k + 1) = SumUpTo(b, k) + b[k + 1]
        /\ SumUpTo(c, k + 1) = SumUpTo(c, k) + c[k + 1]
      BY <2>5, SumOfOneMore
  <2>8. SumUpTo(a, k) \in Int /\ SumUpTo(b, k) \in Int
    <3>1. \A i \in 1 .. k : i \in 1 .. N
        BY <2>5
    <3> QED
        BY <2>5, <3>1, SumIsInt
  <2>9. SumUpTo(c, k + 1) = SumUpTo(a, k + 1) + SumUpTo(b, k + 1)
      BY <2>5, <2>6, <2>7, <2>8
  <2> QED
      BY <2>3, <2>5, <2>9
<1>2. N \in 0 .. N
    OBVIOUS
<1> QED
    BY <1>1, <1>2

LEMMA GrossesAddUp ==
    ASSUME NEW trades \in Seq(Int)
    PROVE  /\ GrossProfit(trades) \in Int /\ GrossLoss(trades) \in Int
           /\ GrossProfit(trades) - GrossLoss(trades) = SumUpTo(trades, Len(trades))
<1> DEFINE wins   == [i \in DOMAIN trades |-> IF trades[i] > 0 THEN trades[i] ELSE 0]
           losses == [i \in DOMAIN trades |-> IF trades[i] < 0 THEN trades[i] ELSE 0]
           n      == Len(trades)
<1>1. /\ n \in Nat
      /\ \A i \in 1 .. n : /\ wins[i] \in Int /\ losses[i] \in Int
                           /\ trades[i] = wins[i] + losses[i]
    OBVIOUS
<1>2. GrossProfit(trades) = SumUpTo(wins, n) /\ GrossLoss(trades) = -SumUpTo(losses, n)
    BY DEF GrossProfit, GrossLoss
<1> HIDE DEF wins, losses, n
<1>3. SumUpTo(wins, n) \in Int /\ SumUpTo(losses, n) \in Int
    BY <1>1, SumIsInt
<1>4. SumUpTo(trades, n) = SumUpTo(wins, n) + SumUpTo(losses, n)
    BY <1>1, SumOfTwo
<1> QED
    BY <1>2, <1>3, <1>4 DEF n

\* total_pnl, taken from the first and the last equity, and the trade
\* statistics, taken from the pnl of each sale, are one and the same account,
\* of which the fees of the buys and the open positions are the rest.
THEOREM ProfitIsExplained == ScriptSpec => []ProfitExplained
<1>1. IInv /\ LedgerInv => ProfitExplained
  <2> SUFFICES ASSUME IInv, LedgerInv, metrics # << >>
               PROVE  metrics.total_pnl =
                          metrics.gross_profit - metrics.gross_loss - buyFees
                          + PositionsValue(positions) - BookCost(positions)
      BY DEF ProfitExplained
  <2>1. /\ day = NumDays /\ day > 0 /\ Len(curve) = day /\ phase = "done"
        /\ metrics = CalculateMetrics(curve, pnl, InitialCapital)
        /\ pnl \in Seq(Int) /\ SumUpTo(pnl, Len(pnl)) = RealizedPnl(positions)
      BY EngineAssumption DEF LedgerInv
  <2>2. Last(curve) = cash + PositionsValue(positions)
      BY <2>1 DEF LedgerInv, Last, Equity
  <2>3. /\ metrics.total_pnl = Last(curve) - InitialCapital
        /\ metrics.gross_profit = GrossProfit(pnl) /\ metrics.gross_loss = GrossLoss(pnl)
      BY <2>1 DEF CalculateMetrics, TotalPnl
  <2>4. /\ GrossProfit(pnl) \in Int /\ GrossLoss(pnl) \in Int
        /\ GrossProfit(pnl) - GrossLoss(pnl) = RealizedPnl(positions)
      BY <2>1, GrossesAddUp
  <2>5. cash + BookCost(positions) = InitialCapital + RealizedPnl(positions) - buyFees
      BY DEF IInv, BookIdentity
  <2>6. /\ cash \in Int /\ buyFees \in Int /\ InitialCapital \in Int
        /\ PositionsValue(positions) \in Int /\ BookCost(positions) \in Int
    <3>1. positions \in Books /\ cash \in Int /\ buyFees \in Int /\ InitialCapital \in Int
        BY EngineAssumption DEF IInv, TypeOK, Books
    <3> QED
        BY <3>1, ValueType, SumsAreInt
  <2> QED
      BY <2>2, <2>3, <2>4, <2>5, <2>6
<1> QED
    BY <1>1, LedgerInvariance, PTL
-----------------------------------------------------------------------------
\* The running maximum is an equity of the curve up to the date.
LEMMA Peak ==
    ASSUME NEW c, NEW N \in Nat, \A i \in 1 .. N : c[i] \in Int, NEW k \in 1 .. N
    PROVE  \E p \in 1 .. k : \A i \in 1 .. k : c[i] <= c[p]
<1> DEFINE IsPeak(n, p) == p \in 1 .. n /\ \A i \in 1 .. n : c[i] <= c[p]
           Bad == {n \in 1 .. N : ~ \E p : IsPeak(n, p)}
<1>1. ASSUME Bad # {} PROVE FALSE
  <2>1. Bad \in SUBSET Nat
      OBVIOUS
  <2>2. PICK m \in Bad : \A n \in Bad : m <= n
      BY <1>1, <2>1, SmallestElement
  <2>3. m \in 1 .. N /\ ~ \E p : IsPeak(m, p)
      BY <2>2
  <2>4. m # 1
    <3> SUFFICES ASSUME m = 1 PROVE FALSE
        OBVIOUS
    <3>1. IsPeak(m, 1)
        OBVIOUS
    <3> QED
        BY <2>3, <3>1
  <2> DEFINE l == m - 1
  <2>5. l \in 1 .. N /\ ~ (m <= l) /\ 1 .. m = (1 .. l) \cup {m}
      BY <2>3, <2>4
  <2>6. PICK p : IsPeak(l, p)
      BY <2>2, <2>5
  <2>7. \A i \in (1 .. l) \cup {m} : c[i] \in Int
      BY <2>3, <2>5
  <2>8. p \in 1 .. l /\ \A i \in 1 .. l : c[i] <= c[p]
      BY <2>6
  <2> HIDE DEF l
  <2>9. IsPeak(m, p) \/ IsPeak(m, m)
    <3>1. p \in 1 .. m /\ m \in 1 .. m /\ c[m] \in Int /\ c[p] \in Int
        BY <2>5, <2>7, <2>8
    <3>2. CASE c[m] <= c[p]
        BY <2>5, <2>8, <3>1, <3>2
    <3>3. CASE ~ (c[m] <= c[p])
      <4>1. c[m] <= c[m] /\ \A i \in 1 .. l : c[i] <= c[m]
          BY <2>7, <2>8, <3>1, <3>3
      <4> QED
          BY <2>5, <3>1, <4>1
    <3> QED
        BY <3>2, <3>3
  <2> QED
      BY <2>3, <2>9
<1>2. PICK p : IsPeak(k, p)
    BY <1>1
<1> QED
    BY <1>2

LEMMA RunningMax ==
    ASSUME NEW c \in Seq(Int), NEW k \in 1 .. Len(c)
    PROVE  LET d == DrawdownAt(c, k)
           IN  /\ d.num = c[k] /\ d.num \in Int /\ d.den \in Int
               /\ \E p \in 1 .. k : c[p] = d.den
               /\ \A i \in 1 .. k : c[i] <= d.den
<1> DEFINE seen == {c[i] : i \in 1 .. k}
<1>1. ToSet(SubSeq(c, 1, k)) = seen
  <2>1. \A i \in 1 .. k : c[i] \in Int
      OBVIOUS
  <2>2. /\ SubSeq(c, 1, k) \in Seq(Int) /\ Len(SubSeq(c, 1, k)) = k
        /\ \A i \in 1 .. k : SubSeq(c, 1, k)[i] = c[i]
      OBVIOUS
  <2>3. DOMAIN SubSeq(c, 1, k) = 1 .. k
      BY <2>2
  <2> QED
      BY <2>2, <2>3 DEF ToSet
<1>2. PICK p \in 1 .. k : \A i \in 1 .. k : c[i] <= c[p]
  <2>1. Len(c) \in Nat /\ \A i \in 1 .. Len(c) : c[i] \in Int
      OBVIOUS
  <2> QED
      BY <2>1, Peak
<1>3. /\ \A i \in 1 .. k : c[i] \in Int
      /\ c[p] \in seen /\ \A x \in seen : c[p] >= x
    BY <1>2
<1>4. /\ Max(seen) \in seen /\ \A x \in seen : Max(seen) >= x
      /\ c[k] \in Int /\ \A x \in seen : x \in Int
  <2>1. c[k] \in Int /\ \A x \in seen : x \in Int
      BY <1>3
  <2>2. \E x \in seen : \A y \in seen : x >= y
      BY <1>3
  <2> HIDE DEF seen
  <2> QED
      BY <2>1, <2>2 DEF Max
<1>5. DrawdownAt(c, k).den = Max(seen) /\ DrawdownAt(c, k).num = c[k]
    BY <1>1 DEF DrawdownAt
<1>6. PICK q \in 1 .. k : c[q] = Max(seen)
    BY <1>4
<1>7. \A i \in 1 .. k : c[i] <= Max(seen)
    BY <1>3, <1>4
<1>8. Max(seen) \in Int
    BY <1>4
<1> HIDE DEF seen
<1> QED
    BY <1>4, <1>5, <1>6, <1>7, <1>8

\* Fractions with positive denominators are ordered by what they are.
LEMMA BelowTransitive ==
    ASSUME NEW a, NEW b, NEW c,
           a.num \in Int, b.num \in Int, c.num \in Int,
           a.den \in Nat \ {0}, b.den \in Nat \ {0}, c.den \in Nat \ {0},
           ~ Below(a, b), Below(c, b)
    PROVE  ~ Below(a, c)
<1> DEFINE an == a.num  bn == b.num  cn == c.num
           ad == a.den  bd == b.den  cd == c.den
<1>1. an * bd >= bn * ad /\ cn * bd < bn * cd
    BY DEF Below
<1>2. SUFFICES ASSUME an * cd < cn * ad PROVE FALSE
    BY DEF Below
<1> HIDE DEF an, bn, cn, ad, bd, cd
<1>3. an \in Int /\ bn \in Int /\ cn \in Int /\ ad \in Nat \ {0} /\ bd \in Nat \ {0} /\ cd \in Nat \ {0}
    BY DEF an, bn, cn, ad, bd, cd
<1>4. (an * bd) * cd >= (bn * ad) * cd
    BY <1>1, <1>3
<1>5. (cn * bd) * ad < (bn * cd) * ad
    BY <1>1, <1>3
<1>6. (an * cd) * bd < (cn * ad) * bd
    BY <1>2, <1>3
<1>7. /\ (an * bd) * cd = (an * cd) * bd
      /\ (bn * ad) * cd = (bn * cd) * ad
      /\ (cn * bd) * ad = (cn * ad) * bd
    BY <1>3
<1>8. (an * cd) * bd \in Int /\ (cn * ad) * bd \in Int /\ (bn * cd) * ad \in Int
    BY <1>3
<1> QED
    BY <1>4, <1>5, <1>6, <1>7, <1>8

\* A curve that starts above zero.
IsCurve(c) == c \in Seq(Int) /\ Len(c) > 0 /\ c[1] > 0

LEMMA DrawdownTypes ==
    ASSUME NEW c, IsCurve(c), NEW k \in 1 .. Len(c)
    PROVE  DrawdownAt(c, k).num \in Int /\ DrawdownAt(c, k).den \in Nat \ {0}
<1>1. /\ DrawdownAt(c, k).num \in Int /\ DrawdownAt(c, k).den \in Int
      /\ c[1] <= DrawdownAt(c, k).den
    BY RunningMax DEF IsCurve
<1>2. c[1] \in Int /\ c[1] > 0
    BY DEF IsCurve
<1> QED
    BY <1>1, <1>2

LEMMA Worst ==
    ASSUME NEW c, IsCurve(c), NEW k \in 1 .. Len(c)
    PROVE  \E w \in 1 .. k : \A i \in 1 .. k : ~ Below(DrawdownAt(c, i), DrawdownAt(c, w))
<1> DEFINE N == Len(c)
           d(i) == DrawdownAt(c, i)
           IsWorst(n, w) == w \in 1 .. n /\ \A i \in 1 .. n : ~ Below(d(i), d(w))
           Bad == {n \in 1 .. N : ~ \E w : IsWorst(n, w)}
<1>1. N \in Nat /\ \A i \in 1 .. N : d(i).num \in Int /\ d(i).den \in Nat \ {0}
    BY DrawdownTypes DEF IsCurve
<1>2. \A i \in 1 .. N : ~ Below(d(i), d(i))
    BY <1>1 DEF Below
<1>3. \A i, j, l \in 1 .. N : ~ Below(d(i), d(j)) /\ Below(d(l), d(j)) => ~ Below(d(i), d(l))
    BY <1>1, BelowTransitive
<1> HIDE DEF d, N
<1>4. ASSUME Bad # {} PROVE FALSE
  <2>1. Bad \in SUBSET Nat
      BY <1>1
  <2>2. PICK m \in Bad : \A n \in Bad : m <= n
      BY <1>4, <2>1, SmallestElement
  <2>3. m \in 1 .. N /\ ~ \E w : IsWorst(m, w)
      BY <2>2
  <2>4. m # 1
    <3> SUFFICES ASSUME m = 1 PROVE FALSE
        OBVIOUS
    <3>1. IsWorst(m, 1)
        BY <1>2, <2>3
    <3> QED
        BY <2>3, <3>1
  <2> DEFINE l == m - 1
  <2>5. l \in 1 .. N /\ ~ (m <= l) /\ 1 .. m = (1 .. l) \cup {m} /\ \A i \in 1 .. m : i \in 1 .. N
      BY <1>1, <2>3, <2>4
  <2>6. PICK w : IsWorst(l, w)
      BY <2>2, <2>5
  <2> HIDE DEF l
  <2>7. w \in 1 .. m /\ m \in 1 .. m
      BY <2>5, <2>6
  <2>8. CASE ~ Below(d(m), d(w))
    <3>1. IsWorst(m, w)
        BY <2>5, <2>6, <2>7, <2>8
    <3> QED
        BY <2>3, <3>1
  <2>9. CASE Below(d(m), d(w))
    <3>1. \A i \in 1 .. l : ~ Below(d(i), d(m))
        BY <1>3, <2>5, <2>6, <2>7, <2>9
    <3>2. IsWorst(m, m)
        BY <1>2, <2>3, <2>5, <2>7, <3>1
    <3> QED
        BY <2>3, <3>2
  <2> QED
      BY <2>8, <2>9
<1>5. PICK w : IsWorst(k, w)
    BY <1>4 DEF N
<1> QED
    BY <1>5 DEF d

\* drawdown.min(), for a curve that never falls below zero: whoever enters on
\* a date i and looks at the equity on a later date j has at least as much of
\* the entry left, and someone has just as much.
LEMMA MaxDrawdownIsWorst ==
    ASSUME NEW c, IsCurve(c), \A k \in 1 .. Len(c) : c[k] >= 0
    PROVE  LET worst == MaxDrawdown(c)
           IN  /\ \A i \in DOMAIN c : \A j \in i .. Len(c) : worst.num * c[i] <= c[j] * worst.den
               /\ \E i \in DOMAIN c : \E j \in i .. Len(c) : worst.num * c[i] = c[j] * worst.den
<1> DEFINE N == Len(c)
           worst == MaxDrawdown(c)
           all == {DrawdownAt(c, k) : k \in 1 .. N}
<1>1. N \in Nat /\ N > 0 /\ DOMAIN c = 1 .. N /\ \A k \in 1 .. N : c[k] \in Int /\ c[k] >= 0
    BY DEF IsCurve
<1>2. worst = CHOOSE d \in all : \A e \in all : ~ Below(e, d)
  <2>1. Range([k \in DOMAIN c |-> DrawdownAt(c, k)]) = all
      BY <1>1 DEF Range
  <2> QED
      BY <2>1 DEF MaxDrawdown
<1>3. \E d \in all : \A e \in all : ~ Below(e, d)
  <2>1. N \in 1 .. Len(c)
      BY <1>1
  <2>2. PICK w \in 1 .. N : \A i \in 1 .. N : ~ Below(DrawdownAt(c, i), DrawdownAt(c, w))
      BY <2>1, Worst
  <2> QED
      BY <2>2
<1> HIDE DEF worst
<1>4. worst \in all /\ \A e \in all : ~ Below(e, worst)
    BY <1>2, <1>3
<1>5. PICK w \in 1 .. N : worst = DrawdownAt(c, w)
    BY <1>4
<1>6. /\ worst.num = c[w] /\ worst.num \in Int /\ worst.num >= 0
      /\ worst.den \in Nat \ {0} /\ \E p \in 1 .. w : c[p] = worst.den
    BY <1>1, <1>5, RunningMax, DrawdownTypes DEF IsCurve
<1>7. ASSUME NEW i \in DOMAIN c, NEW j \in i .. N
      PROVE  worst.num * c[i] <= c[j] * worst.den
  <2> DEFINE dj == DrawdownAt(c, j)
  <2>1. j \in 1 .. N /\ i \in 1 .. j
      BY <1>1
  <2>2. dj.num = c[j] /\ dj.den \in Int /\ c[i] <= dj.den /\ c[i] \in Int /\ c[j] \in Int
      BY <1>1, <2>1, RunningMax DEF IsCurve
  <2>3. ~ Below(dj, worst)
      BY <1>4, <2>1
  <2> HIDE DEF dj
  <2>4. worst.num * dj.den <= c[j] * worst.den
      BY <1>6, <2>2, <2>3 DEF Below
  <2>5. worst.num * c[i] <= worst.num * dj.den
      BY <1>6, <2>2
  <2>6. worst.num * c[i] \in Int /\ worst.num * dj.den \in Int /\ c[j] * worst.den \in Int
      BY <1>6, <2>2
  <2> QED
      BY <2>4, <2>5, <2>6
<1>8. \E i \in DOMAIN c : \E j \in i .. N : worst.num * c[i] = c[j] * worst.den
  <2>1. PICK p \in 1 .. w : c[p] = worst.den
      BY <1>6
  <2>2. p \in DOMAIN c /\ w \in p .. N /\ c[p] \in Int /\ c[w] \in Int
      BY <1>1, <2>1
  <2>3. worst.num * c[p] = c[w] * worst.den
      BY <1>6, <2>1, <2>2
  <2> QED
      BY <2>2, <2>3
<1> QED
    BY <1>7, <1>8 DEF worst
\* No date ends with a debt, if the engine stays solvent.
CurveAboveWater == \A k \in 1 .. Len(curve) : curve[k] >= 0

LEMMA CurveStaysAbove ==
    ASSUME FillModel = "next_open", SalesPay,
           IInv, Solvent, LedgerInv, CurveAboveWater, [ScriptNext]_scriptVars
    PROVE  CurveAboveWater'
<1>1. CASE RunStep /\ day' # day
  <2>1. /\ curve \in Seq(Int) /\ curve' = Append(curve, Equity(positions', cash'))
        /\ [Next]_vars
      BY <1>1, EngineSteps DEF RunStep, LedgerInv
  <2>2. IInv' /\ Solvent'
      BY <2>1, NextKeeps, SolventKept
  <2>3. Equity(positions', cash') \in Int /\ Equity(positions', cash') >= 0
    <3>1. /\ positions' \in Books /\ cash' \in Int /\ cash' >= 0
          /\ \A t \in OpenPositions(positions') : positions'[t].currentPrice > 0
        BY <2>2 DEF IInv, TypeOK, Books, Solvent
    <3> QED
        BY <3>1, ValueType, ValuePositive DEF Equity
  <2> QED
      BY <2>1, <2>3 DEF CurveAboveWater
<1>2. CASE UNCHANGED curve
    BY <1>2 DEF CurveAboveWater
<1> QED
    BY <1>1, <1>2 DEF ScriptNext, scriptVars, LoadConfig, LoadData, Construct, Prepare, RunStep,
                      WriteArtifact, WriteFails, ScriptEnded

\* Where the engine stays solvent, as CashSuffices has it, max_drawdown is the
\* worst that can happen between any two dates.  With an equity below zero it
\* is not: who enters near zero loses a larger part.
THEOREM DrawdownIsWorst ==
    ASSUME FillModel = "next_open", SalesPay
    PROVE  ScriptSpec => []DrawdownIsWorstLoss
<1>1. ScriptInit => Solvent /\ CurveAboveWater
    BY InitSolvent DEF ScriptInit, CurveAboveWater
<1>2. IInv /\ LedgerInv /\ Solvent /\ CurveAboveWater /\ [ScriptNext]_scriptVars
        => (Solvent /\ CurveAboveWater)'
    BY EngineSteps, SolventKept, CurveStaysAbove
<1>3. LedgerInv /\ CurveAboveWater => DrawdownIsWorstLoss
  <2> SUFFICES ASSUME LedgerInv, CurveAboveWater, metrics # << >>
               PROVE  DrawdownIsWorstLoss
      BY DEF DrawdownIsWorstLoss
  <2>1. metrics.max_drawdown = MaxDrawdown(curve)
      BY DEF LedgerInv, CalculateMetrics
  <2>2. IsCurve(curve) /\ \A k \in 1 .. Len(curve) : curve[k] >= 0
    <3>1. day = NumDays /\ day > 0 /\ InitialCapital > 0
        BY EngineAssumption DEF LedgerInv
    <3> QED
        BY <3>1 DEF LedgerInv, CurveAboveWater, IsCurve
  <2> QED
      BY <2>1, <2>2, MaxDrawdownIsWorst DEF DrawdownIsWorstLoss
<1> QED
    BY <1>1, <1>2, <1>3, LedgerInvariance, PTL DEF ScriptSpec
-----------------------------------------------------------------------------
\* The loop of max_drawdown_duration.  Of the first k dates it knows the
\* longest row of dates under water, and how many of it end in date k.
Under(c, k) == \E i \in 1 .. k : c[i] > c[k]

UnderRow(c, n, j) == \A k \in j - n + 1 .. j : Under(c, k)

CountsRows(c, k, after) ==
    /\ after.current \in 0 .. k /\ UnderRow(c, after.current, k)
    /\ after.current < k => ~ Under(c, k - after.current)
    /\ after.longest \in 0 .. k /\ after.current <= after.longest
    /\ after.longest > 0 => \E j \in after.longest .. k : UnderRow(c, after.longest, j)
    /\ \A n \in 1 .. k : \A j \in n .. k : UnderRow(c, n, j) => n <= after.longest

LEMMA UnderwaterIsUnder ==
    ASSUME NEW c \in Seq(Int), NEW k \in 1 .. Len(c)
    PROVE  IsUnderwater(DrawdownAt(c, k)) <=> Under(c, k)
<1> DEFINE d == DrawdownAt(c, k)
<1>1. /\ d.num = c[k] /\ d.num \in Int /\ d.den \in Int
      /\ \E p \in 1 .. k : c[p] = d.den
      /\ \A i \in 1 .. k : c[i] <= d.den
    BY RunningMax
<1> HIDE DEF d
<1>2. \A i \in 1 .. k : c[i] \in Int
    OBVIOUS
<1>3. d.num < d.den <=> \E i \in 1 .. k : c[i] > c[k]
    BY <1>1, <1>2
<1> QED
    BY <1>3 DEF IsUnderwater, Under, d

LEMMA OneMoreUnder ==
    ASSUME NEW c, NEW k \in Nat, NEW after, CountsRows(c, k, after), Under(c, k + 1),
           NEW next, next.current = after.current + 1,
           next.longest = Max({after.longest, after.current + 1})
    PROVE  CountsRows(c, k + 1, next)
<1> DEFINE cur == after.current
           top == after.longest
<1>1. /\ cur \in 0 .. k /\ UnderRow(c, cur, k) /\ (cur < k => ~ Under(c, k - cur))
      /\ top \in 0 .. k /\ cur <= top
      /\ top > 0 => \E j \in top .. k : UnderRow(c, top, j)
      /\ \A n \in 1 .. k : \A j \in n .. k : UnderRow(c, n, j) => n <= top
    BY DEF CountsRows
<1>2. next.current = cur + 1 /\ next.longest = Max({top, cur + 1})
    OBVIOUS
<1> HIDE DEF cur, top
<1>3. UnderRow(c, cur + 1, k + 1)
  <2>1. \A i \in (k + 1) - (cur + 1) + 1 .. k + 1 : i = k + 1 \/ i \in k - cur + 1 .. k
      BY <1>1
  <2> QED
      BY <1>1, <2>1 DEF UnderRow
<1>4. /\ next.longest \in {top, cur + 1} /\ next.longest >= top /\ next.longest >= cur + 1
      /\ next.longest \in Int
  <2>1. top \in Int /\ cur + 1 \in Int
      BY <1>1
  <2> QED
      BY <1>2, <2>1, MaxOfTwo
<1>5. cur + 1 < k + 1 => ~ Under(c, (k + 1) - (cur + 1))
  <2>1. (k + 1) - (cur + 1) = k - cur /\ (cur + 1 < k + 1 => cur < k)
      BY <1>1
  <2> QED
      BY <1>1, <2>1
<1>6. next.longest > 0 => \E j \in next.longest .. k + 1 : UnderRow(c, next.longest, j)
  <2>1. CASE next.longest = cur + 1
    <3>1. k + 1 \in cur + 1 .. k + 1
        BY <1>1
    <3> QED
        BY <1>3, <2>1, <3>1
  <2>2. CASE next.longest = top
    <3>1. \A j \in top .. k : j \in top .. k + 1
        BY <1>1
    <3> QED
        BY <1>1, <2>2, <3>1
  <2> QED
      BY <1>4, <2>1, <2>2
<1>7. ASSUME NEW n \in 1 .. k + 1, NEW j \in n .. k + 1, UnderRow(c, n, j)
      PROVE  n <= next.longest
  <2>1. CASE j <= k
    <3>1. n \in 1 .. k /\ j \in n .. k
        BY <2>1
    <3> QED
        BY <1>1, <1>4, <1>7, <3>1
  <2>2. CASE j = k + 1
    <3>1. CASE n > cur + 1
      <4>1. k - cur \in j - n + 1 .. j /\ cur < k
          BY <1>1, <2>2, <3>1
      <4> QED
          BY <1>1, <1>7, <4>1 DEF UnderRow
    <3>2. CASE n <= cur + 1
        BY <1>1, <1>4, <3>2
    <3> QED
        BY <1>1, <3>1, <3>2
  <2> QED
      BY <2>1, <2>2
<1>8. /\ next.current \in 0 .. k + 1 /\ next.current <= next.longest
      /\ next.longest \in 0 .. k + 1
    BY <1>1, <1>2, <1>4
<1> QED
    BY <1>2, <1>3, <1>5, <1>6, <1>7, <1>8 DEF CountsRows

LEMMA OneMoreAbove ==
    ASSUME NEW c, NEW k \in Nat, NEW after, CountsRows(c, k, after), ~ Under(c, k + 1),
           NEW next, next.current = 0, next.longest = after.longest
    PROVE  CountsRows(c, k + 1, next)
<1> DEFINE top == after.longest
<1>1. /\ top \in 0 .. k
      /\ top > 0 => \E j \in top .. k : UnderRow(c, top, j)
      /\ \A n \in 1 .. k : \A j \in n .. k : UnderRow(c, n, j) => n <= top
    BY DEF CountsRows
<1> HIDE DEF top
<1>2. UnderRow(c, 0, k + 1)
    BY DEF UnderRow
<1>3. top > 0 => \E j \in top .. k + 1 : UnderRow(c, top, j)
  <2>1. \A j \in top .. k : j \in top .. k + 1
      BY <1>1
  <2> QED
      BY <1>1, <2>1
<1>4. ASSUME NEW n \in 1 .. k + 1, NEW j \in n .. k + 1, UnderRow(c, n, j)
      PROVE  n <= top
  <2>1. j # k + 1
    <3>1. j = k + 1 => k + 1 \in j - n + 1 .. j
        OBVIOUS
    <3> QED
        BY <1>4, <3>1 DEF UnderRow
  <2>2. n \in 1 .. k /\ j \in n .. k
      BY <2>1
  <2> QED
      BY <1>1, <1>4, <2>2
<1>5. 0 < k + 1 => ~ Under(c, k + 1 - 0)
  <2>1. k + 1 - 0 = k + 1
      OBVIOUS
  <2> QED
      BY <2>1
<1> QED
    BY <1>1, <1>2, <1>3, <1>4, <1>5 DEF CountsRows, top

IsLoop(f, c, N) ==
    f = [k \in 0 .. N |-> IF k = 0 THEN [current |-> 0, longest |-> 0]
                          ELSE AfterDate(f[k - 1], DrawdownAt(c, k))]

\* There is such a function: the one for a date less, and one value more.
LEMMA LoopExists ==
    ASSUME NEW c, NEW N \in Nat
    PROVE  \E f : IsLoop(f, c, N)
<1> DEFINE Bad == {n \in Nat : ~ \E f : IsLoop(f, c, n)}
<1> SUFFICES ASSUME Bad # {} PROVE FALSE
    OBVIOUS
<1>1. PICK m \in Bad : \A n \in Bad : m <= n
    BY SmallestElement
<1>2. m # 0
  <2>1. IsLoop([i \in 0 .. 0 |-> [current |-> 0, longest |-> 0]], c, 0)
      BY DEF IsLoop
  <2> QED
      BY <2>1
<1>3. m - 1 \in Nat /\ m - 1 \notin Bad
    BY <1>1, <1>2
<1>4. PICK f : IsLoop(f, c, m - 1)
    BY <1>3
<1> DEFINE start == [current |-> 0, longest |-> 0]
           g == [i \in 0 .. m |-> IF i = m THEN AfterDate(f[m - 1], DrawdownAt(c, m)) ELSE f[i]]
           h == [i \in 0 .. m |-> IF i = 0 THEN start
                                  ELSE AfterDate(g[i - 1], DrawdownAt(c, i))]
<1>5. \A i \in 0 .. m - 1 : f[i] = IF i = 0 THEN start ELSE AfterDate(f[i - 1], DrawdownAt(c, i))
    BY <1>4, <1>3 DEF IsLoop
<1>6. \A i \in 0 .. m : g[i] = h[i]
  <2> TAKE i \in 0 .. m
  <2>1. CASE i = m
      BY <2>1, <1>2, <1>3
  <2>2. CASE i # m
      BY <2>2, <1>5, <1>3
  <2> QED
      BY <2>1, <2>2
<1>7. IsLoop(g, c, m)
  <2>1. g = h
      BY <1>6
  <2> QED
      BY <2>1 DEF IsLoop
<1> QED
    BY <1>7, <1>1

LEMMA LoopCounts ==
    ASSUME NEW c \in Seq(Int), NEW f, IsLoop(f, c, Len(c)), NEW k \in 0 .. Len(c)
    PROVE  CountsRows(c, k, f[k])
<1> DEFINE N == Len(c)
           Bad == {n \in 0 .. N : ~ CountsRows(c, n, f[n])}
<1>1. N \in Nat
    OBVIOUS
<1>2. /\ f[0] = [current |-> 0, longest |-> 0]
      /\ \A n \in 1 .. N : f[n] = AfterDate(f[n - 1], DrawdownAt(c, n))
    BY <1>1 DEF IsLoop
<1>3. \A n \in 1 .. N : IsUnderwater(DrawdownAt(c, n)) <=> Under(c, n)
    BY UnderwaterIsUnder
<1> HIDE DEF N
<1>4. CountsRows(c, 0, f[0])
  <2>1. f[0].current = 0 /\ f[0].longest = 0
      BY <1>2
  <2> QED
      BY <2>1 DEF CountsRows, UnderRow
<1>5. ASSUME Bad # {} PROVE FALSE
  <2>1. Bad \in SUBSET Nat
      BY <1>1
  <2>2. PICK m \in Bad : \A n \in Bad : m <= n
      BY <1>5, <2>1, SmallestElement
  <2>3. m \in 0 .. N /\ ~ CountsRows(c, m, f[m]) /\ m # 0
      BY <1>4, <2>2
  <2> DEFINE l == m - 1
  <2>4. l \in 0 .. N /\ ~ (m <= l) /\ l \in Nat /\ m = l + 1 /\ l + 1 \in 1 .. N
      BY <1>1, <2>3
  <2>5. CountsRows(c, l, f[l])
      BY <2>2, <2>4
  <2>6. f[l + 1] = AfterDate(f[l], DrawdownAt(c, l + 1))
      BY <1>2, <2>4
  <2> HIDE DEF l
  <2>7. CASE Under(c, l + 1)
    <3>1. /\ f[l + 1].current = f[l].current + 1
          /\ f[l + 1].longest = Max({f[l].longest, f[l].current + 1})
        BY <1>3, <2>4, <2>6, <2>7 DEF AfterDate
    <3>2. CountsRows(c, l + 1, f[l + 1])
        BY <2>4, <2>5, <2>7, <3>1, OneMoreUnder
    <3> QED
        BY <2>3, <2>4, <3>2
  <2>8. CASE ~ Under(c, l + 1)
    <3>1. f[l + 1].current = 0 /\ f[l + 1].longest = f[l].longest
        BY <1>3, <2>4, <2>6, <2>8 DEF AfterDate
    <3>2. CountsRows(c, l + 1, f[l + 1])
        BY <2>4, <2>5, <2>8, <3>1, OneMoreAbove
    <3> QED
        BY <2>3, <2>4, <3>2
  <2> QED
      BY <2>7, <2>8
<1> QED
    BY <1>5 DEF N

LEMMA DurationCounts ==
    ASSUME NEW c \in Seq(Int)
    PROVE  \E after : CountsRows(c, Len(c), after) /\ MaxDrawdownDuration(c) = after.longest
<1> DEFINE loop == CHOOSE f : IsLoop(f, c, Len(c))
<1>1. Len(c) \in Nat
    OBVIOUS
<1>2. IsLoop(loop, c, Len(c))
    BY <1>1, LoopExists
<1>3. MaxDrawdownDuration(c) = loop[Len(c)].longest
    BY DEF MaxDrawdownDuration, IsLoop
<1> HIDE DEF loop
<1>4. Len(c) \in 0 .. Len(c)
    BY <1>1
<1>5. CountsRows(c, Len(c), loop[Len(c)])
    BY <1>2, <1>4, LoopCounts
<1> QED
    BY <1>3, <1>5

\* max_drawdown_duration, counted in one pass, is the length of the longest
\* row of dates that are all below an earlier one, wherever it lies.
THEOREM DurationIsLongest == ScriptSpec => []DurationIsLongestUnderwater
<1>1. LedgerInv => DurationIsLongestUnderwater
  <2> SUFFICES ASSUME LedgerInv, metrics # << >> PROVE DurationIsLongestUnderwater
      BY DEF DurationIsLongestUnderwater
  <2> DEFINE lengths == {n \in 1 .. Len(curve) :
                           \E j \in n .. Len(curve) : \A k \in j - n + 1 .. j :
                              \E i \in 1 .. k : curve[i] > curve[k]}
             longest == metrics.max_drawdown_duration
  <2>1. longest = MaxDrawdownDuration(curve) /\ curve \in Seq(Int)
      BY DEF LedgerInv, CalculateMetrics
  <2>2. PICK after : CountsRows(curve, Len(curve), after) /\ longest = after.longest
      BY <2>1, DurationCounts
  <2>3. lengths = {n \in 1 .. Len(curve) : \E j \in n .. Len(curve) : UnderRow(curve, n, j)}
      BY DEF UnderRow, Under
  <2> HIDE DEF lengths, longest
  <2>4. Len(curve) \in Nat
      BY <2>1
  <2>5. longest \in lengths \cup {0}
      BY <2>2, <2>3, <2>4 DEF CountsRows
  <2>6. \A n \in lengths : n <= longest
      BY <2>2, <2>3 DEF CountsRows
  <2> QED
      BY <2>5, <2>6 DEF DurationIsLongestUnderwater, lengths, longest
<1> QED
    BY <1>1, LedgerInvariance, PTL
-----------------------------------------------------------------------------
\* The elements of a finite set with different integer keys have the ranks
\* 0 .. n - 1, and each rank has its element.
IsKey(S, key) ==
    /\ \A e \in S : key[e] \in Int
    /\ \A e, f \in S : key[e] = key[f] => e = f

IsRank(S, key, rank) == \A e \in S : rank[e] = Cardinality({f \in S : key[f] < key[e]})

LEMMA Ranks ==
    ASSUME NEW S, IsFiniteSet(S), NEW key, IsKey(S, key), NEW rank, IsRank(S, key, rank)
    PROVE  /\ Cardinality(S) \in Nat
           /\ \A e \in S : rank[e] \in 0 .. Cardinality(S) - 1
           /\ \A e, f \in S : key[e] < key[f] <=> rank[e] < rank[f]
           /\ \A k \in 1 .. Cardinality(S) : \E e \in S : rank[e] = k - 1
<1> DEFINE n == Cardinality(S)
           lower(e) == {f \in S : key[f] < key[e]}
<1>0. /\ \A e \in S : key[e] \in Int
      /\ \A e, f \in S : key[e] = key[f] => e = f
      /\ \A e \in S : rank[e] = Cardinality(lower(e))
    BY DEF IsKey, IsRank
<1>1. n \in Nat
    BY FS_CardinalityType
<1>2. \A e \in S : lower(e) \in SUBSET S /\ e \notin lower(e)
    BY <1>0
<1>3. ASSUME NEW e \in S PROVE IsFiniteSet(lower(e)) /\ rank[e] = Cardinality(lower(e)) /\ rank[e] \in Nat
  <2>1. IsFiniteSet(lower(e))
      BY <1>2, FS_Subset
  <2>2. rank[e] = Cardinality(lower(e))
      BY <1>0
  <2> QED
      BY <2>1, <2>2, FS_CardinalityType
<1>4. \A e, f \in S : key[e] < key[f] => lower(e) \cup {e} \in SUBSET lower(f)
    BY <1>0
<1> HIDE DEF lower
<1>5. ASSUME NEW e \in S, NEW f \in S, key[e] < key[f] PROVE rank[e] < rank[f]
  <2>1. Cardinality(lower(e) \cup {e}) = Cardinality(lower(e)) + 1
      BY <1>2, <1>3, FS_AddElement
  <2>2. Cardinality(lower(e) \cup {e}) <= Cardinality(lower(f))
      BY <1>3, <1>4, <1>5, FS_Subset
  <2> QED
      BY <1>3, <2>1, <2>2
<1>6. ASSUME NEW e \in S PROVE rank[e] \in 0 .. n - 1
  <2>1. Cardinality(lower(e) \cup {e}) = Cardinality(lower(e)) + 1
      BY <1>2, <1>3, FS_AddElement
  <2>2. lower(e) \cup {e} \in SUBSET S
      BY <1>2
  <2>3. Cardinality(lower(e) \cup {e}) <= n
      BY <2>2, FS_Subset
  <2> HIDE DEF n
  <2> QED
      BY <1>1, <1>3, <2>1, <2>3
<1>7. \A e, f \in S : key[e] < key[f] <=> rank[e] < rank[f]
  <2> TAKE e \in S, f \in S
  <2>1. key[e] \in Int /\ key[f] \in Int /\ rank[e] \in Nat /\ rank[f] \in Nat
      BY <1>0, <1>3
  <2>2. key[e] < key[f] => rank[e] < rank[f]
      BY <1>5
  <2>3. key[f] < key[e] => rank[f] < rank[e]
      BY <1>5
  <2>4. key[e] = key[f] => rank[e] = rank[f]
      BY <1>0
  <2> QED
      BY <2>1, <2>2, <2>3, <2>4
<1>8. ASSUME NEW k \in 1 .. n PROVE \E e \in S : rank[e] = k - 1
  <2> DEFINE place == [e \in S |-> rank[e] + 1]
             T == 1 .. n
  <2>1. \A e \in S : place[e] \in T
      BY <1>1, <1>6
  <2>2. \A e, f \in S : place[e] = place[f] => e = f
    <3> TAKE e \in S, f \in S
    <3> SUFFICES ASSUME place[e] = place[f] PROVE e = f
        OBVIOUS
    <3>1. ~ (rank[e] < rank[f]) /\ ~ (rank[f] < rank[e]) /\ key[e] \in Int /\ key[f] \in Int
        BY <1>0, <1>3
    <3>2. key[e] = key[f]
        BY <1>7, <3>1
    <3> QED
        BY <1>0, <3>2
  <2>3. place \in Injection(S, T)
      BY <2>1, <2>2 DEF Injection, IsInjective
  <2>4. IsFiniteSet(T) /\ Cardinality(T) = n
      BY <1>1, FS_Interval
  <2> HIDE DEF place, T
  <2>5. place \in Surjection(S, T)
      BY <2>3, <2>4, FS_Injection
  <2>6. PICK e \in S : place[e] = k
      BY <1>8, <2>5 DEF Surjection, T
  <2> QED
      BY <1>3, <2>6 DEF place
<1> QED
    BY <1>1, <1>6, <1>7, <1>8 DEF n

\* A list that has in place k the element of rank k - 1 is sorted, and has
\* every element.
IsListed(S, rank, list) ==
    \A k \in 1 .. Cardinality(S) :
        (\E e \in S : rank[e] = k - 1) => list[k] \in S /\ rank[list[k]] = k - 1

LEMMA Sorted ==
    ASSUME NEW S, IsFiniteSet(S), NEW key, IsKey(S, key), NEW rank, IsRank(S, key, rank),
           NEW list, IsListed(S, rank, list)
    PROVE  /\ Cardinality(S) \in Nat
           /\ \A k \in 1 .. Cardinality(S) : list[k] \in S
           /\ \A e \in S : \E k \in 1 .. Cardinality(S) : list[k] = e
           /\ \A j, k \in 1 .. Cardinality(S) : j < k <=> key[list[j]] < key[list[k]]
<1> DEFINE n == Cardinality(S)
<1>1. /\ n \in Nat
      /\ \A e \in S : rank[e] \in 0 .. n - 1
      /\ \A e, f \in S : key[e] < key[f] <=> rank[e] < rank[f]
      /\ \A k \in 1 .. n : \E e \in S : rank[e] = k - 1
    BY Ranks
<1>2. \A k \in 1 .. n : list[k] \in S /\ rank[list[k]] = k - 1
    BY <1>1 DEF IsListed
<1> HIDE DEF n
<1>3. \A j, k \in 1 .. n : j < k <=> key[list[j]] < key[list[k]]
    BY <1>1, <1>2
<1>4. \A e \in S : \E k \in 1 .. n : list[k] = e
  <2> TAKE e \in S
  <2> DEFINE k == rank[e] + 1
  <2>1. k \in 1 .. n /\ rank[list[k]] = rank[e] /\ list[k] \in S /\ rank[e] \in Int
      BY <1>1, <1>2
  <2>2. key[list[k]] \in Int /\ key[e] \in Int /\ ~ (key[list[k]] < key[e]) /\ ~ (key[e] < key[list[k]])
      BY <1>1, <2>1 DEF IsKey
  <2>3. key[list[k]] = key[e]
      BY <2>2
  <2> QED
      BY <2>1, <2>3 DEF IsKey
<1> QED
    BY <1>1, <1>2, <1>3, <1>4 DEF n
-----------------------------------------------------------------------------
\* What an accepted file is: rows with integer dates, of which no two of a
\* ticker share one.
Accepted(frame) ==
    /\ IsFrame(frame) /\ Validates(frame)
    /\ \A row \in ToSet(frame.rows) : row.ticker \in Tickers \cup {Missing}

RowDate(frame, i) == DateOf(frame, frame.rows[i])

RowsOfTicker(frame, t) == {i \in DOMAIN frame.rows : frame.rows[i].ticker = t}

LEMMA AcceptedRows ==
    ASSUME NEW frame, Accepted(frame)
    PROVE  /\ Len(frame.rows) \in Nat /\ DOMAIN frame.rows = 1 .. Len(frame.rows)
           /\ IsFiniteSet(DOMAIN frame.rows)
           /\ \A i \in DOMAIN frame.rows : /\ RowDate(frame, i) \in Int
                                           /\ "date" \in DOMAIN frame.rows[i]
                                           /\ frame.rows[i].ticker \in Tickers \cup {Missing}
           /\ \A t : \A i, j \in RowsOfTicker(frame, t) :
                  RowDate(frame, i) = RowDate(frame, j) => i = j
<1> DEFINE R == ToSet(frame.rows)
<1>1. /\ frame.rows \in Seq(R) /\ frame.zone \in Int
      /\ \A row \in R : "date" \in DOMAIN row /\ row.date \in Int
      /\ \A row \in R : row.ticker \in Tickers \cup {Missing}
    BY DEF Accepted, IsFrame
<1> HIDE DEF R
<1>2. /\ Len(frame.rows) \in Nat /\ DOMAIN frame.rows = 1 .. Len(frame.rows)
      /\ \A i \in DOMAIN frame.rows : frame.rows[i] \in R
    BY <1>1
<1>3. IsFiniteSet(DOMAIN frame.rows)
  <2>1. 1 \in Int /\ Len(frame.rows) \in Int
      BY <1>2
  <2> QED
      BY <1>2, <2>1, FS_Interval
<1>4. \A i \in DOMAIN frame.rows : RowDate(frame, i) \in Int
    BY <1>1, <1>2 DEF RowDate, DateOf
<1>5. ~ Duplicated(frame)
    BY DEF Accepted, Validates
<1>6. \A t : \A i, j \in RowsOfTicker(frame, t) : RowDate(frame, i) = RowDate(frame, j) => i = j
    BY <1>5 DEF Duplicated, RowsOfTicker, RowDate
<1> QED
    BY <1>1, <1>2, <1>3, <1>4, <1>6

\* A group has each row of its ticker once, with its date, in date order.
LEMMA GroupSorted ==
    ASSUME NEW frame, Accepted(frame), NEW t
    PROVE  LET g == Group(frame, t)
               n == Cardinality(RowsOfTicker(frame, t))
           IN  /\ n \in Nat /\ DOMAIN g = 1 .. n
               /\ \A k \in 1 .. n : \E i \in RowsOfTicker(frame, t) :
                      g[k] = [frame.rows[i] EXCEPT !.date = RowDate(frame, i)]
               /\ \A k \in 1 .. n : g[k].date \in Int
               /\ \A i \in RowsOfTicker(frame, t) : \E k \in 1 .. n : g[k].date = RowDate(frame, i)
               /\ \A k \in 1 .. n : \E i \in RowsOfTicker(frame, t) : g[k].date = RowDate(frame, i)
               /\ \A j, k \in 1 .. n : j < k <=> g[j].date < g[k].date
<1> DEFINE S == RowsOfTicker(frame, t)
           key == [i \in DOMAIN frame.rows |-> RowDate(frame, i)]
           rank == [e \in S |-> Cardinality({f \in S : Precedes(frame, f, e)})]
           list == InOrder(S, LAMBDA i, j : Precedes(frame, i, j))
           n == Cardinality(S)
           g == Group(frame, t)
<1>1. S \in SUBSET (DOMAIN frame.rows) /\ IsFiniteSet(S)
  <2>1. S \in SUBSET (DOMAIN frame.rows)
      BY DEF RowsOfTicker
  <2> QED
      BY <2>1, AcceptedRows, FS_Subset
<1>2. \A i \in DOMAIN frame.rows : key[i] = RowDate(frame, i) /\ key[i] \in Int
    BY AcceptedRows
<1>3. \A e, f \in S : key[e] = key[f] => e = f
    BY <1>1, <1>2, AcceptedRows
<1>4. \A e, f \in S : Precedes(frame, f, e) <=> key[f] < key[e]
  <2> TAKE e \in S, f \in S
  <2>1. Precedes(frame, f, e) <=> key[f] < key[e] \/ (key[f] = key[e] /\ f < e)
      BY <1>1, <1>2 DEF Precedes, RowDate
  <2>2. key[f] = key[e] => ~ (f < e)
    <3>1. \A i \in S : ~ (i < i)
        BY <1>1, AcceptedRows
    <3> QED
        BY <1>3, <3>1
  <2> QED
      BY <2>1, <2>2
<1>5. \A e \in S : rank[e] = Cardinality({f \in S : key[f] < key[e]})
  <2> TAKE e \in S
  <2>1. {f \in S : Precedes(frame, f, e)} = {f \in S : key[f] < key[e]}
      BY <1>4
  <2> QED
      BY <2>1
<1>6. DOMAIN list = 1 .. n /\ \A k \in 1 .. n :
          (\E e \in S : rank[e] = k - 1) => list[k] \in S /\ rank[list[k]] = k - 1
  <2>1. list = [k \in 1 .. n |->
                  CHOOSE e \in S : Cardinality({f \in S : Precedes(frame, f, e)}) = k - 1]
      BY DEF InOrder
  <2> HIDE DEF list, S, n
  <2> QED
      BY <2>1
<1>7. g = [k \in DOMAIN list |-> [frame.rows[list[k]] EXCEPT !.date = RowDate(frame, list[k])]]
    BY DEF Group, RowsOfTicker, RowDate
<1> HIDE DEF list, rank, key, S, g
<1>8. /\ Cardinality(S) \in Nat
      /\ \A k \in 1 .. Cardinality(S) : list[k] \in S
      /\ \A e \in S : \E k \in 1 .. Cardinality(S) : list[k] = e
      /\ \A j, k \in 1 .. Cardinality(S) : j < k <=> key[list[j]] < key[list[k]]
  <2>1. IsFiniteSet(S) /\ IsKey(S, key)
      BY <1>1, <1>2, <1>3 DEF IsKey
  <2>2. IsRank(S, key, rank)
      BY <1>5 DEF IsRank
  <2>3. IsListed(S, rank, list)
      BY <1>6 DEF IsListed
  <2> QED
      BY <2>1, <2>2, <2>3, Sorted
<1>9. \A k \in 1 .. n : /\ g[k] = [frame.rows[list[k]] EXCEPT !.date = RowDate(frame, list[k])]
                        /\ g[k].date = RowDate(frame, list[k])
                        /\ g[k].date = key[list[k]] /\ g[k].date \in Int
  <2> TAKE k \in 1 .. n
  <2> DEFINE i == list[k]
  <2>1. i \in S /\ i \in DOMAIN frame.rows
      BY <1>1, <1>8
  <2>2. g[k] = [frame.rows[i] EXCEPT !.date = RowDate(frame, i)]
      BY <1>6, <1>7
  <2>3. "date" \in DOMAIN frame.rows[i]
      BY <2>1, AcceptedRows
  <2> HIDE DEF i
  <2>4. g[k].date = RowDate(frame, i)
      BY <2>2, <2>3
  <2> QED
      BY <1>2, <2>1, <2>2, <2>4 DEF i
<1>10. DOMAIN g = 1 .. n
    BY <1>6, <1>7
<1>11. \A j, k \in 1 .. n : j < k <=> g[j].date < g[k].date
    BY <1>8, <1>9
<1>12. \A i \in S : \E k \in 1 .. n : g[k].date = RowDate(frame, i)
  <2> TAKE i \in S
  <2>1. PICK k \in 1 .. n : list[k] = i
      BY <1>8
  <2> QED
      BY <1>9, <2>1
<1> QED
    BY <1>8, <1>9, <1>10, <1>11, <1>12 DEF S, g

\* The dates of an accepted file: those of its named rows, in order.
Groups(frame) == [t \in Tickers |-> Group(frame, t)]

LEMMA DatesSorted ==
    ASSUME NEW frame, Accepted(frame)
    PROVE  LET ds == Dates(Groups(frame))
           IN  \E n \in Nat :
               /\ DOMAIN ds = 1 .. n
               /\ \A d \in 1 .. n : ds[d] \in Int
               /\ \A d, e \in 1 .. n : d < e <=> ds[d] < ds[e]
               /\ \A t \in Tickers : \A i \in RowsOfTicker(frame, t) :
                      \E d \in 1 .. n : ds[d] = RowDate(frame, i)
<1> DEFINE gs == Groups(frame)
           days == {row.date : row \in UNION {ToSet(gs[t]) : t \in DOMAIN gs}}
           all == {RowDate(frame, i) : i \in DOMAIN frame.rows}
           key == [d \in days |-> d]
           rank == [e \in days |-> Cardinality({f \in days : f < e})]
           list == Dates(gs)
           n == Cardinality(days)
<1>1. \A d \in days : \E t \in Tickers : \E i \in RowsOfTicker(frame, t) : d = RowDate(frame, i)
  <2> TAKE d \in days
  <2>1. PICK t \in Tickers : \E row \in ToSet(Group(frame, t)) : d = row.date
      BY DEF Groups
  <2>2. PICK k \in DOMAIN Group(frame, t) : d = Group(frame, t)[k].date
      BY <2>1 DEF ToSet
  <2>3. PICK i \in RowsOfTicker(frame, t) : Group(frame, t)[k].date = RowDate(frame, i)
      BY <2>2, GroupSorted
  <2> QED
      BY <2>2, <2>3
<1>2. \A t \in Tickers : \A i \in RowsOfTicker(frame, t) : RowDate(frame, i) \in days
  <2> TAKE t \in Tickers
  <2> TAKE i \in RowsOfTicker(frame, t)
  <2>1. PICK k \in DOMAIN Group(frame, t) : Group(frame, t)[k].date = RowDate(frame, i)
      BY GroupSorted
  <2>2. Group(frame, t)[k] \in ToSet(gs[t]) /\ t \in DOMAIN gs
      BY DEF ToSet, Groups
  <2> QED
      BY <2>1, <2>2
<1> HIDE DEF days
<1>3. days \in SUBSET all /\ all \in SUBSET Int
    BY <1>1, AcceptedRows DEF RowsOfTicker
<1>4. IsFiniteSet(days)
  <2> DEFINE f == [i \in DOMAIN frame.rows |-> RowDate(frame, i)]
  <2>1. f \in Surjection(DOMAIN frame.rows, all)
      BY DEF Surjection
  <2>2. IsFiniteSet(all)
      BY <2>1, AcceptedRows, FS_Surjection
  <2> QED
      BY <1>3, <2>2, FS_Subset
<1>5. \A d \in days : key[d] \in Int /\ key[d] = d
    BY <1>3
<1>6. DOMAIN list = 1 .. n /\ \A k \in 1 .. n :
          (\E e \in days : rank[e] = k - 1) => list[k] \in days /\ rank[list[k]] = k - 1
  <2>1. list = [k \in 1 .. n |-> CHOOSE e \in days : Cardinality({f \in days : f < e}) = k - 1]
      BY DEF Dates, InOrder, days
  <2> HIDE DEF list, n
  <2> QED
      BY <2>1
<1>7. \A e \in days : rank[e] = Cardinality({f \in days : key[f] < key[e]})
  <2> TAKE e \in days
  <2>1. {f \in days : key[f] < key[e]} = {f \in days : f < e}
      BY <1>5
  <2> QED
      BY <2>1
<1> HIDE DEF list, rank, key
<1>8. /\ Cardinality(days) \in Nat
      /\ \A k \in 1 .. Cardinality(days) : list[k] \in days
      /\ \A e \in days : \E k \in 1 .. Cardinality(days) : list[k] = e
      /\ \A j, k \in 1 .. Cardinality(days) : j < k <=> key[list[j]] < key[list[k]]
  <2>1. IsKey(days, key)
      BY <1>5 DEF IsKey
  <2>2. IsRank(days, key, rank)
      BY <1>7 DEF IsRank
  <2>3. IsListed(days, rank, list)
      BY <1>6 DEF IsListed
  <2> QED
      BY <1>4, <2>1, <2>2, <2>3, Sorted
<1>9. \A k \in 1 .. n : list[k] \in Int
    BY <1>3, <1>8
<1>10. \A j, k \in 1 .. n : j < k <=> list[j] < list[k]
    BY <1>5, <1>8
<1>11. \A t \in Tickers : \A i \in RowsOfTicker(frame, t) : \E d \in 1 .. n : list[d] = RowDate(frame, i)
    BY <1>2, <1>8
<1> QED
    BY <1>6, <1>8, <1>9, <1>10, <1>11 DEF list
-----------------------------------------------------------------------------
\* What the script has read stays what the loop runs on.
FileInv ==
    /\ LoadInv
    /\ step \in {"load", "construct", "prepare"} \/ data # << >> =>
          CanLoad(input.files) /\ config = Bundle(input.files)
    /\ step \in {"construct", "prepare"} \/ data # << >> =>
          Validates(input.frame) /\ groups = Groups(input.frame)
    /\ step \in {"config", "load", "construct", "prepare"} =>
          data = << >> /\ day = 0 /\ phase = "between"
    /\ data # << >> => data = Generated(config.strategy)
    /\ step = "run" => IsFileOfInstance(data) /\ data # << >>
    /\ phase = "orders" => step = "run"

LEMMA FileKept == IInv /\ FileInv /\ [ScriptNext]_scriptVars => FileInv'
<1> SUFFICES ASSUME IInv, FileInv, [ScriptNext]_scriptVars PROVE FileInv'
    OBVIOUS
<1>0. LoadInv'
    BY LoadKept DEF FileInv
<1>1. CASE LoadConfig
    BY <1>0, <1>1 DEF LoadConfig, FileInv, engineVars, vars
<1>2. CASE LoadData
    BY <1>0, <1>2 DEF LoadData, FileInv, engineVars, vars, Groups
<1>3. CASE Construct
    BY <1>0, <1>3 DEF Construct, FileInv, engineVars, vars
<1>4. CASE Prepare
  <2>1. /\ step = "prepare" /\ UNCHANGED <<input, config, groups, engineVars>>
        /\ data = << >> /\ day = 0 /\ phase = "between"
        /\ CanLoad(input.files) /\ config = Bundle(input.files)
        /\ Validates(input.frame) /\ groups = Groups(input.frame)
      BY <1>4 DEF Prepare, FileInv
  <2>2. \/ data' = Generated(config.strategy) /\ step' = "run" /\ IsFileOfInstance(data')
        \/ data' = Generated(config.strategy) /\ step' = "elsewhere"
        \/ data' = << >> /\ step' = "failed"
      BY <1>4, <2>1 DEF Prepare
  <2>3. IsFileOfInstance(data') => data' # << >>
    <3>1. IsFileOfInstance(data') => DOMAIN data' = 1 .. NumDays
        BY DEF IsFileOfInstance
    <3>2. 1 \in 1 .. NumDays /\ DOMAIN << >> = {}
        BY EngineAssumption
    <3> QED
        BY <3>1, <3>2
  <2>4. Generated(config.strategy)' = Generated(config.strategy)
      BY <2>1 DEF Generated
  <2> QED
      BY <1>0, <2>1, <2>2, <2>3, <2>4 DEF FileInv, engineVars, vars
<1>5. CASE RunStep
  <2>1. /\ step = "run" /\ UNCHANGED <<input, config, groups, data>>
        /\ step' \in {"run", "export", "failed"}
        /\ phase' = "orders" => step' = "run"
      BY <1>5 DEF RunStep
  <2>2. Generated(config.strategy)' = Generated(config.strategy)
      BY <2>1 DEF Generated
  <2> QED
      BY <1>0, <2>1, <2>2 DEF FileInv, IsFileOfInstance
<1>6. CASE WriteArtifact \/ WriteFails
  <2>1. /\ UNCHANGED <<input, config, groups, data, engineVars>> /\ step = "export"
        /\ step' \in {"export", "exit", "failed"}
      BY <1>6 DEF WriteArtifact, WriteFails
  <2>2. Generated(config.strategy)' = Generated(config.strategy)
      BY <2>1 DEF Generated
  <2> QED
      BY <1>0, <2>1, <2>2 DEF FileInv, engineVars, vars
<1>7. CASE ScriptEnded \/ UNCHANGED scriptVars
  <2>1. UNCHANGED <<step, input, config, groups, data, day, phase>>
      BY <1>7 DEF ScriptEnded, scriptVars, engineVars, vars
  <2>2. Generated(config.strategy)' = Generated(config.strategy)
      BY <2>1 DEF Generated
  <2> QED
      BY <1>0, <2>1, <2>2 DEF FileInv, IsFileOfInstance
<1> QED
    BY <1>1, <1>2, <1>3, <1>4, <1>5, <1>6, <1>7 DEF ScriptNext

\* The rows of each date, and where each of them is in its group.
LEMMA RowsOfDates ==
    ASSUME FileInv, data # << >>, NEW d \in DOMAIN data, NEW t \in DOMAIN data[d]
    PROVE  /\ t \in Tickers /\ d \in DOMAIN Dates(groups)
           /\ \E k \in DOMAIN groups[t] :
                 /\ groups[t][k].date = Dates(groups)[d]
                 /\ data[d][t].executable =
                       ExecutableSignal(SignalPrices(groups[t], config.strategy), k, config.strategy)
<1> DEFINE ds == Dates(groups)
           s == config.strategy
           here(u) == {k \in DOMAIN groups[u] : groups[u][k].date = ds[d]}
           k == CHOOSE k \in DOMAIN groups[t] : groups[t][k].date = ds[d]
<1>1. data = Generated(s)
    BY DEF FileInv
<1>2. /\ d \in DOMAIN ds /\ t \in Tickers /\ \E j \in DOMAIN groups[t] : groups[t][j].date = ds[d]
      /\ data[d][t].executable = ExecutableSignal(SignalPrices(groups[t], s), k, s)
    BY <1>1 DEF Generated
<1>3. k \in DOMAIN groups[t] /\ groups[t][k].date = ds[d]
    BY <1>2
<1> HIDE DEF k
<1> QED
    BY <1>2, <1>3

LEMMA AllRowsAreThere ==
    ASSUME FileInv, data # << >>, NEW d \in DOMAIN data, NEW t \in Tickers,
           NEW k \in DOMAIN groups[t], groups[t][k].date = Dates(groups)[d]
    PROVE  t \in DOMAIN data[d]
<1>1. data = Generated(config.strategy)
    BY DEF FileInv
<1> QED
    BY <1>1 DEF Generated

\* The lemmas on groups and dates, of the file that was read.
LEMMA FileSorted ==
    ASSUME FileInv, data # << >>
    PROVE  /\ Accepted(input.frame)
           /\ \A t \in Tickers : \E n \in Nat :
                 /\ DOMAIN groups[t] = 1 .. n
                 /\ \A k \in 1 .. n : groups[t][k].date \in Int
                 /\ \A j, k \in 1 .. n : j < k <=> groups[t][j].date < groups[t][k].date
                 /\ \A k \in 1 .. n : \E d \in DOMAIN data : groups[t][k].date = Dates(groups)[d]
           /\ \E n \in Nat :
                 /\ DOMAIN data = 1 .. n /\ DOMAIN Dates(groups) = 1 .. n
                 /\ \A d \in 1 .. n : Dates(groups)[d] \in Int
                 /\ \A d, e \in 1 .. n : d < e <=> Dates(groups)[d] < Dates(groups)[e]
<1>1. Accepted(input.frame) /\ groups = Groups(input.frame)
    BY InputAssumption DEF FileInv, LoadInv, Accepted
<1>2. DOMAIN data = DOMAIN Dates(groups)
    BY DEF FileInv, Generated
<1>3. PICK m \in Nat :
          /\ DOMAIN Dates(groups) = 1 .. m
          /\ \A d \in 1 .. m : Dates(groups)[d] \in Int
          /\ \A d, e \in 1 .. m : d < e <=> Dates(groups)[d] < Dates(groups)[e]
          /\ \A t \in Tickers : \A i \in RowsOfTicker(input.frame, t) :
                \E d \in 1 .. m : Dates(groups)[d] = RowDate(input.frame, i)
    BY <1>1, DatesSorted
<1>4. ASSUME NEW t \in Tickers
      PROVE  \E n \in Nat :
                 /\ DOMAIN groups[t] = 1 .. n
                 /\ \A k \in 1 .. n : groups[t][k].date \in Int
                 /\ \A j, k \in 1 .. n : j < k <=> groups[t][j].date < groups[t][k].date
                 /\ \A k \in 1 .. n : \E d \in DOMAIN data : groups[t][k].date = Dates(groups)[d]
  <2> DEFINE n == Cardinality(RowsOfTicker(input.frame, t))
  <2>1. groups[t] = Group(input.frame, t)
      BY <1>1 DEF Groups
  <2>2. /\ n \in Nat /\ DOMAIN groups[t] = 1 .. n
        /\ \A k \in 1 .. n : groups[t][k].date \in Int
        /\ \A k \in 1 .. n : \E i \in RowsOfTicker(input.frame, t) :
               groups[t][k].date = RowDate(input.frame, i)
        /\ \A j, k \in 1 .. n : j < k <=> groups[t][j].date < groups[t][k].date
    <3> DEFINE g == Group(input.frame, t)
    <3>1. /\ n \in Nat /\ DOMAIN g = 1 .. n
          /\ \A k \in 1 .. n : g[k].date \in Int
          /\ \A k \in 1 .. n : \E i \in RowsOfTicker(input.frame, t) :
                 g[k].date = RowDate(input.frame, i)
          /\ \A j, k \in 1 .. n : j < k <=> g[j].date < g[k].date
        BY <1>1, GroupSorted
    <3> QED
        BY <2>1, <3>1
  <2> HIDE DEF n
  <2>3. \A k \in 1 .. n : \E d \in DOMAIN data : groups[t][k].date = Dates(groups)[d]
      BY <1>2, <1>3, <2>2
  <2> QED
      BY <2>2, <2>3
<1> QED
    BY <1>1, <1>2, <1>3, <1>4
-----------------------------------------------------------------------------
\* The signal that the engine has of a ticker is the executable one of the
\* row that the ticker trades in next.
IsNextRow(t, d) ==
    /\ d \in DOMAIN data /\ day < d /\ t \in DOMAIN data[d]
    /\ \A e \in DOMAIN data : day < e /\ e < d => t \notin DOMAIN data[e]

SignalInv ==
    /\ step = "run" =>
          \A t \in Tickers : \A d \in DOMAIN data :
              IsNextRow(t, d) => signal[t] = data[d][t].executable
    /\ phase = "orders" => day + 1 \in DOMAIN data /\ DOMAIN bars = DOMAIN data[day + 1]

\* Nothing is executable in the first row of a ticker.
LEMMA FirstRowsAreFlat ==
    FileInv /\ data # << >> /\ day = 0 =>
        \A t \in Tickers : \A d \in DOMAIN data : IsNextRow(t, d) => data[d][t].executable = FALSE
<1> SUFFICES ASSUME FileInv, data # << >>, day = 0, NEW t \in Tickers, NEW d \in DOMAIN data,
                    IsNextRow(t, d)
             PROVE  data[d][t].executable = FALSE
    OBVIOUS
<1>1. t \in DOMAIN data[d] /\ \A e \in DOMAIN data : 0 < e /\ e < d => t \notin DOMAIN data[e]
    BY DEF IsNextRow
<1>2. PICK k \in DOMAIN groups[t] :
          /\ groups[t][k].date = Dates(groups)[d]
          /\ data[d][t].executable =
                ExecutableSignal(SignalPrices(groups[t], config.strategy), k, config.strategy)
    BY <1>1, RowsOfDates
<1>3. PICK n \in Nat :
          /\ DOMAIN groups[t] = 1 .. n
          /\ \A j, l \in 1 .. n : j < l <=> groups[t][j].date < groups[t][l].date
          /\ \A j \in 1 .. n : \E e \in DOMAIN data : groups[t][j].date = Dates(groups)[e]
    BY FileSorted
<1>4. PICK m \in Nat :
          /\ DOMAIN data = 1 .. m
          /\ \A e, f \in 1 .. m : e < f <=> Dates(groups)[e] < Dates(groups)[f]
    BY FileSorted
<1>5. ~ (k > 1)
  <2> SUFFICES ASSUME k > 1 PROVE FALSE
      OBVIOUS
  <2>1. 1 \in 1 .. n /\ 1 < k
      BY <1>3
  <2>2. PICK e \in DOMAIN data : groups[t][1].date = Dates(groups)[e]
      BY <1>3, <2>1
  <2>3. t \in DOMAIN data[e]
      BY <1>3, <2>1, <2>2, AllRowsAreThere
  <2>4. groups[t][1].date < groups[t][k].date
      BY <1>3, <2>1
  <2>5. Dates(groups)[e] < Dates(groups)[d]
      BY <1>2, <2>2, <2>4
  <2>6. e < d /\ 0 < e
      BY <1>4, <2>5
  <2> QED
      BY <1>1, <2>3, <2>6
<1> QED
    BY <1>2, <1>5 DEF ExecutableSignal

LEMMA SignalAfterDate ==
    ASSUME IInv, FileInv, SignalInv, RunStep, CloseDay
    PROVE  SignalInv'
<1>1. /\ UNCHANGED data /\ day' = day + 1 /\ phase' = "between" /\ step = "run"
      /\ phase = "orders" /\ day \in Nat
    BY EngineAssumption DEF RunStep, CloseDay, IInv, TypeOK
<1>2. /\ DOMAIN bars \in SUBSET Tickers
      /\ \A t \in Tickers \ DOMAIN bars : signal'[t] = signal[t]
      /\ \A t \in DOMAIN bars : signal'[t] = NextSignal(t)
  <2>1. TypeOK
      BY DEF IInv
  <2>2. DOMAIN bars \in SUBSET Tickers
      BY <2>1 DEF TypeOK
  <2>3. \A t \in Tickers \ DOMAIN bars : signal'[t] = signal[t]
      BY DEF CloseDay
  <2>4. \A t \in DOMAIN bars : signal'[t] = NextSignal(t)
      BY <1>1 DEF RunStep
  <2> QED
      BY <2>2, <2>3, <2>4
<1>3. DOMAIN bars = DOMAIN data[day + 1] /\ day + 1 \in DOMAIN data
    BY <1>1 DEF SignalInv
<1>4. DOMAIN data = 1 .. NumDays /\ NumDays \in Nat
    BY <1>1, EngineAssumption DEF FileInv, IsFileOfInstance
<1>5. ASSUME NEW t \in Tickers, NEW d \in DOMAIN data, IsNextRow(t, d)'
      PROVE  signal'[t] = data[d][t].executable
  <2>1. /\ day + 1 < d /\ t \in DOMAIN data[d]
        /\ \A e \in DOMAIN data : day + 1 < e /\ e < d => t \notin DOMAIN data[e]
      BY <1>1, <1>5 DEF IsNextRow
  <2>2. CASE t \in DOMAIN bars
    <3> DEFINE later == {e \in DOMAIN data : e > day + 1 /\ t \in DOMAIN data[e]}
    <3>1. d \in later /\ \A e \in later : d <= e
        BY <1>1, <1>4, <2>1
    <3>2. \A m \in later : (\A e \in later : m <= e) => m = d
        BY <1>4, <3>1
    <3>3. Min(later) = d
        BY <3>1, <3>2 DEF Min
    <3>4. NextSignal(t) = data[d][t].executable
        BY <3>1, <3>3 DEF NextSignal
    <3> QED
        BY <1>2, <2>2, <3>4
  <2>3. CASE t \notin DOMAIN bars
    <3>1. IsNextRow(t, d)
      <4>1. \A e \in DOMAIN data : day < e => e = day + 1 \/ day + 1 < e
          BY <1>1, <1>4
      <4>2. day < d
          BY <1>1, <1>4, <2>1
      <4> QED
          BY <1>3, <2>1, <2>3, <4>1, <4>2 DEF IsNextRow
    <3>2. signal[t] = data[d][t].executable
        BY <1>1, <3>1 DEF SignalInv
    <3> QED
        BY <1>2, <2>3, <3>2
  <2> QED
      BY <2>2, <2>3
<1> QED
    BY <1>1, <1>5 DEF SignalInv

LEMMA SignalKept ==
    IInv /\ LedgerInv /\ FileInv /\ SignalInv /\ [ScriptNext]_scriptVars => SignalInv'
<1>1. (FileInv /\ data # << >> /\ day = 0 =>
          \A t \in Tickers : \A d \in DOMAIN data : IsNextRow(t, d) => data[d][t].executable = FALSE)'
    BY FirstRowsAreFlat, PTL
<1> SUFFICES ASSUME IInv, LedgerInv, FileInv, SignalInv, [ScriptNext]_scriptVars PROVE SignalInv'
    OBVIOUS
<1>2. FileInv'
    BY FileKept
<1>3. CASE Prepare
  <2>1. /\ step = "prepare" /\ UNCHANGED <<day, phase, signal>> /\ day = 0 /\ phase = "between"
        /\ \A t \in Tickers : signal[t] = FALSE
    <3>1. /\ step = "prepare" /\ UNCHANGED <<day, phase, signal>> /\ day = 0 /\ phase = "between"
        BY <1>3 DEF Prepare, engineVars, vars, FileInv
    <3> QED
        BY <3>1 DEF LedgerInv, IInv, TypeOK
  <2>2. ASSUME step' = "run", NEW t \in Tickers, NEW d \in DOMAIN data', IsNextRow(t, d)'
        PROVE  signal'[t] = data'[d][t].executable
    <3>1. data' # << >>
        BY <1>2, <2>2 DEF FileInv
    <3>2. data'[d][t].executable = FALSE
        BY <1>1, <1>2, <2>1, <2>2, <3>1
    <3> QED
        BY <2>1, <3>2
  <2> QED
      BY <2>1, <2>2 DEF SignalInv
<1>4. CASE RunStep
  <2>1. UNCHANGED data /\ step = "run" /\ Next
      BY <1>4 DEF RunStep
  <2>2. CASE OpenDay
    <3>1. /\ UNCHANGED <<day, signal>> /\ bars' = DayRows /\ day < NumDays /\ day \in Nat
        BY <1>4, <2>2, EngineAssumption DEF OpenDay, RunStep, IInv, TypeOK
    <3>2. day + 1 \in DOMAIN data
        BY <2>1, <3>1, EngineAssumption DEF FileInv, IsFileOfInstance
    <3> QED
        BY <2>1, <3>1, <3>2 DEF SignalInv, IsNextRow, DayRows
  <2>3. CASE CloseDay
      BY <1>4, <2>3, SignalAfterDate
  <2>4. CASE \E t \in Tickers : Buy(t) \/ Sell(t) \/ NoOrder(t)
    <3>1. UNCHANGED <<day, signal, bars, phase>>
        BY <2>4 DEF Buy, Sell, NoOrder, Execute
    <3> QED
        BY <2>1, <3>1 DEF SignalInv, IsNextRow
  <2>5. CASE CloseDayFails \/ Finish \/ FinishFails \/ Ended
    <3>1. UNCHANGED <<day, signal>> /\ phase' # "orders"
        BY <2>5 DEF CloseDayFails, Finish, FinishFails, Ended, vars
    <3> QED
        BY <2>1, <3>1 DEF SignalInv, IsNextRow
  <2> QED
      BY <2>1, <2>2, <2>3, <2>4, <2>5 DEF Next
<1>5. CASE LoadConfig \/ LoadData \/ Construct
  <2>1. UNCHANGED <<day, phase>> /\ phase = "between" /\ step' # "run"
      BY <1>5 DEF LoadConfig, LoadData, Construct, engineVars, vars, FileInv
  <2> QED
      BY <2>1 DEF SignalInv
<1>6. CASE WriteArtifact \/ WriteFails \/ ScriptEnded \/ UNCHANGED scriptVars
  <2>1. UNCHANGED <<day, phase, data, bars, signal>> /\ (step' = "run" => step = "run")
      BY <1>6 DEF WriteArtifact, WriteFails, ScriptEnded, scriptVars, engineVars, vars
  <2> QED
      BY <2>1 DEF SignalInv, IsNextRow
<1> QED
    BY <1>3, <1>4, <1>5, <1>6 DEF ScriptNext

LEMMA LoadedWindows ==
    ASSUME NEW files, WellTyped(files), CanLoad(files)
    PROVE  /\ Bundle(files).strategy.short_window \in Nat \ {0}
           /\ Bundle(files).strategy.long_window \in Nat \ {0}
<1> DEFINE s == Bundle(files).strategy
<1>1. s.short_window \in Int /\ s.long_window \in Int
    BY LoadedNumbers DEF Numbers
<1>2. s.short_window > 0 /\ s.long_window > 0
    BY DEF CanLoad, Validate, ValidStrategy, ValidWindows
<1> HIDE DEF s
<1>3. s.short_window \in Nat \ {0} /\ s.long_window \in Nat \ {0}
    BY <1>1, <1>2
<1> QED
    BY <1>3 DEF s

LEMMA FirstOnes ==
    ASSUME NEW R, NEW g, NEW known \in Nat, \A i \in 1 .. known : g[i] \in R
    PROVE  /\ SubSeq(g, 1, known) \in Seq(R) /\ Len(SubSeq(g, 1, known)) = known
           /\ \A i \in 1 .. known : SubSeq(g, 1, known)[i] = g[i]
<1>1. SubSeq(g, 1, known) \in Seq(R) /\ Len(SubSeq(g, 1, known)) = known
    BY SubSeqProperties
<1> QED
    BY <1>1, SubSeqProperties

\* The prices that a strategy sees of the first rows of a group.
LEMMA HistoryOfGroup ==
    ASSUME NEW R, NEW g \in Seq(R), NEW n \in Nat, Len(g) = n, NEW known \in 0 .. n, NEW strategy
    PROVE  LET p == SignalPrices(g, strategy)
               h == SignalPrices(SubSeq(g, 1, known), strategy)
           IN  \E T : p \in Seq(T) /\ h \in Seq(T) /\ AgreeUpTo(p, h, known)
<1> DEFINE price == [i \in 1 .. n |-> g[i][SelectedPrice(strategy)]]
           T == {price[i] : i \in 1 .. n}
           past == SubSeq(g, 1, known)
           p == SignalPrices(g, strategy)
           h == SignalPrices(past, strategy)
<1>1. DOMAIN g = 1 .. n /\ \A i \in 1 .. known : g[i] \in R
    OBVIOUS
<1>2. DOMAIN past = 1 .. known /\ \A i \in 1 .. known : past[i] = g[i]
  <2>1. past \in Seq(R) /\ Len(past) = known /\ \A i \in 1 .. known : past[i] = g[i]
    <3>1. known \in Nat
        OBVIOUS
    <3> QED
        BY <1>1, <3>1, FirstOnes
  <2> HIDE DEF past
  <2>5. DOMAIN past = 1 .. known
      BY <2>1
  <2> QED
      BY <2>1, <2>5
<1> HIDE DEF past
<1>3. p = price
    BY <1>1 DEF SignalPrices
<1>4. h = [i \in 1 .. known |-> price[i]]
  <2>1. h = [i \in DOMAIN past |-> past[i][SelectedPrice(strategy)]]
      BY DEF SignalPrices
  <2>2. \A i \in 1 .. known : i \in 1 .. n /\ past[i] = g[i]
      BY <1>2
  <2> HIDE DEF h
  <2> QED
      BY <1>2, <2>1, <2>2
<1>7. price = [i \in 1 .. n |-> price[i]] /\ \A i \in 1 .. n : price[i] \in T
    OBVIOUS
<1> HIDE DEF p, h, T, price
<1>5. p \in Seq(T) /\ h \in Seq(T) /\ Len(p) = n /\ Len(h) = known
  <2>1. p \in Seq(T) /\ Len(p) = n
    <3>1. \A f : f = [i \in 1 .. n |-> f[i]] /\ (\A i \in 1 .. n : f[i] \in T) => f \in Seq(T) /\ Len(f) = n
        OBVIOUS
    <3> QED
        BY <1>3, <1>7, <3>1, Zenon
  <2>2. h = [i \in 1 .. known |-> price[i]] /\ \A i \in 1 .. known : price[i] \in T
      BY <1>4, <1>7
  <2>3. h \in Seq(T) /\ Len(h) = known
      BY <2>2
  <2> QED
      BY <2>1, <2>3
<1>6. AgreeUpTo(p, h, known)
    BY <1>3, <1>4, <1>5 DEF AgreeUpTo
<1> QED
    BY <1>5, <1>6 DEF p, h, past

\* The executable signal of the row in place k is a function of the rows
\* before it.
LEMMA SignalIsOfHistory ==
    ASSUME FileInv, SignalInv, phase = "orders", day \in Nat, NEW t \in DOMAIN bars, t \in Tickers
    PROVE  \E known \in 0 .. Len(groups[t]) :
              /\ \A k \in DOMAIN groups[t] :
                    groups[t][k].date < Dates(groups)[day + 1] <=> k <= known
              /\ signal[t] = (known > 0 /\ RawSignal(SignalPrices(SubSeq(groups[t], 1, known), config.strategy),
                                                     known, config.strategy))
<1> DEFINE d == day + 1
           g == groups[t]
           s == config.strategy
           p == SignalPrices(g, s)
<1>1. /\ step = "run" /\ data # << >> /\ d \in DOMAIN data /\ t \in DOMAIN data[d]
      /\ \A e \in DOMAIN data : ~ (day < e /\ e < d)
  <2>1. step = "run" /\ IsFileOfInstance(data) /\ data # << >>
      BY DEF FileInv
  <2>2. d \in DOMAIN data /\ t \in DOMAIN data[d]
      BY DEF SignalInv
  <2>3. \A e \in DOMAIN data : e \in Int
      BY <2>1, EngineAssumption DEF IsFileOfInstance
  <2>4. \A e \in DOMAIN data : ~ (day < e /\ e < d)
      BY <2>3
  <2> QED
      BY <2>1, <2>2, <2>4
<1>2. signal[t] = data[d][t].executable
  <2>1. IsNextRow(t, d)
      BY <1>1 DEF IsNextRow
  <2> QED
      BY <1>1, <2>1 DEF SignalInv
<1>3. PICK k \in DOMAIN g : /\ g[k].date = Dates(groups)[d]
                            /\ signal[t] = ExecutableSignal(p, k, s)
  <2> HIDE DEF d
  <2> QED
      BY <1>1, <1>2, RowsOfDates
<1>4. PICK n \in Nat : /\ DOMAIN g = 1 .. n
                       /\ \A j, l \in 1 .. n : j < l <=> g[j].date < g[l].date
    BY <1>1, FileSorted
<1>5. g \in Seq({g[i] : i \in 1 .. n}) /\ Len(g) = n
  <2>1. groups = Groups(input.frame)
      BY <1>1 DEF FileInv
  <2>2. g = Group(input.frame, t)
      BY <2>1 DEF Groups
  <2>3. \E f : g = [i \in 1 .. n |-> f[i]]
      BY <1>4, <2>2 DEF Group
  <2> HIDE DEF g
  <2> QED
      BY <2>3
<1> DEFINE known == k - 1
           h == SignalPrices(SubSeq(g, 1, known), s)
<1>6. known \in 0 .. n /\ Len(g) = n /\ k \in Nat \ {0} /\ k \in 1 .. n
    BY <1>4, <1>5
<1>7. \A j \in DOMAIN g : g[j].date < Dates(groups)[d] <=> j <= known
    BY <1>3, <1>4, <1>6
<1>8. s.short_window \in Nat \ {0} /\ s.long_window \in Nat \ {0}
  <2>1. CanLoad(input.files) /\ config = Bundle(input.files) /\ WellTyped(input.files)
      BY <1>1, InputAssumption DEF FileInv, LoadInv
  <2> QED
      BY <2>1, LoadedWindows
<1> HIDE DEF g, s, d
<1>9. PICK T : p \in Seq(T) /\ h \in Seq(T) /\ AgreeUpTo(p, h, known)
    BY <1>4, <1>5, <1>6, HistoryOfGroup
<1> HIDE DEF p, h
<1>10. ExecutableSignal(p, k, s) = ExecutableSignal(h, k, s)
    BY <1>6, <1>8, <1>9, NoHindsight
<1>11. signal[t] = (known > 0 /\ RawSignal(h, known, s))
    BY <1>3, <1>6, <1>10 DEF ExecutableSignal
<1> QED
    BY <1>6, <1>7, <1>11 DEF g, s, d, h

LEMMA FileInvariance == ScriptSpec => [](IInv /\ LedgerInv /\ FileInv)
<1>1. ScriptInit => FileInv
    BY DEF ScriptInit, FileInv, LoadInv, Init
<1>2. IInv /\ FileInv /\ [ScriptNext]_scriptVars => FileInv'
    BY FileKept
<1> QED
    BY <1>1, <1>2, LedgerInvariance, PTL DEF ScriptSpec

\* No price of the day or of a later one decides an order: a signal is what
\* the strategy makes of the rows of earlier dates, whatever the file, the
\* averages and their windows.
THEOREM NoLookingAhead == ScriptSpec => []NoLookAhead
<1>1. ScriptInit => SignalInv
    BY DEF ScriptInit, SignalInv, Init
<1>2. IInv /\ LedgerInv /\ FileInv /\ SignalInv /\ [ScriptNext]_scriptVars => SignalInv'
    BY SignalKept
<1>3. IInv /\ FileInv /\ SignalInv => NoLookAhead
  <2> SUFFICES ASSUME IInv, FileInv, SignalInv, phase = "orders", NEW t \in DOMAIN bars
               PROVE  \E known \in 0 .. Len(groups[t]) :
                         LET history == SignalPrices(SubSeq(groups[t], 1, known), config.strategy)
                         IN  /\ \A k \in DOMAIN groups[t] :
                                   groups[t][k].date < Dates(groups)[day + 1] <=> k <= known
                             /\ signal[t] = (known > 0 /\ RawSignal(history, known, config.strategy))
      BY DEF NoLookAhead
  <2>1. t \in Tickers /\ day \in Nat
      BY EngineAssumption DEF IInv, TypeOK
  <2> QED
      BY <2>1, SignalIsOfHistory
<1> QED
    BY <1>1, <1>2, <1>3, FileInvariance, PTL DEF ScriptSpec
-----------------------------------------------------------------------------
\* A finite set that is divided into m parts has as many elements as the parts
\* together.
IsDivided(S, place, m) == \A i \in S : place[i] \in 1 .. m

IsCount(S, place, m, count) == \A d \in 1 .. m : count[d] = Cardinality({i \in S : place[i] = d})

LEMMA CountByParts ==
    ASSUME NEW S, IsFiniteSet(S), NEW m \in Nat, NEW place, IsDivided(S, place, m),
           NEW count, IsCount(S, place, m, count)
    PROVE  Cardinality(S) = SumUpTo(count, m)
<1> DEFINE upTo(l) == {i \in S : place[i] <= l}
           part(d) == {i \in S : place[i] = d}
           Bad == {l \in 0 .. m : Cardinality(upTo(l)) # SumUpTo(count, l)}
<1>1. \A l : /\ IsFiniteSet(upTo(l)) /\ IsFiniteSet(part(l))
             /\ Cardinality(upTo(l)) \in Nat /\ Cardinality(part(l)) \in Nat
  <2> TAKE l
  <2>1. upTo(l) \in SUBSET S /\ part(l) \in SUBSET S
      OBVIOUS
  <2>2. IsFiniteSet(upTo(l)) /\ IsFiniteSet(part(l))
      BY <2>1, FS_Subset
  <2> QED
      BY <2>2, FS_CardinalityType
<1>2. upTo(0) = {} /\ upTo(m) = S
    BY DEF IsDivided
<1>3. ASSUME NEW l \in Nat, l + 1 \in 1 .. m
      PROVE  upTo(l + 1) = upTo(l) \cup part(l + 1) /\ upTo(l) \cap part(l + 1) = {}
    BY <1>3 DEF IsDivided
<1>4. \A d \in 1 .. m : count[d] = Cardinality(part(d))
    BY DEF IsCount
<1> HIDE DEF upTo, part
<1>5. ASSUME Bad # {} PROVE FALSE
  <2>1. Bad \in SUBSET Nat
      OBVIOUS
  <2>2. PICK b \in Bad : \A n \in Bad : b <= n
      BY <1>5, <2>1, SmallestElement
  <2>3. b \in 0 .. m /\ Cardinality(upTo(b)) # SumUpTo(count, b)
      BY <2>2
  <2>4. b # 0
      BY <1>2, <2>3, SumOfNothing, FS_EmptySet
  <2> DEFINE l == b - 1
  <2>5. l \in Nat /\ l \in 0 .. m /\ l \notin Bad /\ b = l + 1 /\ l + 1 \in 1 .. m
      BY <2>2, <2>3, <2>4
  <2>6. Cardinality(upTo(l)) = SumUpTo(count, l)
      BY <2>5
  <2> HIDE DEF l, Bad
  <2>7. SumUpTo(count, l + 1) = SumUpTo(count, l) + count[l + 1]
      BY <2>5, SumOfOneMore
  <2>8. Cardinality(upTo(l + 1)) = Cardinality(upTo(l)) + Cardinality(part(l + 1))
    <3>1. upTo(l + 1) = upTo(l) \cup part(l + 1) /\ upTo(l) \cap part(l + 1) = {}
        BY <1>3, <2>5
    <3>2. Cardinality(upTo(l) \cup part(l + 1))
            = Cardinality(upTo(l)) + Cardinality(part(l + 1)) - Cardinality({})
        BY <1>1, <3>1, FS_Union
    <3>3. Cardinality({}) = 0
        BY FS_EmptySet
    <3>4. Cardinality(upTo(l)) \in Nat /\ Cardinality(part(l + 1)) \in Nat
        BY <1>1
    <3>5. Cardinality(upTo(l + 1)) = Cardinality(upTo(l) \cup part(l + 1))
        BY <3>1, Zenon
    <3> QED
        BY <3>2, <3>3, <3>4, <3>5
  <2> QED
      BY <1>4, <2>3, <2>5, <2>6, <2>7, <2>8
<1>6. m \in 0 .. m
    OBVIOUS
<1>7. Cardinality(upTo(m)) = SumUpTo(count, m)
    BY <1>5, <1>6
<1> QED
    BY <1>2, <1>7

\* The named rows of a date, and its bars.
NamedRows(frame) == {i \in DOMAIN frame.rows : frame.rows[i].ticker # Missing}

NamedOfDate(frame, date) == {i \in NamedRows(frame) : RowDate(frame, i) = date}

LEMMA BarsOfDate ==
    ASSUME FileInv, data # << >>, NEW d \in DOMAIN data
    PROVE  Cardinality(NamedOfDate(input.frame, Dates(groups)[d])) = Cardinality(DOMAIN data[d])
<1> DEFINE frame == input.frame
           date == Dates(groups)[d]
           S == NamedOfDate(frame, date)
           T == DOMAIN data[d]
           f == [i \in S |-> frame.rows[i].ticker]
<1>1. Accepted(frame) /\ groups = Groups(frame) /\ data = Generated(config.strategy)
    BY FileSorted DEF FileInv
<1> HIDE DEF frame
<1>2. T = {t \in Tickers : \E k \in DOMAIN groups[t] : groups[t][k].date = date}
    BY <1>1 DEF Generated
<1>3. \A t \in Tickers : groups[t] = Group(frame, t)
    BY <1>1 DEF Groups
<1> HIDE DEF date, T
<1>4. S \in SUBSET (DOMAIN frame.rows) /\ IsFiniteSet(S)
  <2>1. S \in SUBSET (DOMAIN frame.rows)
      BY DEF NamedOfDate, NamedRows
  <2> QED
      BY <1>1, <2>1, AcceptedRows, FS_Subset
<1>5. \A i \in S : frame.rows[i].ticker \in T
  <2> TAKE i \in S
  <2> DEFINE t == frame.rows[i].ticker
  <2>1. t \in Tickers /\ i \in RowsOfTicker(frame, t) /\ RowDate(frame, i) = date
      BY <1>1, <1>4, AcceptedRows DEF NamedOfDate, NamedRows, RowsOfTicker
  <2> HIDE DEF t
  <2>2. \E k \in DOMAIN Group(frame, t) : Group(frame, t)[k].date = RowDate(frame, i)
      BY <1>1, <2>1, GroupSorted
  <2>3. t \in T
      BY <1>2, <1>3, <2>1, <2>2
  <2> QED
      BY <2>3 DEF t
<1>6. \A i, j \in S : frame.rows[i].ticker = frame.rows[j].ticker => i = j
  <2> TAKE i \in S, j \in S
  <2> SUFFICES ASSUME frame.rows[i].ticker = frame.rows[j].ticker PROVE i = j
      OBVIOUS
  <2>1. /\ i \in RowsOfTicker(frame, frame.rows[i].ticker)
        /\ j \in RowsOfTicker(frame, frame.rows[i].ticker)
        /\ RowDate(frame, i) = RowDate(frame, j)
      BY <1>4 DEF NamedOfDate, RowsOfTicker
  <2> QED
      BY <1>1, <2>1, AcceptedRows
<1>7. \A t \in T : \E i \in S : frame.rows[i].ticker = t
  <2> TAKE t \in T
  <2>1. PICK k \in DOMAIN Group(frame, t) : Group(frame, t)[k].date = date /\ t \in Tickers
      BY <1>2, <1>3
  <2>2. PICK i \in RowsOfTicker(frame, t) : Group(frame, t)[k].date = RowDate(frame, i)
      BY <1>1, <2>1, GroupSorted
  <2>3. i \in DOMAIN frame.rows /\ frame.rows[i].ticker = t /\ t # Missing
      BY <2>1, InputAssumption DEF RowsOfTicker
  <2> QED
      BY <2>1, <2>2, <2>3 DEF NamedOfDate, NamedRows
<1>8. f \in Bijection(S, T)
  <2>1. f \in [S -> T]
      BY <1>5
  <2>2. \A i, j \in S : f[i] = f[j] => i = j
      BY <1>6
  <2>3. \A t \in T : \E i \in S : f[i] = t
      BY <1>7
  <2> HIDE DEF f, S
  <2> QED
      BY <2>1, <2>2, <2>3 DEF Bijection, Injection, Surjection, IsInjective
<1> HIDE DEF S, f
<1>9. ExistsBijection(S, T)
    BY <1>8 DEF ExistsBijection
<1>10. Cardinality(T) = Cardinality(S)
    BY <1>4, <1>9, FS_Bijection
<1> QED
    BY <1>10 DEF S, T, frame, date

\* No bar is lost: every named row of the file is one of the rows that the
\* loop sees, however tickers and dates are spread over the file.
THEOREM NoBarIsLost == ScriptSpec => []NoBarLost
<1>1. FileInv => NoBarLost
  <2> DEFINE frame == input.frame
             S == NamedRows(frame)
             count == [d \in DOMAIN data |-> Cardinality(DOMAIN data[d])]
             place == [i \in S |-> CHOOSE d \in DOMAIN data : Dates(groups)[d] = RowDate(frame, i)]
  <2> SUFFICES ASSUME FileInv, data # << >>
               PROVE  Cardinality(S) = SumUpTo(count, Len(data))
      BY DEF NoBarLost, NamedRows
  <2>1. Accepted(frame) /\ groups = Groups(frame) /\ data = Generated(config.strategy)
      BY FileSorted DEF FileInv
  <2>2. PICK m \in Nat : /\ DOMAIN data = 1 .. m /\ DOMAIN Dates(groups) = 1 .. m
                         /\ \A d, e \in 1 .. m : d < e <=> Dates(groups)[d] < Dates(groups)[e]
                         /\ \A d \in 1 .. m : Dates(groups)[d] \in Int
      BY FileSorted
  <2>3. Len(data) = m
    <3>1. data = [d \in DOMAIN Dates(groups) |-> data[d]]
        BY <2>1 DEF Generated
    <3>2. data = [d \in 1 .. m |-> data[d]]
        BY <2>2, <3>1
    <3>3. \A f : f = [d \in 1 .. m |-> f[d]] => Len(f) = m
        OBVIOUS
    <3> QED
        BY <3>2, <3>3, Zenon
  <2>4. IsFiniteSet(S)
    <3>1. S \in SUBSET (DOMAIN frame.rows)
        BY DEF NamedRows
    <3>2. IsFiniteSet(DOMAIN frame.rows)
        BY <2>1, AcceptedRows
    <3> QED
        BY <3>1, <3>2, FS_Subset
  <2>5. \A i \in S : \E d \in 1 .. m : Dates(groups)[d] = RowDate(frame, i)
    <3> TAKE i \in S
    <3> DEFINE t == frame.rows[i].ticker
    <3>1. t \in Tickers /\ i \in RowsOfTicker(frame, t)
        BY <2>1, AcceptedRows DEF NamedRows, RowsOfTicker
    <3> QED
        BY <2>1, <2>2, <3>1, DatesSorted
  <2>6. \A i \in S : place[i] \in 1 .. m /\ Dates(groups)[place[i]] = RowDate(frame, i)
      BY <2>2, <2>5
  <2>7. \A d \in 1 .. m : {i \in S : place[i] = d} = NamedOfDate(frame, Dates(groups)[d])
      BY <2>2, <2>6 DEF NamedOfDate
  <2>8. IsCount(S, place, m, count)
      BY <2>2, <2>7, BarsOfDate DEF IsCount
  <2>9. IsDivided(S, place, m)
      BY <2>6 DEF IsDivided
  <2> HIDE DEF S, place, count
  <2> QED
      BY <2>3, <2>4, <2>8, <2>9, CountByParts
<1> QED
    BY <1>1, FileInvariance, PTL
-----------------------------------------------------------------------------
\* During a date the tickers that trade on it are between two prices; the
\* others are still at their last close.
MarkInv ==
    /\ MarkedAtLastClose
    /\ phase = "orders" =>
          /\ \A t \in DOMAIN bars :
                day + 1 \in DOMAIN data /\ t \in DOMAIN data[day + 1]
                /\ bars[t].close = data[day + 1][t].close
          /\ \A t \in OpenPositions(positions) \ DOMAIN bars :
                IsLastClose(positions[t].currentPrice, t, day)

\* Marking the book sets the price of the open tickers it names, and of no
\* others.
LEMMA MarkSetsPrices ==
    ASSUME NEW book \in Books, NEW prices, NEW t \in Tickers
    PROVE  LET marked == MarkToMarket(book, prices)
           IN  /\ t \notin DOMAIN prices => marked[t] = book[t]
               /\ t \in DOMAIN prices /\ IsOpen(book[t]) => marked[t].currentPrice = prices[t]
BY DEF MarkToMarket, Books, Position

\* The close of a date is the last one of the tickers that traded on it; the
\* others keep theirs.
LEMMA MarksAfterClose ==
    ASSUME IInv, SignalInv, MarkInv, CloseDay, UNCHANGED data
    PROVE  MarkInv'
<1>1. /\ phase = "orders" /\ phase' = "between" /\ day' = day + 1 /\ day \in Nat
      /\ positions' = AtClose /\ positions \in Books
    BY EngineAssumption DEF CloseDay, IInv, TypeOK, Books
<1>2. OpenPositions(positions') = OpenPositions(positions)
    BY <1>1, AtCloseFacts DEF IInv
<1>3. day + 1 \in DOMAIN data /\ DOMAIN bars = DOMAIN data[day + 1]
    BY <1>1 DEF SignalInv
<1>4. ASSUME NEW t \in OpenPositions(positions)
      PROVE  IsLastClose(positions'[t].currentPrice, t, day + 1)
  <2>1. t \in Tickers /\ IsOpen(positions[t])
      BY DEF OpenPositions
  <2>2. CASE t \in DOMAIN bars
    <3>1. positions'[t].currentPrice = bars[t].close
        BY <1>1, <2>1, <2>2, MarkSetsPrices DEF AtClose
    <3>2. bars[t].close = data[day + 1][t].close /\ t \in DOMAIN data[day + 1]
        BY <1>1, <2>2 DEF MarkInv
    <3>3. day + 1 \in 1 .. (day + 1) /\ day + 2 .. day + 1 = {}
        BY <1>1
    <3>4. (day + 1) + 1 = day + 2
        BY <1>1
    <3> QED
        BY <1>1, <3>1, <3>2, <3>3, <3>4 DEF IsLastClose
  <2>3. CASE t \notin DOMAIN bars
    <3>1. positions'[t] = positions[t]
        BY <1>1, <2>1, <2>3, MarkSetsPrices DEF AtClose
    <3>2. PICK d \in 1 .. day :
              /\ t \in DOMAIN data[d] /\ positions[t].currentPrice = data[d][t].close
              /\ \A later \in d + 1 .. day : t \notin DOMAIN data[later]
        BY <1>1, <2>3 DEF MarkInv, IsLastClose
    <3>3. d \in 1 .. (day + 1) /\ \A later \in d + 1 .. day + 1 : later \in d + 1 .. day \/ later = day + 1
        BY <1>1, <3>2
    <3>4. \A later \in d + 1 .. day + 1 : t \notin DOMAIN data[later]
        BY <1>3, <2>3, <3>2, <3>3
    <3> QED
        BY <1>1, <3>1, <3>2, <3>3, <3>4 DEF IsLastClose
  <2> QED
      BY <2>2, <2>3
<1>5. \A t \in OpenPositions(positions') : IsLastClose(positions[t].currentPrice, t, day)'
    BY <1>1, <1>2, <1>4 DEF IsLastClose
<1> QED
    BY <1>1, <1>5 DEF MarkInv, MarkedAtLastClose

LEMMA MarksKept ==
    ASSUME IInv, LedgerInv, FileInv, SignalInv, MarkInv, [ScriptNext]_scriptVars
    PROVE  MarkInv'
<1>1. CASE RunStep
  <2>1. UNCHANGED data /\ step = "run" /\ Next
      BY <1>1 DEF RunStep
  <2>2. TypeOK /\ WellFormed(positions) /\ positions \in Books
      BY DEF IInv, TypeOK, Books
  <2>3. CASE OpenDay
    <3>1. /\ phase = "between" /\ phase' = "orders" /\ day' = day /\ bars' = DayRows
          /\ day < NumDays /\ day \in Nat
        BY <1>1, <2>2, <2>3, EngineAssumption DEF OpenDay, RunStep, TypeOK
    <3>2. day + 1 \in DOMAIN data
        BY <2>1, <3>1, EngineAssumption DEF FileInv, IsFileOfInstance
    <3>3. OpenPositions(positions') = OpenPositions(positions)
        BY <2>2, <2>3, OpenDayFacts
    <3>4. PICK traded \in (SUBSET Tickers) \ {{}} : \E dayRows \in [traded -> Bars] :
              /\ bars' = dayRows
              /\ positions' = MarkToMarket(positions, [t \in traded |-> dayRows[t].open])
        BY <2>3 DEF OpenDay
    <3>5. DOMAIN bars' = traded
        BY <3>4
    <3>6. \A t \in Tickers \ traded : positions'[t] = positions[t]
        BY <2>2, <3>4, MarkSetsPrices
    <3>7. \A t \in OpenPositions(positions) : IsLastClose(positions[t].currentPrice, t, day)
        BY <3>1 DEF MarkInv, MarkedAtLastClose
    <3>8. \A t \in OpenPositions(positions') \ DOMAIN bars' :
              IsLastClose(positions[t].currentPrice, t, day) /\ positions'[t] = positions[t]
        BY <3>3, <3>5, <3>6, <3>7 DEF OpenPositions
    <3>9. \A t \in OpenPositions(positions') \ DOMAIN bars' :
              IsLastClose(positions[t].currentPrice, t, day)'
        BY <2>1, <3>1, <3>8 DEF IsLastClose
    <3>10. \A t \in DOMAIN bars' : t \in DOMAIN data[day + 1] /\ bars'[t].close = data[day + 1][t].close
        BY <3>1 DEF DayRows
    <3> QED
        BY <2>1, <3>1, <3>2, <3>9, <3>10 DEF MarkInv, MarkedAtLastClose
  <2>4. CASE CloseDay
      BY <2>1, <2>4, MarksAfterClose
  <2>5. ASSUME NEW k \in Tickers, Buy(k) \/ Sell(k) \/ NoOrder(k)
        PROVE  MarkInv'
    <3>1. /\ phase = "orders" /\ UNCHANGED <<day, phase, bars>> /\ k \in DOMAIN bars
        BY <2>2, <2>5 DEF Buy, Sell, NoOrder, Execute, IsNext, TypeOK
    <3>2. \A t \in Tickers \ {k} : positions'[t] = positions[t]
      <4>1. CASE Buy(k)
          BY <2>2, <4>1, BuyFacts
      <4>2. CASE Sell(k)
          BY <2>2, <4>2, SellFacts
      <4>3. CASE NoOrder(k)
          BY <4>3 DEF NoOrder
      <4> QED
          BY <2>5, <4>1, <4>2, <4>3
    <3>3. \A t \in OpenPositions(positions') \ DOMAIN bars :
              t \in OpenPositions(positions) /\ positions'[t] = positions[t]
        BY <3>1, <3>2 DEF OpenPositions
    <3>4. \A t \in OpenPositions(positions') \ DOMAIN bars :
              IsLastClose(positions[t].currentPrice, t, day)'
        BY <2>1, <3>1, <3>3 DEF MarkInv, IsLastClose
    <3> QED
        BY <2>1, <3>1, <3>3, <3>4 DEF MarkInv, MarkedAtLastClose
  <2>6. CASE CloseDayFails \/ FinishFails
      BY <2>6 DEF CloseDayFails, FinishFails, MarkInv, MarkedAtLastClose
  <2>7. CASE Finish \/ Ended
    <3>1. phase \in {"between", "done", "crashed"} /\ phase' # "orders"
          /\ (phase' \in {"between", "done"} => phase \in {"between", "done"})
          /\ UNCHANGED <<day, positions>>
        BY <2>7 DEF Finish, Ended, vars
    <3> QED
        BY <2>1, <3>1 DEF MarkInv, MarkedAtLastClose, IsLastClose
  <2> QED
      BY <2>1, <2>3, <2>4, <2>5, <2>6, <2>7 DEF Next
<1>2. CASE LoadConfig \/ LoadData \/ Construct \/ Prepare
  <2>1. /\ UNCHANGED <<phase, positions>> /\ phase = "between" /\ day = 0
      BY <1>2 DEF LoadConfig, LoadData, Construct, Prepare, engineVars, vars, FileInv
  <2>2. OpenPositions(positions') = {}
      BY <2>1 DEF LedgerInv
  <2> QED
      BY <2>1, <2>2 DEF MarkInv, MarkedAtLastClose
<1>3. CASE WriteArtifact \/ WriteFails \/ ScriptEnded \/ UNCHANGED scriptVars
  <2>1. UNCHANGED <<day, phase, data, bars, positions>>
      BY <1>3 DEF WriteArtifact, WriteFails, ScriptEnded, scriptVars, engineVars, vars
  <2> QED
      BY <2>1 DEF MarkInv, MarkedAtLastClose, IsLastClose
<1> QED
    BY <1>1, <1>2, <1>3 DEF ScriptNext

\* Whatever the file, its gaps and the orders, the equity of a date is at the
\* closes: its own, or the last ones of the tickers that have none.
THEOREM BookIsMarked == ScriptSpec => []MarkedAtLastClose
<1>1. ScriptInit => SignalInv /\ MarkInv
  <2>1. ScriptInit => OpenPositions(positions) = {} /\ phase = "between"
      BY DEF ScriptInit, Init, OpenPositions, IsOpen, EmptyPosition
  <2> QED
      BY <2>1 DEF ScriptInit, Init, SignalInv, MarkInv, MarkedAtLastClose
<1>2. IInv /\ LedgerInv /\ FileInv /\ SignalInv /\ [ScriptNext]_scriptVars => SignalInv'
    BY SignalKept
<1>3. IInv /\ LedgerInv /\ FileInv /\ SignalInv /\ MarkInv /\ [ScriptNext]_scriptVars => MarkInv'
    BY MarksKept
<1>4. MarkInv => MarkedAtLastClose
    BY DEF MarkInv
<1> QED
    BY <1>1, <1>2, <1>3, <1>4, FileInvariance, PTL DEF ScriptSpec
=============================================================================
