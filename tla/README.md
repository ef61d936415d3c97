# A TLA+ model of Quent

This directory models Quent from its input files to its report (configuration, price file,
signals, the daily backtest loop with sizing, risk limits, costs and ledgers, metrics, artifacts),
the in-memory paper broker, and the KIS live adapter in front of an exchange, with the state file a
live session recovers from. TLC checks small instances; TLAPS proves the safety properties that these runs
check, for every instance.

    tlc -config Backtest_next_open.cfg MCBacktestEngine.tla
    tlapm BacktestEngine_proofs.tla

`PROJECT.json` lists the runs, the source lines each definition stands for, the hazards, the
findings and the theorems.

## The system

| Component | State | Operations | Hard parts |
|---|---|---|---|
| `backtest/engine.py` | the two ledgers, the date's order count, rows | `run`: open mark, one order per ticker, fill, close mark; metrics and export | limits and cash shared by tickers in sorted order; prices that differ between check, fill and mark; divisions |
| `portfolio/positions.py`, `cash.py` | positions by ticker, realised profit; cash | `apply_fill`, `mark_to_market` | two ledgers, two formulas, one story |
| `portfolio/sizing.py`, `risk.py` | none | `calculate_quantity`, `check_buy`, `check_sell` | boundaries, order of the checks |
| `backtest/market_simulator.py`, `transaction_cost.py` | none | `fill`, `affordable_quantity`, `calculate` | minimum fee, the loop that removes shares |
| `execution/paper_broker.py` | orders, key index, ledgers, fills | `submit_order`, `cancel_order`, `process_market_bar`, queries | any order of calls, a failure half-way |
| `execution/live_broker_adapter.py` | orders, key index | `submit_order`, `cancel_order`, retries, queries | lost requests and answers, fills during a call |
| `storage/state_store.py` | one JSON file | `save`, `load`, `reconcile` | crash during a save, comparison after restart |
| `signals`, `indicators` | none | `generate`, `sma`, `ema` | warm-up, no look-ahead |
| `data` | none | load, validate, prepare | boundaries of dates and prices |
| `analytics`, `reporting` | files | `calculate_metrics`, `export` | empty and negative inputs, partial output |
| `config.py` | none | `load_config`, `validate` | two sets of checks that must fit each other |
| `scripts/run_backtest.py` | the files it leaves | `main` | a failure at any point of the way |
| `storage/trade_log.py`, `run_registry.py`, `core/clock.py` | append-only files | append | none that a model would show |

The engine calls everything of the first four rows synchronously. The paper broker shares the
simulator and both ledgers with it. The two brokers implement `BrokerBase`. Nothing in the
repository drives a broker from the strategy yet (the scripts create one and print its account), so
the models let the client call the brokers in any order and say where they assume a well-behaved
one. The state store is likewise called by nothing; `LiveSession` drives it and the adapter in the
order that `docs/operations.md` prescribes.

What makes each component correct: the ledgers agree and never show debt or short positions;
limits hold whatever the earlier tickers did; exits are complete; every position is valued at its
ticker's last close; one idempotency key is one order, at the broker and at the exchange, also
across crashes; terminal orders stay as they are; what is recorded locally, and saved, happened;
a session that has saved never resumes as a new one; no signal knows a later price; no bar is lost;
the metrics are what their names say; a report is of one run.

## Modules

| Module | Models |
|---|---|
| `Money`, `Sums` | integer amounts, rates in `Unit`-ths; the sum of a list of amounts |
| `Account` | abstract: what a long-only account promises, whatever keeps it |
| `MarketSimulator` | fills, costs, cash effect, affordable quantity |
| `OrderSizing` | sizer and risk manager |
| `PositionBook` | positions, fills applied to them, marks |
| `BacktestEngine` | `run()`'s daily loop; composes the three above with cash, signals and dates |
| `PaperBroker` | the paper broker; composes `MarketSimulator` and `PositionBook` |
| `KisAdapter` | the live adapter's orders, its transport and the exchange (external) |
| `StateStore` | the state file: `save` in two steps, `load`, `reconcile` |
| `LiveSession` | crashes, restarts, `sync_state` and recovery; composes `KisAdapter` and `StateStore` |
| `MarketData` | the validator, date normalisation, grouping, price selection |
| `Signals` | SMA, EMA, raw and executable signal |
| `Metrics` | drawdown, its duration, profits and losses |
| `Configuration` | fields, defaults, `load_config`, `validate`, constructor checks |
| `BacktestScript` | `run_backtest.py` from files to artifacts; composes the four above with `BacktestEngine` |
| `MC...` | the instances TLC checks |
| `PositionBook_proofs`, `MarketSimulator_proofs`, `Signals_proofs` | lemmas about sums and their parts, fills, costs and affordability; what signals depend on |
| `BacktestEngine_proofs`, `PaperBroker_proofs`, `KisAdapter_proofs`, `LiveSession_proofs`, `BacktestScript_proofs` | theorems about the specifications |

Operators that stand just before a definition and resemble it (`CheckBuyOffByOne`,
`SubmitUnchecked`, ...) are that definition with a plausible bug; the specifications do not use
them. `PROJECT.json` pairs each with the property that notices it.

**Amounts.** The code computes with floats. The model uses whole minor units; the instances pick
prices for which averages are exact, so no property depends on rounding, and float error itself is
not modelled.

**BacktestEngine.** A date is `OpenDay` (rows, open mark, order count reset), one of `Buy`, `Sell`,
`NoOrder` per ticker in sorted order, and `CloseDay` (close mark, the date's rows). `Buy` is the
whole iteration: `_build_buy_order` with sizing, affordability and risk (`BuyQuantity`), the fill,
both ledgers and the logs. Bars are free: any non-empty set of tickers trades on a date at any of
the prices. The raw signal of a row is a free Boolean drawn at its close and becomes the ticker's
executable signal on its next row, which is `shift(1)` per ticker. `CloseDayFails` and
`FinishFails` are the two exceptions `run()` can end in: the unguarded division by equity, and the
complex power of a negative final equity in `calculate_metrics`. The prices are positive and one
row exists per ticker and date, as the validators ensure.

**Account.** The abstract account has cash and shares. A purchase pays at least some quoted price
per share, a sale brings at most some quoted price, nothing is sold that is not held, and nothing
else changes either. `BacktestEngine!ImplementsAccount` and `PaperBroker!ImplementsAccount` are
refinements onto it (`TheAccount == INSTANCE Account WITH ...`; `held` is the quantities of the
book); the engine implements the stronger `InOrOut`, in which every trade enters or leaves a ticker
as a whole.

**PaperBroker.** One action per call. An exception half-way is an action of its own
(`ProcessBarFails`): what was done before it stays. `Spec` is any client; `CarefulSpec` one that
keys its orders as the engine does, feeds bars to open orders only and sells what it has.

**KisAdapter.** A call is a first step, up to the request, and one step per attempt:
`RequestLost`, `ResponseLost` (the exchange has acted, the adapter sees an exception, which
includes an answer that is not a mapping) or `Answered`. Any mapping counts as success, as in the
code. Between the steps the exchange may execute orders. Whether it recognises the
`idempotency_key` of a payload is unknown to the repository, so `HonoursKeys` is a parameter. It
never learns the local order id on submission, so a cancel may always be refused.

**StateStore and LiveSession.** A session is `recovering`, `trading`, `blocked` (safe mode, or
nothing could be read or loaded) or `down`. `sync_state` is two requests, for the account and for
the positions, with the retries of `_request` (`AccountRead`, `PositionsRead`, `ReadLost`), and the
adapter's own `orders`; between the requests the exchange may execute orders. The answers are the
values the parsers return: the executed orders buy and sell one ticker, whose price stands still at
one unit of money, so the holding is their sum, cash is `Funds` less that, equity is `Funds`, and
all of them come back to an earlier value after a purchase and a sale. (A price that moves would
only make more comparisons fail.) Each answer may instead be an error mapping, which
`_parse_account` reads as an account of 0 and `_parse_positions` as no positions. `BeginSave` empties the only copy of
the file and `EndSave` fills it; `Crash` may come at any step, forgets the adapter's records and
its call, and leaves the exchange and the file. `plain` chooses whether the client saves plain
values or the objects `sync_state` returns, which `json.dump(default=str)` turns into strings.

**BacktestScript.** One action per stage of `main` and `run`: `LoadConfig`, `LoadData`, `Construct`,
`Prepare`, `RunStep` (a step of `BacktestEngine` on the file's bars and signals, which keeps the
equity rows and the pnl of each trade), and `WriteArtifact` or `WriteFails` for each of the ten
files. An exception anywhere is `step = "failed"`. A frame is what `read_csv` returns: columns, a
zone, rows with local times in hours. Averages are exact fractions, also the EMA, whose weights
decay over missing prices as in pandas. The frame is validated before the engine is constructed and
the price column is checked after it, as in the code. The constants of the engine are fixed in a
run of TLC, so a configuration whose engine values differ from them is followed up to its
construction only (`IsInstance`, `step = "elsewhere"`), and a file whose dates or prices are not
those of the constants up to its preparation (`IsFileOfInstance`). No property counts `elsewhere` as
a success: of what such a configuration leads to nothing is claimed, and it can be a failure.
The signal price cannot be the `date` or the `ticker` column, which `astype(float)` refuses; that no
ticker reads as a number is a bound of the model. Numbers are whole and
tickers among `Tickers` (`InputAssumption`): text where a number belongs, and NaN, are left out.

## Runs

| Run | Instance | Shows |
|---|---|---|
| `Backtest_next_open` | 3 tickers, 4 dates, 2 prices, 2 positions, 2 orders a date, slippage, tax, a fee of 25% and at least 3000, exposure limit 90%, weight limit 60%, 508,137 states | ledgers agree, no debt, limits and exits hold, an order exceeds exposure and weight by its own slippage and fee at most, positions stay whole, no exception |
| `Backtest_next_close` | 2 tickers, 4 dates, minimum fee, debt and both exceptions reachable | the ledgers agree even then; the engine implements the abstract account |
| `Paper_any_client` | 4 order objects that share keys and ids, 4 bars | book equals the recorded fills, one order per key |
| `Paper_careful_client` | 5 orders, 2 tickers, 4 bars, fills at the close | executed once, terminal is final, cash equals the fills, the broker implements the abstract account |
| `Kis_keyed_exchange` | 4 orders (2 of one key, 1 without), 1 retry, 3 calls, both modes | one order per key at the exchange, records are real, dry run is silent, calls return |
| `Live_recovery` | 3 orders (a purchase submitted twice under one key, and a sale under another), 1 retry, 3 calls, 2 saves, 2 crashes, both kinds of saved values, torn and error readings, 783,198 states | a key is one order across crashes; no record that is saved is invented; a session that saved never starts as new; every start decides |
| `Script_pipeline` | 2 tickers, 5 dates, 612 inputs: 512 price files with gaps at the third or last date, 54 with gaps in the adjusted closes under SMA and EMA, odd files, odd settings | no look-ahead, no lost bar, accepted parameters are the assumed ones, the metrics mean what they say, exit 0 is a report of one run, between dates a position is valued at its ticker's last close |

Bounds, and why they are enough: three tickers are the fewest for which two compete for the last
place while a third exits; four dates allow entry, hold, exit and re-entry; two prices give flat,
rising and falling bars. `MaxPositions` and `MaxDailyOrders` are below the number of tickers, so
refusals happen, and `InitialCapital` is a few shares, so affordability binds. Four bars allow two
buys averaged, a partial and a full sale. One retry gives every pattern of loss in a row of two
attempts, and three calls a failed submission, its resubmission and a cancel. Two crashes allow one
during a save and one during the recovery from it, and two saves a file that is overwritten. Five
dates with windows of 1 and 2 give entry, exit and re-entry, drawdowns of two dates and more, and
winning and losing trades in one run; equity curves with a recovery between two drawdowns occur.
The odd files and settings change one thing each in a plain one: every check of the validators is
passed and failed. The proofs remove the bounds for the properties they cover.

Deadlock is checked except in the KIS and live runs: there the client may stop calling and nothing
is owed, and a blocked session waits for an operator. In the backtest the end is the explicit
action `Ended`, in the script `ScriptEnded`.

### What the code does differently from what it says

Each of these is a run that TLC finds violated.

| Run | Disagreement |
|---|---|
| `Backtest_zero_equity` | with `next_close` a buy is sized at the open and filled at the close, and overdraws cash; a date can then end with equity 0, and `cash / equity` (`engine.py:169`) is unguarded where line 160 guards the same division |
| `Backtest_small_orders` | the minimum quantity is checked before the order is shrunk (`strategy_spec.md:34` rejects such orders) |
| `Paper_failed_sale` | a refused sale leaves its proceeds in cash and no fill in the log |
| `Kis_canceled_order` | an order is reported canceled whose cancel the exchange refused, and is executed afterwards (`broker_base.py:33`) |
| `Live_forgotten_order` | a session saves, submits an order, loses the answer and crashes; after the restart cash, positions and (no) orders agree and it resumes, although the order is open at the exchange (`operations.md:33` and 38 compare the broker's open orders, for which the adapter never asks) |

Others are visible in the models and need no run of their own:

- An order may exceed the exposure and weight limits: `check_buy` divides by the open, without
  slippage, and by the equity before the fee (`risk.py:58`). `ExposureWithinLimits` states by how
  much: the slippage, the fee and the distance of a fill at the close, and nothing else.
- The daily order limit stops exits, although `strategy_spec.md:11` sells on every false signal.
  `ExitCompleteness` states the exception.
- `calculate_metrics` raises `TypeError` on a negative final equity (`metrics.py:32` and 71): the
  action `FinishFails`, which `Backtest_next_close` takes. Nothing bounds `min_fee`, so a run with
  `next_open` gets there too when a sale costs more than it brings.
- `process_market_bar` fills canceled and filled orders: `TerminalStatusFinal` holds for
  `CarefulSpec` and not for `Spec`.
- With `HonoursKeys = FALSE`, `OneExchangeOrderPerKey` fails after one lost answer: the adapter's own
  index cannot prevent it, for it learns a key only when an answer arrives.
- `Answered` records an order as submitted also when the exchange has rejected it
  (`broker_base.py:27`).
- Agreement is not of one moment. `reconcile` compares values, and a purchase and a sale bring them
  back, so an account and positions read at different moments may agree; and an error mapping is
  an account of 0 without positions (`live_broker_adapter.py:144`, 155), so two failed reads agree.
  Nothing in the code could tell, and no property says otherwise.
- `HonoursKeys = FALSE` refutes `OneExchangeOrderPerKey` also by a crash: the index is in memory only.
- What `sync_state` returns contains dataclass objects. After `save` and `load` they are strings and
  equal nothing, so a session that saves them is in safe mode at every later start, and one that
  saves plain values is whenever it had orders in its records, for a restarted adapter has none.
- A missing state file leaves safe mode off (`state_store.py:48`), and `save` empties the only copy
  before it writes (line 23). The torn file makes `load` raise, so the session stays blocked.
- Dates become UTC days (`validators.py:29`): midnights of a zone east of UTC move to the day before,
  two local days may become one, which the duplicate check then refuses, and one may become two.
- Rows without a ticker pass the validator and are dropped by `groupby`; a file of nothing else ends
  in a `ValueError` of `concat` (`ma_crossover.py:55`).
- A missing `adjusted_close` makes the SMA undefined and with that the raw signal false: a gap in the
  data is an exit (`ma_crossover.py:43`). The EMA passes over gaps.
- `price_column: ticker` and `price_column: date` pass `validate` and end in an exception of
  `astype(float)` (`adapters.py:27`).
- `exporters.py:55` promises a header in empty CSV files; the frame of an empty list has no columns
  to write. A single negative return leaves Sortino without a value
  (`metrics.py:38`).
- `stop_loss_pct`, `trailing_stop_pct`, `timeout_seconds` and the logging configuration are validated
  and used by nothing; `run_paper.py` passes neither the fill model nor the tax rate on.
- NaN passes the one-sided checks of `validate` (`config.py:78`); `read_csv` makes integers of numeric tickers, so leading
  zeros are lost and a `benchmark` given as a string is not found.

The exceptions of the engine need `next_close`; `next_open` is the default, and for it the proofs
rule them out (under `SalesPay`, for the minimum fee).

## Fairness

`BacktestEngine.Spec` has weak fairness of `Next`: `run()` is one sequential call without waiting.
No property rests on it; it makes the counterexamples to action properties behaviours of a program
that goes on. That two nested `for` loops end is not stated. `KisAdapter.Spec` has weak fairness of
`Transport` only: a call in `_request` goes on as long as the injected transport returns or raises,
which `timeout_seconds` in the configuration is meant for; the exchange need not execute anything
and the client need not call. `PaperBroker` claims no liveness. `LiveSession.SessionSpec` has weak
fairness of `Recovery`, what a starting process does by itself: its two requests return or raise,
and then it compares. Nothing obliges it to trade, to save, or to be restarted. `BacktestScript`
claims no liveness and assumes no fairness.

## Proofs

Assumptions are the named `ASSUME`s on the constants: what `validate()` of the configuration
classes and the constructors enforce. TLC evaluates them in every run.

**The engine.** `BacktestEngine_proofs!IInv` is the conjunction of the type invariant, the limits,
`BookIdentity` and `ExitCompleteness`, strengthened by `WellFormed(positions)` (a flat ticker has
no cost and is closed, a held one is open) and by what the loop has done so far: `ordered` lies
within the tickers already passed. Without the first, selling the whole position would not be
known to remove its cost from the book; without the second, the next ticker could already have an
order. One lemma per action says what it does to the book (`OpenDayFacts`, `BuyFacts`, `SellFacts`,
`AtCloseFacts`) and one that it keeps `IInv`. The sum over all tickers is a recursive function;
that changing one summand changes the sum by the difference is proved once, by smallest
counterexample, in `PositionBook_proofs`.

Solvency is a second invariant on top of `IInv`: no debt, and either some cash or an open position
with a positive price. It holds for `FillModel = "next_open"` under `SalesPay`: for no price and
quantity do slippage, fee and tax eat a whole sale. Both hypotheses are needed: `Backtest_zero_equity`
refutes the theorem without the first, and a minimum fee above the value of a share refutes the second. It gives
`CashSuffices` and `RunNeverRaises`.

`EngineIsAccount` is the refinement: every fill is an `Enter` or a `Leave` of the abstract account,
every other step stutters. That a purchase is dearer and a sale worth less than the quote are two
lemmas about `CashEffect` (`PurchaseAboveQuote`, `SaleBelowQuote`). It assumes
`SlippageRate <= Unit`, slippage of at most 100%, which `validate()` does not enforce.

`LimitsHold` is about one step, a buy, and has no hypothesis: it holds for both fill models and all
costs because it states the limits as the code measures them, at the open and of the equity before
the fee. `CheckBuyWithin` says what `check_buy` guarantees of the quantity it returns (the quotient
it floors, multiplied back, is below the room that is left), `BuyWithin` carries that through sizing
and affordability, and `ValueReplaced` says what one position changed does to the value of the book.

**The paper broker.** `BrokerTypeCorrect` holds for any client; the book stays long-only because
`CanApply` guards every sale. `BrokerIsAccount` uses it and the refinement lemmas of the engine, for
the careful client: a client that sells what it has not got leaves the abstract account by a refused
sale. `OneOrderPerKey` is inductive once the index is known to contain the key of
every order (`KeyInv`). With the ids of a careful client equal to its keys (`CarefulInv`), a
submission that is not a repetition is of a new id, from which `TerminalStatusFinal` follows.

The log is a sequence, and the ledgers are compared with sums over it. Appending a fill adds one
summand (`SumUpTo` is a recursive function; that functions with equal values have equal sums is
proved by smallest counterexample). `SharesFollowFills` then holds for any client: a refused sale
or a second fill leaves shares and log in step. `BookIsTheLog` adds the cost, under the
hypothesis that no average has to be rounded (`AveragesExact`): the code keeps a quotient, the model
whole minor units, and a rounded average times its quantity is no longer the cost. It holds
throughout `Paper_any_client`, whose prices are chosen for it. `CashIsTheLog` needs the careful
client; `Paper_failed_sale` is why. `OrdersFillOnce` joins `CarefulInv` with a fact about the log,
that each of its ids is that of an order, so a new order has no fill yet.

**The adapter.** `IInv` states that every exchange order carries the key of the order it was posted
for, that a dry run has no call, and that every local record has its order. One lemma
(`ArrivesFacts`) says what any arrival does to the exchange. `AdapterTypeCorrect` adds that index and
records refer to each other and that only `Retry` counts attempts, up to `MaxRetries`. `RetriesAreIdempotent` has
`HonoursKeys` as its hypothesis; without it one lost answer refutes the property.

**The live session.** A step of the session is a step of the adapter, a crash, or neither
(`StepOrCrash`), and a crash keeps the adapter's `IInv`: a process without records claims nothing.
That gives `KeysSurviveCrashes`. `RestartsRemember` needs only that the file is absent until the
first save. `SavedStatesAreReceived` joins the two memories: a save copies the records of the process,
which are of orders the exchange has (`IInv` of the adapter), and what the exchange has received it
never forgets (`ReceivedGrows`), so the copy stays true after the crash that takes the original.

**Signals.** `NoHindsight`: the executable signal of a row is the same for any two price series that
agree on the rows before it. For the EMA no induction is needed: on series that agree, its recursive
equations are the same, and so is the function that solves them.

**The script.** A step of `BacktestScript` is a step of the engine or leaves the engine's state
alone, so `IInv` carries over (`EngineInvariance`). On top of it:

- `ReportInv`: which artifacts are of this run at each step. `ReportsOneRun`.
- `LoadInv`: what is loaded is `Bundle` of files that `CanLoad`. That every field of it has the
  right type comes from the defaults or from `WellTyped`, that it has the right range from
  `Validate`. `LoadedAssumed`.
- `LedgerInv`: `pnl` sums to the realised profit of the book and splits into gains and losses;
  `curve` has an entry per date, and its last one is the present equity between two dates. With
  `BookIdentity`, the metrics account for the money: `ProfitIsExplained`.
- `DrawdownIsWorst`: the running maximum of a date divides the equity of that date by the largest
  earlier one, and the smallest of these ratios is the smallest of all pairs, if no equity is below
  zero. With a negative one it is not: who enters near zero loses a larger part. So the theorem
  has the hypotheses of `CashSuffices` (`next_open`, `SalesPay`).
- `DurationIsLongest` needs neither. `CountsRows` is the invariant of the loop in
  `max_drawdown_duration`: `current` is the longest row of dates under water that ends at this
  date, `longest` the longest that ends anywhere so far. The first date at which it failed would
  contradict the step before it.
- `FileInv`: `groups` are the groups of the accepted file, `data` is generated from them. A sort is
  the choice of the element with a given number of predecessors (`InOrder`); for a finite set with
  a total order these numbers are 1 to its size, each once (`IsRank`, `IsListed`). So each group has
  its rows in the order of their dates, and no date twice, for the duplicate check came before.
- `SignalInv`: the signal each ticker holds is the executable one of its next row, if it has one.
  With `NoHindsight` and the sorted groups, `NoLookingAhead`: that signal is the raw signal of the
  rows before the date and nothing else, also for a ticker that skips dates.
- `MarkInv`: during a date the tickers that trade are between two prices, all other open positions
  are at their last close; the close mark sets the price of those that traded and of no others
  (`MarkSetsPrices`). `BookIsMarked`.
- `NoBarIsLost` counts the named rows of the file by the date they fall on (`CountByParts`); the
  duplicate check makes the rows of a date as many as its tickers.

**Only model-checked.** The two liveness properties, `CallsReturn` and `RestartDecides`: the fairness
they rest on is `ENABLED`, which is out of the prover's reach. Every invariant and safety action property of the passing runs is
stated by a theorem. What the recursive averages and `affordable_quantity` return is
compared and bounded in the proofs, never computed; that would be an induction over data.

## Not modelled, and the plan

Not modelled: the text of CSV, YAML and broker answers (a frame, a mapping and two readings
stand for what is parsed), charts, the console summary, run registry and trade log
(append-only files that nothing reads back), clocks, float rounding, overflow (of the power in `metrics.py:32`, for enormous growth over few
dates) and NaN; of the metrics those
that are plain formulas over real numbers (volatility, Sharpe, Sortino, VaR, growth rates, turnover,
benchmark), for they relate no two states and have no case to get wrong but the ones named above.

Planned next, all proofs:

1. Operators against reference definitions: `AffordableQuantity` is the largest quantity the cash
   covers whenever a dearer order needs more cash; `SmaAt` is undefined exactly during warm-up or a
   gap; `CheckBuy` lets nothing larger through than its limits, and as much as they allow.
2. The script as an implementation: `ScriptSpec` implements `Account` through the engine, and
   `CashSuffices`, `RunNeverRaises` and `LimitsHold` carry over to it.
3. The live session: `RecordsAreReceived` and type correctness across crashes, and the adapter as an
   implementation of an exchange that gets each keyed order once.
