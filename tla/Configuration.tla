--------------------------- MODULE Configuration ---------------------------
(***************************************************************************)
(* config.py: five YAML files become one ConfigBundle, or load_config      *)
(* raises.  The contents of a file are [mapping, given]: does it hold a    *)
(* YAML mapping, and the keys it gives.  A file that is missing or empty   *)
(* gives no key.  Rates are in millionths.                                 *)
(***************************************************************************)
EXTENDS Integers

CONSTANT None          \* None

Million == 1000000

\* The fields of the dataclasses and their defaults.
Defaults ==
    [strategy |->
        [short_window |-> 20, long_window |-> 60, ma_type |-> "sma",
         price_column |-> "close", use_adjusted |-> FALSE,
         initial_capital |-> 10 * Million, benchmark |-> None,
         sizing_method |-> "equal_weight", fixed_fraction |-> 250000,
         fixed_notional |-> 2500000],
     execution |->
        [fill_model |-> "next_open", fee_rate |-> 150, slippage_bps |-> 5, min_fee |-> 0,
         tax_rate |-> 0, min_order_quantity |-> 1, min_order_notional |-> 0],
     risk |->
        [max_position_weight |-> 250000, max_total_exposure |-> Million,
         max_positions |-> 4, max_daily_orders |-> 20,
         stop_loss_pct |-> None, trailing_stop_pct |-> None],
     broker |-> [name |-> "kis", dry_run |-> TRUE, timeout_seconds |-> 5, max_retries |-> 3],
     logging |-> [level |-> "INFO", json_lines |-> TRUE]]

Sections == DOMAIN Defaults

Numbers ==
    [strategy |-> {"short_window", "long_window", "initial_capital", "fixed_fraction",
                   "fixed_notional"},
     execution |-> {"fee_rate", "slippage_bps", "min_fee", "tax_rate", "min_order_quantity",
                    "min_order_notional"},
     risk |-> {"max_position_weight", "max_total_exposure", "max_positions", "max_daily_orders"},
     broker |-> {"timeout_seconds", "max_retries"},
     logging |-> {}]

\* A bound of the model: a number is no text, and not NaN, which passes the
\* one-sided checks of validate.
WellTyped(files) ==
    \A s \in Sections : \A key \in Numbers[s] \cap DOMAIN files[s].given :
        files[s].given[key] \in Int
-----------------------------------------------------------------------------
ValidWindows(s) ==
    s.short_window > 0 /\ s.long_window > 0 /\ s.short_window < s.long_window

ValidStrategy(s) ==
    /\ ValidWindows(s)
    /\ s.ma_type \in {"sma", "ema"}
    /\ s.initial_capital > 0
    /\ s.sizing_method \in {"fixed_fraction", "fixed_notional", "equal_weight"}
    /\ s.fixed_fraction > 0 /\ s.fixed_notional > 0

ValidExecution(e) ==
    /\ e.fee_rate >= 0 /\ e.slippage_bps >= 0 /\ e.min_fee >= 0 /\ e.tax_rate >= 0
    /\ e.min_order_notional >= 0
    /\ e.min_order_quantity > 0

ValidStop(value) == value # None => 0 < value /\ value < Million

ValidRiskAnyExposure(r) ==
    /\ 0 < r.max_position_weight /\ r.max_position_weight <= Million
    /\ 0 < r.max_total_exposure
    /\ r.max_positions > 0 /\ r.max_daily_orders > 0
    /\ ValidStop(r.stop_loss_pct) /\ ValidStop(r.trailing_stop_pct)

ValidRisk(r) ==
    /\ 0 < r.max_position_weight /\ r.max_position_weight <= Million
    /\ 0 < r.max_total_exposure /\ r.max_total_exposure <= Million
    /\ r.max_positions > 0 /\ r.max_daily_orders > 0
    /\ ValidStop(r.stop_loss_pct) /\ ValidStop(r.trailing_stop_pct)

ValidBroker(b) ==
    b.name \in {"kis", "paper"} /\ b.timeout_seconds > 0 /\ b.max_retries >= 0

ValidLogging(l) == l.level \in {"DEBUG", "INFO", "WARNING", "ERROR", "CRITICAL"}

Validate(bundle) ==
    /\ ValidStrategy(bundle.strategy)
    /\ ValidExecution(bundle.execution)
    /\ ValidRisk(bundle.risk)
    /\ ValidBroker(bundle.broker)
    /\ ValidLogging(bundle.logging)
-----------------------------------------------------------------------------
\* _coerce_fill_model
IsFillModel(value) == value \in {"next_open", "next_close"}

Bundle(files) ==
    [s \in Sections |->
        [key \in DOMAIN Defaults[s] |->
            IF key \in DOMAIN files[s].given THEN files[s].given[key] ELSE Defaults[s][key]]]

\* load_config raises exactly when this is false: for a file that is no
\* mapping, a fill model or a key that it does not know, and in validate.
CanLoad(files) ==
    /\ \A s \in Sections : files[s].mapping /\ DOMAIN files[s].given \subseteq DOMAIN Defaults[s]
    /\ IsFillModel(Bundle(files).execution.fill_model)
    /\ Validate(Bundle(files))

\* The ValueErrors that the engine's parts raise when they are constructed.
CanConstruct(bundle) ==
    LET s == bundle.strategy  e == bundle.execution
    IN  /\ s.short_window > 0 /\ s.long_window > 0 /\ s.short_window < s.long_window
        /\ s.ma_type \in {"sma", "ema"}
        /\ e.fee_rate >= 0 /\ e.min_fee >= 0 /\ e.tax_rate >= 0 /\ e.slippage_bps >= 0
        /\ s.initial_capital > 0
=============================================================================
