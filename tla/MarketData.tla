----------------------------- MODULE MarketData -----------------------------
(***************************************************************************)
(* What a price file becomes before the daily loop: the checks of          *)
(* data/validators.py, which load applies, and the price selection of      *)
(* data/adapters.py.                                                       *)
(*                                                                         *)
(* A frame is [columns, zone, rows]: the column names, the offset of its   *)
(* time stamps from UTC in hours (0 also for stamps without a zone), and   *)
(* the rows in file order.  A row maps columns to values; its date is a    *)
(* local time in hours.                                                    *)
(***************************************************************************)
EXTENDS SequencesExt, Integers

CONSTANT Missing       \* NaN, an empty field

REQUIRED_OHLCV_COLUMNS == {"date", "ticker", "open", "high", "low", "close", "volume"}

PriceColumns == {"open", "high", "low", "close"}

\* What read_csv and to_datetime make of a file, if anything.
IsFrame(frame) ==
    /\ frame.zone \in Int
    /\ frame.rows \in Seq(ToSet(frame.rows))
    /\ \A row \in ToSet(frame.rows) : "date" \in DOMAIN row /\ row.date \in Int

\* tz_convert(None), then normalize: the day in UTC.
DateOf(frame, row) == (row.date - frame.zone) \div 24
-----------------------------------------------------------------------------
DuplicatedAsWritten(frame) ==
    \E i, j \in DOMAIN frame.rows :
        /\ i # j /\ frame.rows[i].ticker = frame.rows[j].ticker
        /\ frame.rows[i].date = frame.rows[j].date

\* duplicated(["date", "ticker"]).  Two missing tickers are the same ticker.
Duplicated(frame) ==
    \E i, j \in DOMAIN frame.rows :
        /\ i # j /\ frame.rows[i].ticker = frame.rows[j].ticker
        /\ DateOf(frame, frame.rows[i]) = DateOf(frame, frame.rows[j])

ValidRow(row) ==
    /\ \A column \in PriceColumns \cup {"volume"} : row[column] # Missing
    /\ \A column \in PriceColumns : row[column] > 0 /\ row.low <= row[column] /\ row[column] <= row.high
    /\ row.volume >= 0

\* validate raises exactly when this is false.  Its last check, that dates do
\* not decrease after its own sort, fires for missing dates only, which no
\* frame here has.
Validates(frame) ==
    /\ REQUIRED_OHLCV_COLUMNS \subseteq frame.columns
    /\ frame.rows # << >>
    /\ ~ Duplicated(frame)
    /\ \A i \in DOMAIN frame.rows : ValidRow(frame.rows[i])

\* The elements of a finite set one after the other, as Less orders them.
InOrder(S, Less(_, _)) ==
    [k \in 1 .. Cardinality(S) |->
        CHOOSE e \in S : Cardinality({f \in S : Less(f, e)}) = k - 1]

\* By day; the sort is stable.
Precedes(frame, i, j) ==
    LET a == DateOf(frame, frame.rows[i])
        b == DateOf(frame, frame.rows[j])
    IN  a < b \/ (a = b /\ i < j)

\* What validate returns, by ticker: the rows with normalised dates in the
\* order of their dates.  Rows without a ticker are in no group.
Group(frame, ticker) ==
    LET order == InOrder({i \in DOMAIN frame.rows : frame.rows[i].ticker = ticker},
                         LAMBDA i, j : Precedes(frame, i, j))
    IN  [k \in DOMAIN order |->
            [frame.rows[order[k]] EXCEPT !.date = DateOf(frame, frame.rows[order[k]])]]
-----------------------------------------------------------------------------
SelectedPrice(strategy) ==
    IF strategy.use_adjusted THEN "adjusted_close" ELSE strategy.price_column

\* prepare raises exactly when this is false: astype(float) refuses dates, and
\* tickers too.  (A bound of the model: no ticker reads as a number.)
CanPrepare(frame, strategy) ==
    SelectedPrice(strategy) \in frame.columns \ {"date", "ticker"}

SignalPrices(group, strategy) ==
    [i \in DOMAIN group |-> group[i][SelectedPrice(strategy)]]

\* The dates of the groups, as groupby("date", sort=True) finds and ranks them.
Dates(groups) ==
    InOrder({row.date : row \in UNION {ToSet(groups[t]) : t \in DOMAIN groups}},
            LAMBDA d, e : d < e)
=============================================================================
