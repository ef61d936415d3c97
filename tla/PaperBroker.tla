---------------------------- MODULE PaperBroker ----------------------------
(***************************************************************************)
(* The in-memory broker of execution/paper_broker.py.  A client submits,   *)
(* resubmits and cancels orders and feeds bars to them, in any order; the  *)
(* broker fills with the simulator and keeps the ledgers of the backtest.  *)
(* Each action is one call; the queries (get_account, get_order_status,    *)
(* ...) read this state and change none of it.                             *)
(***************************************************************************)
EXTENDS MarketSimulator, PositionBook, FiniteSets, Sequences

CONSTANTS
    Requests,          \* the Order objects of the client: [id, key, ticker, side, quantity]
    NoKey,             \* idempotency_key of an order that has none
    QuotedBars,        \* the bars the client feeds
    InitialCash,
    MaxCalls           \* bound of the model: calls of process_market_bar

\* CashLedger refuses an initial cash that is not positive.
ASSUME BrokerAssumption ==
    /\ \A r \in Requests : r.ticker \in Tickers /\ r.side \in Sides /\ r.quantity \in Nat \ {0}
    /\ \A bar \in QuotedBars : bar.open \in Nat \ {0} /\ bar.close \in Nat \ {0}
    /\ InitialCash \in Nat \ {0} /\ MaxCalls \in Nat

VARIABLES
    orders,            \* order_id -> [request, status]
    index,             \* idempotency_index: key -> order_id
    cash,              \* CashLedger.cash
    positions,         \* PositionBook.positions
    fills,             \* fills, in the order they were appended
    calls              \* calls of process_market_bar so far

vars == <<orders, index, cash, positions, fills, calls>>

Ids  == {r.id : r \in Requests}
Keys == {r.key : r \in Requests} \ {NoKey}

Terminal == {"filled", "canceled"}

Init ==
    /\ orders = << >> /\ index = << >>
    /\ cash = InitialCash
    /\ positions = [t \in Tickers |-> EmptyPosition]
    /\ fills = << >> /\ calls = 0
-----------------------------------------------------------------------------
Put(table, x, y) == [z \in DOMAIN table \cup {x} |-> IF z = x THEN y ELSE table[z]]

\* submit_order knows the key and returns the order it names, unchanged.
AlreadySubmitted(r) == r.key # NoKey /\ r.key \in DOMAIN index

SubmitUnchecked(r) ==
    /\ orders' = Put(orders, r.id, [request |-> r, status |-> "submitted"])
    /\ index' = IF r.key = NoKey THEN index ELSE Put(index, r.key, r.id)
    /\ UNCHANGED <<cash, positions, fills, calls>>

Submit(r) ==
    /\ IF AlreadySubmitted(r)
       THEN UNCHANGED <<orders, index>>
       ELSE /\ orders' = Put(orders, r.id, [request |-> r, status |-> "submitted"])
            /\ index' = IF r.key = NoKey THEN index ELSE Put(index, r.key, r.id)
    /\ UNCHANGED <<cash, positions, fills, calls>>

CancelAny(id) ==
    /\ id \in DOMAIN orders
    /\ orders' = [orders EXCEPT ![id].status = "canceled"]
    /\ UNCHANGED <<index, cash, positions, fills, calls>>

\* cancel_order.
Cancel(id) ==
    /\ id \in DOMAIN orders
    /\ orders[id].status \notin Terminal
    /\ orders' = [orders EXCEPT ![id].status = "canceled"]
    /\ UNCHANGED <<index, cash, positions, fills, calls>>

\* process_market_bar: whatever the status of the order is, it is filled and
\* booked in both ledgers.
ProcessBar(id, bar) ==
    /\ id \in DOMAIN orders /\ calls < MaxCalls
    /\ \E fill \in {FillOrder(orders[id].request, bar)} :
          /\ CanApply(positions, fill)
          /\ cash' = cash + CashEffect(fill)
          /\ positions' = ApplyFill(positions, fill)
          /\ fills' = Append(fills, [id |-> id, fill |-> fill])
    /\ orders' = [orders EXCEPT ![id].status = "filled"]
    /\ calls' = calls + 1
    /\ UNCHANGED index

\* The cash ledger has taken the fill when the position book raises: the
\* exception leaves the cash changed and everything else as it was.
ProcessBarFails(id, bar) ==
    /\ id \in DOMAIN orders /\ calls < MaxCalls
    /\ \E fill \in {FillOrder(orders[id].request, bar)} :
          /\ ~ CanApply(positions, fill)
          /\ cash' = cash + CashEffect(fill)
    /\ calls' = calls + 1
    /\ UNCHANGED <<orders, index, positions, fills>>

Next ==
    \/ \E r \in Requests : Submit(r)
    \/ \E id \in Ids : Cancel(id)
    \/ \E id \in Ids, bar \in QuotedBars : ProcessBar(id, bar) \/ ProcessBarFails(id, bar)

\* Any client.
Spec == Init /\ [][Next]_vars

\* A client like the backtest engine: no id or key names two orders, every
\* order has a key, bars go to open orders only, and never more is sold than
\* is held.
MayProcess(id) ==
    /\ id \in DOMAIN orders /\ orders[id].status \notin Terminal
    /\ \A bar \in QuotedBars : CanApply(positions, FillOrder(orders[id].request, bar))

CarefulRequests == {r \in Requests : r.key = r.id /\ r.key # NoKey}

CarefulNext ==
    \/ \E r \in CarefulRequests : Submit(r)
    \/ \E id \in Ids : Cancel(id)
    \/ \E id \in Ids, bar \in QuotedBars : MayProcess(id) /\ ProcessBar(id, bar)

CarefulSpec == Init /\ [][CarefulNext]_vars
-----------------------------------------------------------------------------
\* What a fill adds to the shares of its ticker, what it costs its client on
\* the book, and what it brings in cash.
SharesIn(fill) == IF fill.side = "buy" THEN fill.quantity ELSE -fill.quantity
NetPaid(fill) ==
    IF fill.side = "buy" THEN fill.quantity * fill.price
                         ELSE fill.fee + fill.tax - fill.quantity * fill.price
Received(fill) ==
    (IF fill.side = "buy" THEN -fill.quantity * fill.price ELSE fill.quantity * fill.price)
        - fill.fee - fill.tax

\* What the recorded fills, those of one ticker or all, add up to.
SharesTraded(t) ==
    SumUpTo([n \in DOMAIN fills |->
                IF fills[n].fill.ticker = t THEN SharesIn(fills[n].fill) ELSE 0], Len(fills))
NetPaidFor(t) ==
    SumUpTo([n \in DOMAIN fills |->
                IF fills[n].fill.ticker = t THEN NetPaid(fills[n].fill) ELSE 0], Len(fills))
AllReceived == SumUpTo([n \in DOMAIN fills |-> Received(fills[n].fill)], Len(fills))

\* The types of the variables: no position is ever short.
TypeOK ==
    /\ DOMAIN orders \subseteq Ids
    /\ \A id \in DOMAIN orders :
          /\ orders[id].request \in Requests /\ orders[id].request.id = id
          /\ orders[id].status \in {"submitted"} \cup Terminal
    /\ DOMAIN index \subseteq Keys /\ \A k \in DOMAIN index : index[k] \in DOMAIN orders
    /\ cash \in Int /\ positions \in [Tickers -> Position]
    /\ calls \in 0 .. MaxCalls /\ Len(fills) <= calls

\* submit_order: however often and with whatever id a key is submitted, the
\* broker holds one order of it.
OneOrderPerKey ==
    \A i, j \in DOMAIN orders :
        orders[i].request.key = orders[j].request.key /\ orders[i].request.key # NoKey => i = j

\* The position book is what the recorded fills make it, for any client: the
\* shares bought less those sold, at a cost that, less the realised profit,
\* is what was paid less what was received net of costs.
BookFollowsFills ==
    \A t \in Tickers :
        /\ positions[t].quantity = SharesTraded(t)
        /\ positions[t].quantity * positions[t].avgPrice - positions[t].realizedPnl = NetPaidFor(t)

\* A cash ledger that changes by recorded fills only (engine.py:75): it holds
\* the initial cash, less all purchases, plus all sales, less all costs.
CashFollowsFills == cash = InitialCash + AllReceived

\* For a careful client the broker is an account: cash moves only together
\* with the shares of one fill, whatever is submitted, resubmitted, canceled
\* or refused in between.
TheAccount == INSTANCE Account WITH
    Quotes <- {bar.open : bar \in QuotedBars} \cup {bar.close : bar \in QuotedBars},
    Capital <- InitialCash,
    held <- [t \in Tickers |-> positions[t].quantity]

ImplementsAccount == TheAccount!Spec

\* Order.is_terminal: a terminal order's status does not change any more.
TerminalStatusFinal ==
    [][\A id \in DOMAIN orders :
          orders[id].status \in Terminal => orders'[id].status = orders[id].status]_vars

\* One submission is one execution: an order is filled exactly when the log
\* has its fill, and then has one, through all resubmissions and cancels.
FilledOnce ==
    \A id \in DOMAIN orders :
        Cardinality({n \in DOMAIN fills : fills[n].id = id})
            = IF orders[id].status = "filled" THEN 1 ELSE 0
=============================================================================
