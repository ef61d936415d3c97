---------------------------- MODULE LiveSession ----------------------------
(***************************************************************************)
(* A live session as docs/operations.md prescribes it: on every start the  *)
(* adapter's sync_state is reconciled with the state file, and only if     *)
(* safe mode stays off are orders sent; while trading, sync_state is saved *)
(* now and then.  The process may crash at any step and is started again.  *)
(* Nothing in the repository drives such a session yet: the order of the   *)
(* calls is the document's, what each call does is the code's.             *)
(*                                                                         *)
(* sync_state asks the exchange twice, for the account and then for the    *)
(* positions, and takes the orders from the adapter's own memory.  The     *)
(* answers are values, which a purchase and a sale can bring back: there   *)
(* is one ticker, whose price stands still at one unit of money.  (Prices  *)
(* that move would only make more comparisons fail.)                       *)
(***************************************************************************)
EXTENDS KisAdapter, StateStore, Sums

CONSTANTS
    Funds,             \* the money of the account before any order
    MaxSaves,          \* bounds of the model: saves begun,
    MaxCrashes         \* and crashes

\* The orders of a session also say how many shares they buy, or sell (< 0).
ASSUME SessionAssumption ==
    /\ \A r \in Requests : r.shares \in Int
    /\ Funds \in Nat /\ MaxSaves \in Nat /\ MaxCrashes \in Nat

VARIABLES
    mode,              \* "recovering", "trading", "blocked" (safe mode) or "down"
    sync,              \* how far sync_state, or the save that follows it, is
    plain,             \* does the client save plain values or the objects?
    saves, crashes

sessionVars == <<mode, sync, plain, saves, crashes, file>>
allVars == <<vars, sessionVars>>

Idle == [step |-> "idle"]

SessionInit ==
    /\ Init /\ dryRun = FALSE
    /\ file = Absent
    /\ mode = "recovering" /\ sync = Idle
    /\ plain \in BOOLEAN
    /\ saves = 0 /\ crashes = 0

\* The shares the executed orders have left in the account.
Holding ==
    SumUpTo([n \in DOMAIN exchange |->
                IF exchange[n].status = "filled" THEN exchange[n].request.shares ELSE 0],
            Len(exchange))

\* Whatever mapping answers is read: _parse_account and _parse_positions make
\* of one that reports an error an account of 0 without positions.
AccountReading(isError) ==
    IF isError THEN [cash |-> 0, equity |-> 0] ELSE [cash |-> Funds - Holding, equity |-> Funds]

PositionsReading(isError) == IF isError THEN 0 ELSE Holding

Recorded == {orders[id] : id \in DOMAIN orders}

\* What sync_state returns, once both answers are there.
BrokerState ==
    [account |-> sync.account, positions |-> sync.positions, orders |-> Recorded,
     plain |-> plain]
-----------------------------------------------------------------------------
\* sync_state begins: after a start, or for a save.
StartSync ==
    /\ call = NoCall /\ sync = Idle
    /\ mode = "recovering" \/ (mode = "trading" /\ saves < MaxSaves)
    /\ sync' = [step |-> "account", attempt |-> 0]
    /\ UNCHANGED <<vars, mode, plain, saves, crashes, file>>

\* get_account is answered and get_positions asks next ...
AccountRead ==
    /\ sync.step = "account"
    /\ \E isError \in BOOLEAN :
          sync' = [step |-> "positions", account |-> AccountReading(isError), attempt |-> 0]
    /\ UNCHANGED <<vars, mode, plain, saves, crashes, file>>

\* ... and is answered.
PositionsRead ==
    /\ sync.step = "positions"
    /\ \E isError \in BOOLEAN :
          sync' = [step |-> "read", account |-> sync.account,
                   positions |-> PositionsReading(isError)]
    /\ UNCHANGED <<vars, mode, plain, saves, crashes, file>>

ReadLostForever ==
    /\ sync.step \in {"account", "positions"}
    /\ sync' = [sync EXCEPT !.attempt = IF @ < MaxRetries THEN @ + 1 ELSE 0]
    /\ UNCHANGED <<vars, mode, plain, saves, crashes, file>>

\* A balance request or its answer is lost.  The last attempt raises
\* BrokerError: nothing has been compared, so a start ends without orders.
ReadLost ==
    /\ sync.step \in {"account", "positions"}
    /\ IF sync.attempt < MaxRetries
       THEN sync' = [sync EXCEPT !.attempt = @ + 1] /\ UNCHANGED mode
       ELSE sync' = Idle /\ mode' = IF mode = "recovering" THEN "blocked" ELSE mode
    /\ UNCHANGED <<vars, plain, saves, crashes, file>>

\* reconcile loads the file and compares.  A file that cannot be loaded, like
\* safe mode, keeps the session from sending orders.
Reconcile ==
    /\ mode = "recovering" /\ sync.step = "read"
    /\ mode' = IF CanLoad /\ ~ SafeMode(BrokerState) THEN "trading" ELSE "blocked"
    /\ sync' = Idle
    /\ UNCHANGED <<vars, plain, saves, crashes, file>>

BeginSave ==
    /\ mode = "trading" /\ sync.step = "read"
    /\ OpenForWriting
    /\ sync' = [sync EXCEPT !.step = "writing"] /\ saves' = saves + 1
    /\ UNCHANGED <<vars, mode, plain, crashes>>

EndSave ==
    /\ sync.step = "writing" /\ Write(BrokerState)
    /\ sync' = Idle
    /\ UNCHANGED <<vars, mode, plain, saves, crashes>>

\* An OSError, from opening the file or from writing it, leaves the file as it
\* is by then.  The client gets StateStoreError and goes on trading.
SaveRaises ==
    /\ mode = "trading" /\ sync.step \in {"read", "writing"}
    /\ sync' = Idle
    /\ UNCHANGED <<vars, mode, plain, saves, crashes, file>>

\* The adapter's records, its call and a half-written state are gone.
Crash ==
    /\ mode # "down" /\ crashes < MaxCrashes
    /\ mode' = "down" /\ crashes' = crashes + 1
    /\ orders' = << >> /\ index' = << >> /\ call' = NoCall /\ sync' = Idle
    /\ UNCHANGED <<dryRun, calls, exchange, plain, saves, file>>

Restart ==
    /\ mode = "down"
    /\ mode' = "recovering"
    /\ UNCHANGED <<vars, sync, plain, saves, crashes, file>>

\* The adapter's own steps: calls while trading, one at a time, and whatever
\* the transport and the exchange do with them.
Trade ==
    /\ mode = "trading" /\ sync = Idle
    /\ \/ \E r \in Requests : Submit(r)
       \/ \E id \in Ids : Cancel(id)
    /\ UNCHANGED sessionVars

\* The exchange sells nothing the account does not hold.
Exchanged ==
    /\ Transport \/ \E n \in DOMAIN exchange : Executes(n) /\ Holding' >= 0
    /\ UNCHANGED sessionVars

\* What a starting process does by itself.
Recovery ==
    /\ mode = "recovering"
    /\ StartSync \/ AccountRead \/ PositionsRead \/ ReadLost \/ Reconcile

SessionNext ==
    \/ StartSync \/ AccountRead \/ PositionsRead \/ ReadLost
    \/ Reconcile
    \/ BeginSave \/ EndSave \/ SaveRaises
    \/ Crash \/ Restart
    \/ Trade
    \/ Exchanged

SessionSpec ==
    SessionInit /\ [][SessionNext]_allVars /\ WF_allVars(Recovery)
-----------------------------------------------------------------------------
Resumes == mode = "recovering" /\ mode' = "trading"

\* Once anything was saved, or a save was begun, no restart takes the session
\* for a new one: it resumes only on a file that agrees with the exchange.
NoAmnesia ==
    [][Resumes => saves = 0 \/ (~ LocalStateIsEmpty /\ Agrees(BrokerState))]_allVars

\* No record in a saved state is invented: through lost requests and answers,
\* retries, failed saves and any crash, each is of an order (or of the key of
\* one) that has reached the exchange.
SavedWasReceived ==
    file.status = "whole" => \A saved \in file.state.orders : Of(saved.request) # {}

\* "Enter safe mode if positions, cash, or open orders disagree"
\* (docs/operations.md): trading is not resumed over an order that is open at
\* the exchange and that the compared states do not know.
NoOpenOrderForgotten ==
    [][Resumes /\ ~ LocalStateIsEmpty =>
         \A n \in DOMAIN exchange : exchange[n].status = "working" =>
            \E known \in file.state.orders : n \in Of(known.request)]_allVars

\* Every start ends in a decision: the session trades, is blocked, or is down.
RestartDecides == mode = "recovering" ~> mode # "recovering"
=============================================================================
