----------------------------- MODULE KisAdapter -----------------------------
(***************************************************************************)
(* The live adapter of execution/live_broker_adapter.py in front of an     *)
(* exchange it reaches through an injected transport.  A call blocks until *)
(* the transport has answered or every retry has failed; between any two   *)
(* steps of it the exchange may fill orders.  Requests and responses get   *)
(* lost.  The exchange is external: what is modelled of it is what the     *)
(* adapter's payloads ask for and what it may answer.                      *)
(***************************************************************************)
EXTENDS Naturals, Sequences

CONSTANTS
    Requests,          \* the Order objects of the client: [id, key]
    NoKey,             \* idempotency_key of an order that has none
    MaxRetries,        \* BrokerConfig.max_retries
    HonoursKeys,       \* does the exchange recognise a key it has seen?
    MaxCalls           \* bound of the model: calls that reach the transport

\* BrokerConfig.validate.
ASSUME RetryAssumption ==
    MaxRetries \in Nat /\ MaxCalls \in Nat /\ HonoursKeys \in BOOLEAN

VARIABLES
    dryRun,            \* BrokerConfig.dry_run, fixed for the adapter's life
    orders,            \* order_id -> [request, status], the local records
    index,             \* idempotency_index: key -> order_id
    call,              \* the call in _request, with its attempt
    calls,             \* calls begun
    exchange           \* the orders the exchange has received, in that order

vars == <<dryRun, orders, index, call, calls, exchange>>

Ids  == {r.id : r \in Requests}
Keys == {r.key : r \in Requests} \ {NoKey}
NoCall == [op |-> "none"]

Init ==
    /\ dryRun \in BOOLEAN
    /\ orders = << >> /\ index = << >>
    /\ call = NoCall /\ calls = 0
    /\ exchange = << >>
-----------------------------------------------------------------------------
Put(table, x, y) == [z \in DOMAIN table \cup {x} |-> IF z = x THEN y ELSE table[z]]

\* The tail of submit_order: the local record of an order that was accepted.
Record(r) ==
    /\ orders' = Put(orders, r.id, [request |-> r, status |-> "submitted"])
    /\ index' = IF r.key = NoKey THEN index ELSE Put(index, r.key, r.id)

AlreadySubmitted(r) == r.key # NoKey /\ r.key \in DOMAIN index

Begin(op, r) ==
    /\ call = NoCall /\ calls < MaxCalls
    /\ call' = [op |-> op, request |-> r, attempt |-> 0]
    /\ calls' = calls + 1

SubmitRecordsFirst(r) ==
    /\ ~ AlreadySubmitted(r) /\ ~ dryRun /\ Begin("submit", r)
    /\ Record(r)
    /\ UNCHANGED <<dryRun, exchange>>

\* submit_order up to the request; a key it knows changes nothing.
Submit(r) ==
    /\ ~ AlreadySubmitted(r) /\ ~ dryRun /\ Begin("submit", r)
    /\ UNCHANGED <<dryRun, orders, index, exchange>>

SubmitDryRun(r) ==
    /\ ~ AlreadySubmitted(r) /\ dryRun /\ Record(r)
    /\ UNCHANGED <<dryRun, call, calls, exchange>>

CancelAlways(id) ==
    /\ id \in DOMAIN orders /\ Begin("cancel", orders[id].request)
    /\ UNCHANGED <<dryRun, orders, index, exchange>>

\* cancel_order up to the request, whatever the status of the order is.
Cancel(id) ==
    /\ id \in DOMAIN orders /\ ~ dryRun /\ Begin("cancel", orders[id].request)
    /\ UNCHANGED <<dryRun, orders, index, exchange>>

CancelDryRun(id) ==
    /\ id \in DOMAIN orders /\ dryRun
    /\ orders' = [orders EXCEPT ![id].status = "canceled"]
    /\ UNCHANGED <<dryRun, index, call, calls, exchange>>
-----------------------------------------------------------------------------
PayloadWithoutKey(r) == [key |-> NoKey]

\* What the exchange learns of an order: everything but its order_id.
Payload(r) == [key |-> r.key]

Seen(key) == key # NoKey /\ \E n \in DOMAIN exchange : exchange[n].key = key

\* A request arrives.  An order is taken or rejected, or is recognised by its
\* key.  A cancel finds a working order or is refused.
Arrives ==
    IF call.op = "submit"
    THEN IF HonoursKeys /\ Seen(Payload(call.request).key)
         THEN UNCHANGED exchange
         ELSE \E status \in {"working", "rejected"} :
                 exchange' = Append(exchange, [key |-> Payload(call.request).key,
                                               request |-> call.request, status |-> status])
    ELSE \/ UNCHANGED exchange
         \/ \E n \in DOMAIN exchange :
               /\ exchange[n].request = call.request /\ exchange[n].status = "working"
               /\ exchange' = [exchange EXCEPT ![n].status = "canceled"]

RetryOnceMore ==
    /\ call' = IF call.attempt <= MaxRetries THEN [call EXCEPT !.attempt = @ + 1] ELSE NoCall
    /\ UNCHANGED <<dryRun, orders, index, calls>>

\* The except branch of _request: the next attempt, or BrokerError, which
\* leaves no trace of the call.
Retry ==
    /\ call' = IF call.attempt < MaxRetries THEN [call EXCEPT !.attempt = @ + 1] ELSE NoCall
    /\ UNCHANGED <<dryRun, orders, index, calls>>

RequestLostRestartsTheCount ==
    /\ call # NoCall
    /\ call' = [call EXCEPT !.attempt = IF @ < MaxRetries THEN @ + 1 ELSE 0]
    /\ UNCHANGED <<dryRun, orders, index, calls, exchange>>

RequestLost  == call # NoCall /\ Retry /\ UNCHANGED exchange
ResponseLost == call # NoCall /\ Retry /\ Arrives

\* Any mapping ends the loop; submit_order and cancel_order look at nothing
\* in it and go on to their local records.
Answered ==
    /\ call # NoCall /\ Arrives
    /\ call' = NoCall
    /\ IF call.op = "submit"
       THEN Record(call.request)
       ELSE /\ orders' = [orders EXCEPT ![call.request.id].status = "canceled"]
            /\ UNCHANGED index
    /\ UNCHANGED <<dryRun, calls>>

\* The exchange executes a working order, at any time.
Executes(n) ==
    /\ exchange[n].status = "working"
    /\ exchange' = [exchange EXCEPT ![n].status = "filled"]
    /\ UNCHANGED <<dryRun, orders, index, call, calls>>

Transport == RequestLost \/ ResponseLost \/ Answered

Next ==
    \/ \E r \in Requests : Submit(r) \/ SubmitDryRun(r)
    \/ \E id \in Ids : Cancel(id) \/ CancelDryRun(id)
    \/ Transport
    \/ \E n \in DOMAIN exchange : Executes(n)

\* Every transport call returns or raises.  Nothing obliges a client to call
\* or the exchange to execute.
Spec == Init /\ [][Next]_vars /\ WF_vars(Transport)
-----------------------------------------------------------------------------
\* The exchange orders that are this order, or another of its key.
Of(r) == {n \in DOMAIN exchange :
            exchange[n].request = r \/ (r.key # NoKey /\ exchange[n].request.key = r.key)}

\* The types of the variables; no call attempts more than max_retries again.
TypeOK ==
    /\ dryRun \in BOOLEAN
    /\ DOMAIN orders \subseteq Ids
    /\ \A id \in DOMAIN orders :
          orders[id].request \in Requests /\ orders[id].status \in {"submitted", "canceled"}
    /\ DOMAIN index \subseteq Keys /\ \A k \in DOMAIN index : index[k] \in DOMAIN orders
    /\ call = NoCall \/ call \in [op : {"submit", "cancel"}, request : Requests,
                                  attempt : 0 .. MaxRetries]
    /\ calls \in 0 .. MaxCalls
    /\ \A n \in DOMAIN exchange :
          exchange[n].status \in {"working", "rejected", "canceled", "filled"}

\* submit_order's idempotency: however many attempts time out and however
\* often the client submits again, a key is one order at the exchange.
OneExchangeOrderPerKey ==
    \A i, j \in DOMAIN exchange :
        exchange[i].request.key = exchange[j].request.key /\ exchange[i].request.key # NoKey
            => i = j

\* A local record of a live order is never invented: the exchange has the
\* order (or one of its key), however the attempts went.
RecordedWasReceived ==
    ~ dryRun => \A id \in DOMAIN orders : Of(orders[id].request) # {}

\* A dry run keeps the adapter away from the exchange, cancels included.
DryRunPostsNothing == dryRun => call = NoCall /\ exchange = << >>

\* Retries are bounded: every call returns or raises.
CallsReturn == call # NoCall ~> call = NoCall

\* cancel_order cancels an order that is not filled: what it has reported
\* canceled is not filled.
CanceledIsNotFilled ==
    \A id \in DOMAIN orders :
        orders[id].status = "canceled" =>
            \A n \in Of(orders[id].request) : exchange[n].status # "filled"
=============================================================================
