-------------------------- MODULE KisAdapter_proofs --------------------------
(***************************************************************************)
(* What the adapter's retries, local records and payloads guarantee at the *)
(* exchange, for any set of orders, any number of retries and of calls.    *)
(***************************************************************************)
EXTENDS KisAdapter, TLAPS

Received == [key : {r.key : r \in Requests}, request : Requests,
             status : {"working", "rejected", "canceled", "filled"}]

Calls == [op : {"submit", "cancel"}, request : Requests, attempt : Nat]

\* The parts of the type invariant the argument needs; the key of an exchange
\* order is the key of the order it was posted for.
Typed ==
    /\ dryRun \in BOOLEAN
    /\ orders \in [DOMAIN orders -> [request : Requests, status : {"submitted", "canceled"}]]
    /\ call = NoCall \/ call \in Calls
    /\ exchange \in Seq(Received)
    /\ \A n \in DOMAIN exchange : exchange[n].key = exchange[n].request.key

\* RecordedWasReceived in terms of single exchange orders.
Matches(received, r) == received = r \/ (r.key # NoKey /\ received.key = r.key)

Fulfilled ==
    ~ dryRun => \A id \in DOMAIN orders : \E n \in DOMAIN exchange :
                    Matches(exchange[n].request, orders[id].request)

IInv == Typed /\ DryRunPostsNothing /\ Fulfilled

LEMMA InitIInv == Init => IInv
<1> SUFFICES ASSUME Init PROVE IInv
    OBVIOUS
<1>1. exchange \in Seq(Received) /\ DOMAIN exchange = {} /\ DOMAIN orders = {}
    BY DEF Init
<1> QED
    BY <1>1 DEF Init, IInv, Typed, DryRunPostsNothing, Fulfilled

\* An arrival keeps what the exchange has, up to the status of a canceled
\* order, adds at most one order at the end, and then has the order asked for.
LEMMA ArrivesFacts ==
    ASSUME Typed, call \in Calls, Arrives
    PROVE  /\ exchange' \in Seq(Received)
           /\ \A n \in DOMAIN exchange' : exchange'[n].key = exchange'[n].request.key
           /\ DOMAIN exchange \subseteq DOMAIN exchange'
           /\ \A n \in DOMAIN exchange : exchange'[n].request = exchange[n].request
           /\ call.op = "submit" =>
                \E n \in DOMAIN exchange' : Matches(exchange'[n].request, call.request)
           /\ \A n \in DOMAIN exchange' \ DOMAIN exchange :
                 /\ exchange'[n].request = call.request /\ n = Len(exchange) + 1
                 /\ HonoursKeys => ~ Seen(call.request.key)
<1> DEFINE r == call.request
<1>1. r \in Requests /\ exchange \in Seq(Received)
    BY DEF Calls, Typed
<1>2. CASE call.op = "submit" /\ HonoursKeys /\ Seen(r.key)
  <2>1. UNCHANGED exchange
      BY <1>2 DEF Arrives, Payload
  <2> QED
      BY <1>2, <2>1 DEF Typed, Seen, Matches
<1>3. CASE call.op = "submit" /\ ~ (HonoursKeys /\ Seen(r.key))
  <2>1. PICK status \in {"working", "rejected"} :
            exchange' = Append(exchange, [key |-> r.key, request |-> r, status |-> status])
      BY <1>3 DEF Arrives, Payload
  <2> DEFINE new == [key |-> r.key, request |-> r, status |-> status]
  <2>2. new \in Received /\ new.key = new.request.key /\ new.request = r
      BY <1>1 DEF Received
  <2> HIDE DEF new
  <2>3. exchange' = Append(exchange, new)
      BY <2>1 DEF new
  <2>4. /\ exchange' \in Seq(Received)
        /\ DOMAIN exchange' = DOMAIN exchange \cup {Len(exchange) + 1}
        /\ exchange'[Len(exchange) + 1] = new
        /\ \A n \in DOMAIN exchange : exchange'[n] = exchange[n]
      BY <1>1, <2>2, <2>3
  <2> QED
      BY <1>3, <2>2, <2>4 DEF Typed, Matches
<1>4. CASE call.op # "submit" /\ UNCHANGED exchange
    BY <1>4 DEF Typed
<1>5. CASE call.op # "submit" /\ exchange' # exchange
  <2>1. PICK n \in DOMAIN exchange : exchange' = [exchange EXCEPT ![n].status = "canceled"]
      BY <1>5 DEF Arrives
  <2> DEFINE canceled == [exchange[n] EXCEPT !.status = "canceled"]
  <2>2. exchange[n] \in Received
      BY <1>1
  <2>3. /\ canceled \in Received /\ canceled.key = exchange[n].key
        /\ canceled.request = exchange[n].request
      BY <2>2 DEF Received
  <2>4. exchange' = [exchange EXCEPT ![n] = canceled]
      BY <2>1
  <2> HIDE DEF canceled
  <2>5. /\ exchange' \in Seq(Received)
        /\ DOMAIN exchange' = DOMAIN exchange
        /\ exchange'[n] = canceled
        /\ \A m \in DOMAIN exchange : m # n => exchange'[m] = exchange[m]
      BY <1>1, <2>3, <2>4
  <2>6. \A m \in DOMAIN exchange' : exchange'[m].key = exchange'[m].request.key
                                    /\ exchange'[m].request = exchange[m].request
      BY <2>3, <2>5 DEF Typed
  <2> QED
      BY <1>5, <2>5, <2>6
<1> QED
    BY <1>2, <1>3, <1>4, <1>5

\* Only the retry counter and the local records differ between the outcomes
\* of an attempt.
LEMMA RetryTyped ==
    ASSUME Typed, call \in Calls, Retry
    PROVE  call' = NoCall \/ call' \in Calls
<1>1. CASE call.attempt < MaxRetries
  <2>1. call' = [call EXCEPT !.attempt = @ + 1]
      BY <1>1 DEF Retry
  <2> QED
      BY <2>1 DEF Calls
<1>2. CASE ~ (call.attempt < MaxRetries)
    BY <1>2 DEF Retry
<1> QED
    BY <1>1, <1>2

\* The local record of a submitted order: nothing else in orders changes.
LEMMA RecordEntry ==
    ASSUME Typed, NEW r \in Requests, Record(r)
    PROVE  /\ orders' \in [DOMAIN orders' -> [request : Requests,
                                              status : {"submitted", "canceled"}]]
           /\ DOMAIN orders' = DOMAIN orders \cup {r.id}
           /\ orders'[r.id].request = r
           /\ \A id \in DOMAIN orders \ {r.id} : orders'[id] = orders[id]
<1> DEFINE entry == [request |-> r, status |-> "submitted"]
<1>1. entry \in [request : Requests, status : {"submitted", "canceled"}] /\ entry.request = r
    OBVIOUS
<1>2. orders' = Put(orders, r.id, entry)
    BY DEF Record
<1> HIDE DEF entry
<1> QED
    BY <1>1, <1>2 DEF Put, Typed

LEMMA CancelEntry ==
    ASSUME Typed, NEW x, orders' = [orders EXCEPT ![x].status = "canceled"]
    PROVE  /\ orders' \in [DOMAIN orders' -> [request : Requests,
                                              status : {"submitted", "canceled"}]]
           /\ DOMAIN orders' = DOMAIN orders
           /\ \A id \in DOMAIN orders : orders'[id].request = orders[id].request
BY DEF Typed

\* Beginning a call changes nothing but the call.
LEMMA BeginKeeps ==
    ASSUME IInv, ~ dryRun, NEW op \in {"submit", "cancel"}, NEW r \in Requests, Begin(op, r),
           UNCHANGED <<dryRun, orders, index, exchange>>
    PROVE  IInv'
<1>1. call' \in Calls
    BY DEF Begin, Calls
<1> QED
    BY <1>1 DEF IInv, Typed, DryRunPostsNothing, Fulfilled

LEMMA DryRunKeeps ==
    ASSUME IInv, NEW r \in Requests, SubmitDryRun(r)
    PROVE  IInv'
<1>1. Record(r) /\ dryRun /\ UNCHANGED <<dryRun, call, calls, exchange>>
    BY DEF SubmitDryRun
<1>2. orders' \in [DOMAIN orders' -> [request : Requests, status : {"submitted", "canceled"}]]
    BY <1>1, RecordEntry DEF IInv
<1> QED
    BY <1>1, <1>2 DEF IInv, Typed, DryRunPostsNothing, Fulfilled

LEMMA CancelDryRunKeeps ==
    ASSUME IInv, NEW id \in Ids, CancelDryRun(id)
    PROVE  IInv'
<1>1. /\ dryRun /\ UNCHANGED <<dryRun, call, calls, exchange>>
      /\ id \in DOMAIN orders /\ orders' = [orders EXCEPT ![id].status = "canceled"]
    BY DEF CancelDryRun
<1>2. orders' \in [DOMAIN orders' -> [request : Requests, status : {"submitted", "canceled"}]]
    BY <1>1, CancelEntry DEF IInv
<1> QED
    BY <1>1, <1>2 DEF IInv, Typed, DryRunPostsNothing, Fulfilled

\* An attempt that raises, whether or not the request arrived.
LEMMA LostKeeps ==
    ASSUME IInv, RequestLost \/ ResponseLost
    PROVE  IInv'
<1>1. /\ call # NoCall /\ call \in Calls /\ Retry /\ ~ dryRun
      /\ UNCHANGED <<dryRun, orders>>
    BY DEF RequestLost, ResponseLost, Retry, IInv, Typed, DryRunPostsNothing
<1>2. call' = NoCall \/ call' \in Calls
    BY <1>1, RetryTyped DEF IInv
<1>3. /\ exchange' \in Seq(Received)
      /\ \A n \in DOMAIN exchange' : exchange'[n].key = exchange'[n].request.key
      /\ DOMAIN exchange \subseteq DOMAIN exchange'
      /\ \A n \in DOMAIN exchange : exchange'[n].request = exchange[n].request
  <2>1. CASE UNCHANGED exchange
      BY <2>1 DEF IInv, Typed
  <2>2. CASE Arrives
      BY <1>1, <2>2, ArrivesFacts DEF IInv
  <2> QED
      BY <2>1, <2>2 DEF RequestLost, ResponseLost
<1>4. Fulfilled'
    BY <1>1, <1>3 DEF IInv, Fulfilled
<1> QED
    BY <1>1, <1>2, <1>3, <1>4 DEF IInv, Typed, DryRunPostsNothing

LEMMA AnsweredKeeps ==
    ASSUME IInv, Answered
    PROVE  IInv'
<1>1. call # NoCall /\ call \in Calls /\ Arrives /\ call' = NoCall /\ ~ dryRun /\ ~ dryRun'
      /\ dryRun' \in BOOLEAN
    BY DEF Answered, IInv, Typed, DryRunPostsNothing
<1>2. /\ exchange' \in Seq(Received)
      /\ \A n \in DOMAIN exchange' : exchange'[n].key = exchange'[n].request.key
      /\ DOMAIN exchange \subseteq DOMAIN exchange'
      /\ \A n \in DOMAIN exchange : exchange'[n].request = exchange[n].request
      /\ call.op = "submit" =>
           \E n \in DOMAIN exchange' : Matches(exchange'[n].request, call.request)
    BY <1>1, ArrivesFacts DEF IInv
<1>3. CASE call.op = "submit"
  <2> DEFINE r == call.request
  <2>1. r \in Requests /\ Record(r)
      BY <1>1, <1>3 DEF Answered, Calls
  <2>2. /\ orders' \in [DOMAIN orders' -> [request : Requests,
                                           status : {"submitted", "canceled"}]]
        /\ DOMAIN orders' = DOMAIN orders \cup {r.id}
        /\ orders'[r.id].request = r
        /\ \A id \in DOMAIN orders \ {r.id} : orders'[id] = orders[id]
      BY <2>1, RecordEntry DEF IInv
  <2>3. \E n \in DOMAIN exchange' : Matches(exchange'[n].request, r)
      BY <1>2, <1>3
  <2> HIDE DEF r
  <2>4. \A id \in DOMAIN orders' : \E n \in DOMAIN exchange' :
            Matches(exchange'[n].request, orders'[id].request)
    <3> SUFFICES ASSUME NEW id \in DOMAIN orders'
                 PROVE  \E n \in DOMAIN exchange' :
                            Matches(exchange'[n].request, orders'[id].request)
        OBVIOUS
    <3>1. CASE id = r.id
        BY <2>2, <2>3, <3>1
    <3>2. CASE id # r.id
      <4>1. id \in DOMAIN orders /\ orders'[id] = orders[id]
          BY <2>2, <3>2
      <4>2. \E n \in DOMAIN exchange : Matches(exchange[n].request, orders[id].request)
          BY <1>1, <4>1 DEF IInv, Fulfilled
      <4> QED
          BY <1>2, <4>1, <4>2
    <3> QED
        BY <3>1, <3>2
  <2> QED
      BY <1>1, <1>2, <2>2, <2>4 DEF IInv, Typed, DryRunPostsNothing, Fulfilled
<1>4. CASE call.op # "submit"
  <2>1. /\ orders' \in [DOMAIN orders' -> [request : Requests,
                                           status : {"submitted", "canceled"}]]
        /\ DOMAIN orders' = DOMAIN orders
        /\ \A id \in DOMAIN orders : orders'[id].request = orders[id].request
      BY <1>4, CancelEntry DEF Answered, IInv
  <2>2. Fulfilled'
      BY <1>1, <1>2, <2>1 DEF IInv, Fulfilled
  <2> QED
      BY <1>1, <1>2, <2>1, <2>2 DEF IInv, Typed, DryRunPostsNothing, Fulfilled
<1> QED
    BY <1>3, <1>4

LEMMA ExecutesKeeps ==
    ASSUME IInv, NEW n \in DOMAIN exchange, Executes(n)
    PROVE  IInv'
<1> DEFINE filled == [exchange[n] EXCEPT !.status = "filled"]
<1>1. exchange[n] \in Received /\ UNCHANGED <<dryRun, orders, call>>
    BY DEF IInv, Typed, Executes
<1>2. /\ filled \in Received /\ filled.key = exchange[n].key
      /\ filled.request = exchange[n].request
    BY <1>1 DEF Received
<1>3. exchange' = [exchange EXCEPT ![n] = filled]
    BY DEF Executes
<1> HIDE DEF filled
<1>4. /\ exchange' \in Seq(Received) /\ DOMAIN exchange' = DOMAIN exchange
      /\ exchange'[n] = filled
      /\ \A m \in DOMAIN exchange : m # n => exchange'[m] = exchange[m]
    BY <1>2, <1>3 DEF IInv, Typed
<1>5. \A m \in DOMAIN exchange' : exchange'[m].key = exchange'[m].request.key
                                  /\ exchange'[m].request = exchange[m].request
    BY <1>2, <1>4 DEF IInv, Typed
<1>6. Typed'
    BY <1>1, <1>4, <1>5 DEF IInv, Typed
<1>7. DryRunPostsNothing'
    BY <1>1 DEF IInv, DryRunPostsNothing
<1>8. Fulfilled'
    BY <1>1, <1>4, <1>5 DEF IInv, Fulfilled
<1> QED
    BY <1>6, <1>7, <1>8 DEF IInv

LEMMA NextKeeps == IInv /\ [Next]_vars => IInv'
<1> SUFFICES ASSUME IInv, [Next]_vars PROVE IInv'
    OBVIOUS
<1>1. ASSUME NEW r \in Requests, Submit(r) PROVE IInv'
    BY <1>1, BeginKeeps DEF Submit
<1>2. ASSUME NEW r \in Requests, SubmitDryRun(r) PROVE IInv'
    BY <1>2, DryRunKeeps
<1>3. ASSUME NEW id \in Ids, Cancel(id) PROVE IInv'
  <2>1. orders[id].request \in Requests
      BY <1>3 DEF Cancel, IInv, Typed
  <2> QED
      BY <1>3, <2>1, BeginKeeps DEF Cancel
<1>4. ASSUME NEW id \in Ids, CancelDryRun(id) PROVE IInv'
    BY <1>4, CancelDryRunKeeps
<1>5. CASE Transport
    BY <1>5, LostKeeps, AnsweredKeeps DEF Transport
<1>6. ASSUME NEW n \in DOMAIN exchange, Executes(n) PROVE IInv'
    BY <1>6, ExecutesKeeps
<1>7. CASE UNCHANGED vars
    BY <1>7 DEF vars, IInv, Typed, DryRunPostsNothing, Fulfilled
<1> QED
    BY <1>1, <1>2, <1>3, <1>4, <1>5, <1>6, <1>7 DEF Next

THEOREM Invariance == Spec => []IInv
BY InitIInv, NextKeeps, PTL DEF Spec

\* A dry run never reaches the exchange, whatever is submitted and canceled.
THEOREM DryRunIsSafe == Spec => []DryRunPostsNothing
<1>1. IInv => DryRunPostsNothing
    BY DEF IInv
<1> QED
    BY <1>1, Invariance, PTL

\* Whatever gets lost, the adapter records no order the exchange lacks.
THEOREM RecordsAreReceived == Spec => []RecordedWasReceived
<1>1. IInv => RecordedWasReceived
    BY DEF IInv, Fulfilled, RecordedWasReceived, Of, Matches
<1> QED
    BY <1>1, Invariance, PTL
-----------------------------------------------------------------------------
\* The one step that adds an order adds none of a key the exchange has seen.
LEMMA KeysKept ==
    ASSUME HonoursKeys, IInv, OneExchangeOrderPerKey, [Next]_vars
    PROVE  OneExchangeOrderPerKey'
<1>1. CASE UNCHANGED exchange
    BY <1>1 DEF OneExchangeOrderPerKey
<1>2. CASE call \in Calls /\ Arrives
  <2>1. /\ DOMAIN exchange \subseteq DOMAIN exchange'
        /\ \A n \in DOMAIN exchange : exchange'[n].request = exchange[n].request
        /\ \A n \in DOMAIN exchange' \ DOMAIN exchange :
              /\ exchange'[n].request = call.request /\ n = Len(exchange) + 1
              /\ ~ Seen(call.request.key)
      BY <1>2, ArrivesFacts DEF IInv
  <2>2. call.request.key # NoKey /\ ~ Seen(call.request.key) =>
            \A n \in DOMAIN exchange : exchange[n].request.key # call.request.key
      BY DEF Seen, IInv, Typed
  <2> QED
      BY <2>1, <2>2 DEF OneExchangeOrderPerKey
<1>3. ASSUME NEW n \in DOMAIN exchange, Executes(n) PROVE OneExchangeOrderPerKey'
  <2>1. DOMAIN exchange' = DOMAIN exchange
        /\ \A m \in DOMAIN exchange : exchange'[m].request = exchange[m].request
      BY <1>3 DEF Executes, IInv, Typed, Received
  <2> QED
      BY <2>1 DEF OneExchangeOrderPerKey
<1>4. CASE Transport
  <2>1. call \in Calls /\ (UNCHANGED exchange \/ Arrives)
      BY <1>4 DEF Transport, RequestLost, ResponseLost, Answered, IInv, Typed
  <2> QED
      BY <1>1, <1>2, <2>1
<1>5. CASE \E r \in Requests : Submit(r) \/ SubmitDryRun(r)
    BY <1>1, <1>5 DEF Submit, SubmitDryRun
<1>6. CASE \E id \in Ids : Cancel(id) \/ CancelDryRun(id)
    BY <1>1, <1>6 DEF Cancel, CancelDryRun
<1>7. CASE UNCHANGED vars
    BY <1>1, <1>7 DEF vars
<1> QED
    BY <1>3, <1>4, <1>5, <1>6, <1>7 DEF Next

\* Against an exchange that honours the idempotency key of the payload, no
\* number of lost responses, retries and resubmissions duplicates an order.
THEOREM RetriesAreIdempotent ==
    ASSUME HonoursKeys
    PROVE  Spec => []OneExchangeOrderPerKey
<1>1. Init => OneExchangeOrderPerKey
    BY DEF Init, OneExchangeOrderPerKey
<1>2. IInv /\ OneExchangeOrderPerKey /\ [Next]_vars => OneExchangeOrderPerKey'
    BY KeysKept
<1> QED
    BY <1>1, <1>2, Invariance, PTL DEF Spec
-----------------------------------------------------------------------------
\* The local records refer to each other, a call has attempts left.
Books ==
    /\ DOMAIN orders \subseteq Ids
    /\ DOMAIN index \subseteq Keys /\ \A k \in DOMAIN index : index[k] \in DOMAIN orders

Bounded ==
    /\ call # NoCall => call.attempt \in 0 .. MaxRetries
    /\ calls \in 0 .. MaxCalls

LEMMA TypeParts == IInv /\ Books /\ Bounded => TypeOK
<1> SUFFICES ASSUME IInv, Books, Bounded PROVE TypeOK
    OBVIOUS
<1>1. \A id \in DOMAIN orders :
          orders[id].request \in Requests /\ orders[id].status \in {"submitted", "canceled"}
    BY DEF IInv, Typed
<1>2. call = NoCall \/ call \in [op : {"submit", "cancel"}, request : Requests,
                                attempt : 0 .. MaxRetries]
  <2> SUFFICES ASSUME call # NoCall, call \in Calls, call.attempt \in 0 .. MaxRetries
               PROVE  call \in [op : {"submit", "cancel"}, request : Requests,
                               attempt : 0 .. MaxRetries]
      BY DEF IInv, Typed, Bounded
  <2> QED
      BY DEF Calls
<1>3. \A n \in DOMAIN exchange :
          exchange[n].status \in {"working", "rejected", "canceled", "filled"}
  <2>1. \A n \in DOMAIN exchange : exchange[n] \in Received
      BY DEF IInv, Typed
  <2> QED
      BY <2>1 DEF Received
<1> QED
    BY <1>1, <1>2, <1>3 DEF TypeOK, IInv, Typed, Books, Bounded

LEMMA RecordKeepsBooks ==
    ASSUME Books, NEW r \in Requests, Record(r)
    PROVE  Books'
<1>1. DOMAIN orders' = DOMAIN orders \cup {r.id} /\ r.id \in Ids
    BY DEF Record, Put, Ids
<1>2. CASE r.key = NoKey
    BY <1>1, <1>2 DEF Record, Books
<1>3. CASE r.key # NoKey
  <2>1. index' = Put(index, r.key, r.id) /\ r.key \in Keys
      BY <1>3 DEF Record, Keys
  <2>2. /\ DOMAIN index' = DOMAIN index \cup {r.key}
        /\ \A k \in DOMAIN index' : index'[k] = IF k = r.key THEN r.id ELSE index[k]
      BY <2>1 DEF Put
  <2> QED
      BY <1>1, <2>1, <2>2 DEF Books
<1> QED
    BY <1>2, <1>3

LEMMA BooksKept ==
    ASSUME IInv, Books, [Next]_vars
    PROVE  Books'
<1>1. CASE UNCHANGED <<orders, index>>
    BY <1>1 DEF Books
<1>2. ASSUME NEW r \in Requests, SubmitDryRun(r) PROVE Books'
    BY <1>2, RecordKeepsBooks DEF SubmitDryRun
<1>3. ASSUME NEW x, orders' = [orders EXCEPT ![x].status = "canceled"], UNCHANGED index
      PROVE  Books'
    BY <1>3 DEF Books
<1>4. CASE Answered
  <2>1. call \in Calls
      BY <1>4 DEF Answered, IInv, Typed
  <2>2. CASE call.op = "submit"
      BY <1>4, <2>1, <2>2, RecordKeepsBooks DEF Answered, Calls
  <2>3. CASE call.op # "submit"
      BY <1>3, <1>4, <2>3 DEF Answered
  <2> QED
      BY <2>2, <2>3
<1>5. CASE Transport
    BY <1>1, <1>4, <1>5 DEF Transport, RequestLost, ResponseLost, Retry
<1>6. ASSUME NEW id \in Ids, CancelDryRun(id) PROVE Books'
    BY <1>3, <1>6 DEF CancelDryRun
<1>7. CASE \/ \E r \in Requests : Submit(r)
           \/ \E id \in Ids : Cancel(id)
           \/ \E n \in DOMAIN exchange : Executes(n)
           \/ UNCHANGED vars
    BY <1>1, <1>7 DEF Submit, Cancel, Executes, vars
<1> QED
    BY <1>2, <1>5, <1>6, <1>7 DEF Next

\* Only Retry counts attempts up, and it stops at max_retries.
LEMMA BoundedKept ==
    ASSUME IInv, Bounded, [Next]_vars
    PROVE  Bounded'
<1>1. CASE UNCHANGED <<call, calls>>
    BY <1>1 DEF Bounded
<1>2. ASSUME NEW op, NEW r, Begin(op, r) PROVE Bounded'
    BY <1>2, RetryAssumption DEF Begin, Bounded
<1>3. CASE call # NoCall /\ Retry
  <2>1. CASE call.attempt < MaxRetries
    <3>1. call \in Calls /\ call' = [call EXCEPT !.attempt = @ + 1] /\ calls' = calls
        BY <1>3, <2>1 DEF Retry, IInv, Typed
    <3>2. call'.attempt = call.attempt + 1
        BY <3>1 DEF Calls
    <3> QED
        BY <1>3, <2>1, <3>1, <3>2, RetryAssumption DEF Bounded
  <2>2. CASE ~ (call.attempt < MaxRetries)
      BY <1>3, <2>2 DEF Retry, Bounded
  <2> QED
      BY <2>1, <2>2
<1>4. CASE Transport
    BY <1>3, <1>4 DEF Transport, RequestLost, ResponseLost, Answered, Bounded
<1>5. CASE \/ \E r \in Requests : Submit(r) \/ SubmitDryRun(r)
           \/ \E id \in Ids : Cancel(id) \/ CancelDryRun(id)
           \/ \E n \in DOMAIN exchange : Executes(n)
           \/ UNCHANGED vars
    BY <1>1, <1>2, <1>5 DEF Submit, SubmitDryRun, Cancel, CancelDryRun, Executes, vars
<1> QED
    BY <1>4, <1>5 DEF Next

\* The types of the adapter's records and calls; no call has more than
\* max_retries attempts after its first.
THEOREM AdapterTypeCorrect == Spec => []TypeOK
<1>1. Init => Books /\ Bounded
    BY RetryAssumption DEF Init, Books, Bounded
<1>2. IInv /\ Books /\ Bounded /\ [Next]_vars => Books' /\ Bounded'
    BY BooksKept, BoundedKept
<1> QED
    BY <1>1, <1>2, TypeParts, Invariance, PTL DEF Spec
=============================================================================
