------------------------- MODULE PaperBroker_proofs -------------------------
(***************************************************************************)
(* What the idempotency index and the ledgers of the paper broker          *)
(* guarantee, for any set of order objects, any bars and any number of     *)
(* calls.                                                                  *)
(***************************************************************************)
EXTENDS PaperBroker, MarketSimulator_proofs

Statuses == {"submitted"} \cup Terminal

OrdersTyped ==
    orders \in [DOMAIN orders -> [request : Requests, status : Statuses]]

\* The index knows the key of every order, so no key can get a second one.
KeysIndexed ==
    \A id \in DOMAIN orders :
        orders[id].request.key # NoKey => orders[id].request.key \in DOMAIN index

KeyInv == OrdersTyped /\ KeysIndexed /\ OneOrderPerKey

\* A new status for one order leaves every request and every other order.
LEMMA StatusEntry ==
    ASSUME OrdersTyped, NEW x \in DOMAIN orders, NEW y \in Statuses,
           orders' = [orders EXCEPT ![x].status = y]
    PROVE  /\ OrdersTyped' /\ DOMAIN orders' = DOMAIN orders
           /\ orders'[x].status = y
           /\ \A z \in DOMAIN orders : orders'[z].request = orders[z].request
           /\ \A z \in DOMAIN orders \ {x} : orders'[z] = orders[z]
BY DEF OrdersTyped

\* What submit_order does to the tables when it takes the order.
LEMMA SubmitEntry ==
    ASSUME OrdersTyped, NEW r \in Requests, Submit(r), ~ AlreadySubmitted(r)
    PROVE  /\ OrdersTyped'
           /\ DOMAIN orders' = DOMAIN orders \cup {r.id}
           /\ orders'[r.id].request = r
           /\ \A z \in DOMAIN orders \ {r.id} : orders'[z] = orders[z]
           /\ DOMAIN index' = DOMAIN index \cup (IF r.key = NoKey THEN {} ELSE {r.key})
<1> DEFINE entry == [request |-> r, status |-> "submitted"]
<1>1. orders' = Put(orders, r.id, entry)
      /\ index' = IF r.key = NoKey THEN index ELSE Put(index, r.key, r.id)
    BY DEF Submit
<1>2. DOMAIN index' = DOMAIN index \cup (IF r.key = NoKey THEN {} ELSE {r.key})
  <2>1. CASE r.key = NoKey
      BY <1>1, <2>1
  <2>2. CASE r.key # NoKey
      BY <1>1, <2>2 DEF Put
  <2> QED
      BY <2>1, <2>2
<1>3. entry \in [request : Requests, status : Statuses]
    BY DEF Statuses
<1> HIDE DEF entry
<1>4. /\ DOMAIN orders' = DOMAIN orders \cup {r.id}
      /\ orders'[r.id] = entry
      /\ \A z \in DOMAIN orders \ {r.id} : orders'[z] = orders[z]
    BY <1>1 DEF Put
<1>5. orders' = [z \in DOMAIN orders' |-> orders'[z]]
    BY <1>1 DEF Put
<1>6. \A z \in DOMAIN orders' : orders'[z] \in [request : Requests, status : Statuses]
    BY <1>3, <1>4 DEF OrdersTyped
<1>7. OrdersTyped'
    BY <1>5, <1>6 DEF OrdersTyped
<1> QED
    BY <1>2, <1>4, <1>7 DEF entry

LEMMA SubmitKeepsKeys ==
    ASSUME KeyInv, NEW r \in Requests, Submit(r)
    PROVE  KeyInv'
<1>1. CASE AlreadySubmitted(r)
    BY <1>1 DEF Submit, KeyInv, OrdersTyped, KeysIndexed, OneOrderPerKey
<1>2. CASE ~ AlreadySubmitted(r)
  <2>1. /\ OrdersTyped'
        /\ DOMAIN orders' = DOMAIN orders \cup {r.id}
        /\ orders'[r.id].request = r
        /\ \A z \in DOMAIN orders \ {r.id} : orders'[z] = orders[z]
        /\ DOMAIN index' = DOMAIN index \cup (IF r.key = NoKey THEN {} ELSE {r.key})
      BY <1>2, SubmitEntry DEF KeyInv
  <2>2. KeysIndexed'
      BY <2>1 DEF KeyInv, KeysIndexed
  <2>3. r.key # NoKey => \A z \in DOMAIN orders : orders[z].request.key # r.key
      BY <1>2 DEF AlreadySubmitted, KeyInv, KeysIndexed
  <2>4. OneOrderPerKey'
      BY <2>1, <2>3 DEF KeyInv, OneOrderPerKey
  <2> QED
      BY <2>1, <2>2, <2>4 DEF KeyInv
<1> QED
    BY <1>1, <1>2

LEMMA StatusKeepsKeys ==
    ASSUME KeyInv, NEW id \in DOMAIN orders, NEW y \in Statuses,
           orders' = [orders EXCEPT ![id].status = y], index' = index
    PROVE  KeyInv'
<1>1. /\ OrdersTyped' /\ DOMAIN orders' = DOMAIN orders
      /\ \A z \in DOMAIN orders : orders'[z].request = orders[z].request
    BY StatusEntry DEF KeyInv
<1>2. KeysIndexed' /\ OneOrderPerKey'
    BY <1>1 DEF KeyInv, KeysIndexed, OneOrderPerKey
<1> QED
    BY <1>1, <1>2 DEF KeyInv

LEMMA NextKeepsKeys == KeyInv /\ [Next]_vars => KeyInv'
<1> SUFFICES ASSUME KeyInv, [Next]_vars PROVE KeyInv'
    OBVIOUS
<1>1. ASSUME NEW r \in Requests, Submit(r) PROVE KeyInv'
    BY <1>1, SubmitKeepsKeys
<1>2. ASSUME NEW id \in Ids, Cancel(id) PROVE KeyInv'
    BY <1>2, StatusKeepsKeys DEF Cancel, Statuses, Terminal
<1>3. ASSUME NEW id \in Ids, NEW bar \in QuotedBars, ProcessBar(id, bar) PROVE KeyInv'
    BY <1>3, StatusKeepsKeys DEF ProcessBar, Statuses, Terminal
<1>4. ASSUME NEW id \in Ids, NEW bar \in QuotedBars, ProcessBarFails(id, bar) PROVE KeyInv'
    BY <1>4 DEF ProcessBarFails, KeyInv, OrdersTyped, KeysIndexed, OneOrderPerKey
<1>5. CASE UNCHANGED vars
    BY <1>5 DEF vars, KeyInv, OrdersTyped, KeysIndexed, OneOrderPerKey
<1> QED
    BY <1>1, <1>2, <1>3, <1>4, <1>5 DEF Next

LEMMA InitKeys == Init => KeyInv
BY DEF Init, KeyInv, OrdersTyped, KeysIndexed, OneOrderPerKey

\* No client, however it submits, resubmits, cancels and fills, gets the
\* broker to hold two orders of one idempotency key.
THEOREM KeysAreUnique == Spec => []OneOrderPerKey
<1>1. KeyInv => OneOrderPerKey
    BY DEF KeyInv
<1> QED
    BY <1>1, InitKeys, NextKeepsKeys, PTL DEF Spec
-----------------------------------------------------------------------------
\* For a careful client every order is keyed by its id.
Keyed ==
    \A id \in DOMAIN orders :
        orders[id].request \in CarefulRequests /\ orders[id].request.id = id

CarefulInv == KeyInv /\ Keyed

LEMMA CarefulIsNext == [CarefulNext]_vars => [Next]_vars
BY DEF CarefulNext, Next, CarefulRequests

LEMMA CarefulKept == CarefulInv /\ [CarefulNext]_vars => CarefulInv'
<1> SUFFICES ASSUME CarefulInv, [CarefulNext]_vars PROVE CarefulInv'
    OBVIOUS
<1>1. KeyInv'
    BY CarefulIsNext, NextKeepsKeys DEF CarefulInv
<1>2. ASSUME NEW r \in CarefulRequests, Submit(r) PROVE Keyed'
  <2>1. CASE AlreadySubmitted(r)
      BY <1>2, <2>1 DEF Submit, CarefulInv, Keyed
  <2>2. CASE ~ AlreadySubmitted(r)
    <3>1. /\ DOMAIN orders' = DOMAIN orders \cup {r.id}
          /\ orders'[r.id].request = r
          /\ \A z \in DOMAIN orders \ {r.id} : orders'[z] = orders[z]
        BY <1>2, <2>2, SubmitEntry DEF CarefulInv, KeyInv, CarefulRequests
    <3> QED
        BY <3>1 DEF CarefulInv, Keyed
  <2> QED
      BY <2>1, <2>2
<1>3. ASSUME NEW id \in Ids, Cancel(id) PROVE Keyed'
  <2>1. /\ DOMAIN orders' = DOMAIN orders
        /\ \A z \in DOMAIN orders : orders'[z].request = orders[z].request
      BY <1>3, StatusEntry DEF Cancel, Statuses, Terminal, CarefulInv, KeyInv
  <2> QED
      BY <2>1 DEF CarefulInv, Keyed
<1>4. ASSUME NEW id \in Ids, NEW bar \in QuotedBars, ProcessBar(id, bar) PROVE Keyed'
  <2>1. /\ DOMAIN orders' = DOMAIN orders
        /\ \A z \in DOMAIN orders : orders'[z].request = orders[z].request
      BY <1>4, StatusEntry DEF ProcessBar, Statuses, Terminal, CarefulInv, KeyInv
  <2> QED
      BY <2>1 DEF CarefulInv, Keyed
<1>5. ASSUME UNCHANGED vars PROVE Keyed'
    BY <1>5 DEF vars, CarefulInv, Keyed
<1>6. Keyed'
    BY <1>2, <1>3, <1>4, <1>5 DEF CarefulNext
<1> QED
    BY <1>1, <1>6 DEF CarefulInv

\* A client that keys its orders and feeds bars to open orders only never
\* sees a filled or canceled order change.
THEOREM TerminalForCareful == CarefulSpec => TerminalStatusFinal
<1> DEFINE Final == \A id \in DOMAIN orders :
                       orders[id].status \in Terminal => orders'[id].status = orders[id].status
<1>1. Init => CarefulInv
    BY InitKeys DEF Init, CarefulInv, Keyed
<1>2. CarefulInv /\ [CarefulNext]_vars => CarefulInv'
    BY CarefulKept
<1>3. CarefulInv /\ [CarefulNext]_vars => [Final]_vars
  <2> SUFFICES ASSUME CarefulInv, CarefulNext PROVE Final
      OBVIOUS
  <2>1. ASSUME NEW r \in CarefulRequests, Submit(r) PROVE Final
    <3>1. CASE AlreadySubmitted(r)
        BY <2>1, <3>1 DEF Submit
    <3>2. CASE ~ AlreadySubmitted(r)
      <4>1. r.key = r.id /\ r.key # NoKey /\ r \in Requests /\ r.key \notin DOMAIN index
          BY <3>2 DEF CarefulRequests, AlreadySubmitted
      <4>2. r.id \notin DOMAIN orders
          BY <4>1 DEF CarefulInv, Keyed, KeyInv, KeysIndexed, CarefulRequests
      <4>3. \A z \in DOMAIN orders : orders'[z] = orders[z]
          BY <2>1, <3>2, <4>1, <4>2, SubmitEntry DEF CarefulInv, KeyInv
      <4> QED
          BY <4>3
    <3> QED
        BY <3>1, <3>2
  <2>2. ASSUME NEW id \in Ids, Cancel(id) PROVE Final
    <3>1. /\ id \in DOMAIN orders /\ orders[id].status \notin Terminal
          /\ \A z \in DOMAIN orders \ {id} : orders'[z] = orders[z]
        BY <2>2, StatusEntry DEF Cancel, Statuses, Terminal, CarefulInv, KeyInv
    <3> QED
        BY <3>1
  <2>3. ASSUME NEW id \in Ids, NEW bar \in QuotedBars, MayProcess(id), ProcessBar(id, bar)
        PROVE  Final
    <3>1. /\ id \in DOMAIN orders /\ orders[id].status \notin Terminal
          /\ \A z \in DOMAIN orders \ {id} : orders'[z] = orders[z]
        BY <2>3, StatusEntry DEF MayProcess, ProcessBar, Statuses, Terminal, CarefulInv, KeyInv
    <3> QED
        BY <3>1
  <2> QED
      BY <2>1, <2>2, <2>3 DEF CarefulNext
<1> QED
    BY <1>1, <1>2, <1>3, PTL DEF CarefulSpec, TerminalStatusFinal
-----------------------------------------------------------------------------
Fills == [ticker : Tickers, side : Sides, quantity : Nat \ {0}, price : Int,
          fee : Nat, tax : Int]

\* What the simulator makes of an order the broker holds.
LEMMA BrokerFill ==
    ASSUME OrdersTyped, NEW id \in DOMAIN orders, NEW bar \in QuotedBars
    PROVE  LET r    == orders[id].request
               base == PriceFromBar(bar)
               fill == FillOrder(r, bar)
           IN  /\ fill \in Fills /\ base \in Nat \ {0}
               /\ base \in {b.open : b \in QuotedBars} \cup {b.close : b \in QuotedBars}
               /\ fill.ticker = r.ticker /\ fill.side = r.side /\ fill.quantity = r.quantity
               /\ fill.price = FillPrice(r.side, base)
               /\ fill.fee = Fee(fill.quantity, fill.price)
               /\ fill.tax = Tax(r.side, fill.quantity, fill.price)
<1> DEFINE r == orders[id].request
<1> DEFINE base == PriceFromBar(bar)
<1> DEFINE price == FillPrice(r.side, base)
<1>1. r \in Requests
    BY DEF OrdersTyped
<1> HIDE DEF r
<1>2. r.ticker \in Tickers /\ r.side \in Sides /\ r.quantity \in Nat \ {0}
    BY <1>1, BrokerAssumption
<1>3. /\ base \in Nat \ {0}
      /\ base \in {b.open : b \in QuotedBars} \cup {b.close : b \in QuotedBars}
    BY BrokerAssumption DEF PriceFromBar
<1> HIDE DEF base
<1>4. price \in Int
    BY <1>2, <1>3, FillPriceType
<1> HIDE DEF price
<1>5. Fee(r.quantity, price) \in Nat /\ Tax(r.side, r.quantity, price) \in Int
    BY <1>2, <1>4, FeeInt, TaxInt
<1> DEFINE fill == FillOrder(r, bar)
<1>6. fill = [ticker |-> r.ticker, side |-> r.side, quantity |-> r.quantity, price |-> price,
              fee |-> Fee(r.quantity, price), tax |-> Tax(r.side, r.quantity, price)]
    BY DEF FillOrder, price, base
<1> HIDE DEF fill
<1>7. /\ fill.ticker = r.ticker /\ fill.side = r.side /\ fill.quantity = r.quantity
      /\ fill.price = price /\ fill.fee = Fee(r.quantity, price)
      /\ fill.tax = Tax(r.side, r.quantity, price)
    BY <1>6
<1>8. fill \in Fills
    BY <1>2, <1>4, <1>5, <1>6 DEF Fills
<1> QED
    BY <1>3, <1>7, <1>8 DEF r, price, base, fill

\* A fill that may be applied keeps the book long-only.
LEMMA AppliedBook ==
    ASSUME NEW book \in Books, NEW fill \in Fills, CanApply(book, fill)
    PROVE  LET after == ApplyFill(book, fill)
               t     == fill.ticker
           IN  /\ after \in Books
               /\ \A u \in Tickers \ {t} : after[u] = book[u]
               /\ book[t].quantity \in Nat
               /\ fill.side = "buy" => after[t].quantity = book[t].quantity + fill.quantity
               /\ fill.side = "sell" => after[t].quantity = book[t].quantity - fill.quantity
<1> DEFINE t == fill.ticker
<1> DEFINE old == book[t]
<1> DEFINE new == IF fill.side = "buy" THEN AfterBuy(old, fill) ELSE AfterSell(old, fill)
<1>1. /\ t \in Tickers /\ fill.side \in {"buy", "sell"} /\ fill.quantity \in Nat \ {0}
      /\ fill.price \in Int /\ fill.fee \in Nat /\ fill.tax \in Int
    BY DEF Fills, Sides
<1>2. old \in Position
    BY <1>1 DEF Books
<1>3. ApplyFill(book, fill) = [book EXCEPT ![t] = new]
    BY DEF ApplyFill
<1>4. CASE fill.side = "buy"
  <2> DEFINE shares == old.quantity + fill.quantity
  <2> DEFINE cost == old.avgPrice * old.quantity + fill.price * fill.quantity
  <2>1. old.quantity \in Nat /\ old.avgPrice \in Int
      BY <1>2 DEF Position
  <2>2. shares \in Nat \ {0} /\ cost \in Int
      BY <1>1, <2>1
  <2> HIDE DEF shares, cost
  <2>3. cost \div shares \in Int
      BY <2>2
  <2>4. new = [old EXCEPT !.quantity = shares, !.avgPrice = cost \div shares,
                          !.currentPrice = fill.price, !.status = "open"]
      BY <1>4 DEF AfterBuy, shares, cost
  <2>5. new \in Position /\ new.quantity = shares
      BY <1>1, <1>2, <2>2, <2>3, <2>4 DEF Position
  <2> QED
      BY <1>1, <1>3, <1>4, <2>1, <2>5 DEF Books, shares
<1>5. CASE fill.side = "sell"
  <2> DEFINE rest == old.quantity - fill.quantity
  <2> DEFINE realized == (fill.price - old.avgPrice) * fill.quantity - fill.fee - fill.tax
  <2>1. /\ old.quantity \in Nat /\ old.avgPrice \in Int /\ old.realizedPnl \in Int
        /\ old.status \in {"open", "closed"}
      BY <1>2 DEF Position
  <2>2. rest \in Nat
      BY <1>1, <1>5, <2>1 DEF CanApply
  <2>3. realized \in Int
      BY <1>1, <2>1
  <2> HIDE DEF rest, realized
  <2>4. new = [quantity     |-> rest,
               avgPrice     |-> IF rest = 0 THEN 0 ELSE old.avgPrice,
               currentPrice |-> IF rest = 0 THEN 0 ELSE fill.price,
               realizedPnl  |-> old.realizedPnl + realized,
               status       |-> IF rest = 0 THEN "closed" ELSE old.status]
      BY <1>5 DEF AfterSell, rest, realized
  <2>5. new \in Position /\ new.quantity = rest
      BY <1>1, <2>1, <2>2, <2>3, <2>4 DEF Position
  <2> QED
      BY <1>1, <1>3, <1>5, <2>1, <2>5 DEF Books, rest
<1> QED
    BY <1>1, <1>4, <1>5

\* The ledgers and the log have their types.
LedgerInv ==
    /\ cash \in Int /\ positions \in Books
    /\ calls \in 0 .. MaxCalls
    /\ fills \in Seq([id : Ids, fill : Fills]) /\ Len(fills) <= calls

BrokerInv == KeyInv /\ TypeOK /\ LedgerInv

LEMMA InitBroker == Init => BrokerInv
<1> SUFFICES ASSUME Init PROVE BrokerInv
    OBVIOUS
<1>1. positions \in Books
    BY DEF Init, Books, EmptyPosition, Position
<1>2. fills \in Seq([id : Ids, fill : Fills]) /\ Len(fills) = 0
    BY DEF Init
<1>3. cash \in Int /\ calls = 0 /\ 0 \in 0 .. MaxCalls
    BY BrokerAssumption DEF Init
<1>4. TypeOK
    BY <1>1, <1>2, <1>3 DEF Init, TypeOK, Books
<1> QED
    BY <1>1, <1>2, <1>3, <1>4, InitKeys DEF BrokerInv, LedgerInv

\* What a filled bar does to the ledgers.
LEMMA ProcessBarFacts ==
    ASSUME OrdersTyped, LedgerInv, NEW id \in Ids, NEW bar \in QuotedBars, ProcessBar(id, bar)
    PROVE  LET fill == FillOrder(orders[id].request, bar)
           IN  /\ id \in DOMAIN orders /\ fill \in Fills /\ CanApply(positions, fill)
               /\ positions' = ApplyFill(positions, fill) /\ positions' \in Books
               /\ CashEffect(fill) \in Int /\ cash' = cash + CashEffect(fill)
               /\ LedgerInv'
<1> DEFINE fill == FillOrder(orders[id].request, bar)
<1>1. /\ id \in DOMAIN orders /\ calls < MaxCalls /\ CanApply(positions, fill)
      /\ cash' = cash + CashEffect(fill)
      /\ positions' = ApplyFill(positions, fill)
      /\ fills' = Append(fills, [id |-> id, fill |-> fill])
      /\ calls' = calls + 1
    BY DEF ProcessBar
<1>2. fill \in Fills
    BY <1>1, BrokerFill
<1> HIDE DEF fill
<1>3. CashEffect(fill) \in Int
  <2>1. /\ fill.quantity \in Nat \ {0} /\ fill.price \in Int
        /\ fill.fee \in Nat /\ fill.tax \in Int
      BY <1>2 DEF Fills
  <2>2. fill.quantity * fill.price \in Int
      BY <2>1
  <2> QED
      BY <2>1, <2>2 DEF CashEffect
<1>4. positions' \in Books
    BY <1>1, <1>2, AppliedBook DEF LedgerInv
<1>5. [id |-> id, fill |-> fill] \in [id : Ids, fill : Fills]
    BY <1>2
<1>6. fills' \in Seq([id : Ids, fill : Fills]) /\ Len(fills') = Len(fills) + 1
    BY <1>1, <1>5 DEF LedgerInv
<1>7. calls' \in 0 .. MaxCalls /\ Len(fills') <= calls' /\ cash' \in Int
    BY <1>1, <1>3, <1>6, BrokerAssumption DEF LedgerInv
<1> QED
    BY <1>1, <1>2, <1>3, <1>4, <1>6, <1>7 DEF LedgerInv, fill

LEMMA ProcessBarFailsKeeps ==
    ASSUME OrdersTyped, LedgerInv, NEW id \in Ids, NEW bar \in QuotedBars,
           ProcessBarFails(id, bar)
    PROVE  LedgerInv'
<1> DEFINE fill == FillOrder(orders[id].request, bar)
<1>1. /\ id \in DOMAIN orders /\ calls < MaxCalls
      /\ cash' = cash + CashEffect(fill) /\ calls' = calls + 1
      /\ UNCHANGED <<positions, fills>>
    BY DEF ProcessBarFails
<1>2. fill \in Fills
    BY <1>1, BrokerFill
<1> HIDE DEF fill
<1>3. /\ fill.quantity \in Nat \ {0} /\ fill.price \in Int
      /\ fill.fee \in Nat /\ fill.tax \in Int
    BY <1>2 DEF Fills
<1>4. fill.quantity * fill.price \in Int
    BY <1>3
<1>5. CashEffect(fill) \in Int
    BY <1>3, <1>4 DEF CashEffect
<1>6. calls' \in 0 .. MaxCalls /\ Len(fills) <= calls' /\ cash' \in Int
  <2>1. fills \in Seq([id : Ids, fill : Fills])
      BY DEF LedgerInv
  <2>2. Len(fills) \in Nat
      BY <2>1
  <2> QED
      BY <1>1, <1>5, <2>2, BrokerAssumption DEF LedgerInv
<1> QED
    BY <1>1, <1>6 DEF LedgerInv

\* The tables: orders under their own ids, index entries that lead to orders.
Tables ==
    /\ DOMAIN orders \subseteq Ids
    /\ \A id \in DOMAIN orders : orders[id].request.id = id
    /\ DOMAIN index \subseteq Keys
    /\ \A k \in DOMAIN index : index[k] \in DOMAIN orders

LEMMA TypeOKParts == KeyInv /\ LedgerInv => (TypeOK <=> Tables)
BY DEF KeyInv, LedgerInv, OrdersTyped, TypeOK, Tables, Statuses, Books

LEMMA SubmitKeepsTables ==
    ASSUME OrdersTyped, Tables, NEW r \in Requests, Submit(r)
    PROVE  Tables'
<1>1. CASE AlreadySubmitted(r)
    BY <1>1 DEF Submit, Tables
<1>2. CASE ~ AlreadySubmitted(r)
  <2>1. /\ DOMAIN orders' = DOMAIN orders \cup {r.id}
        /\ orders'[r.id].request = r
        /\ \A z \in DOMAIN orders \ {r.id} : orders'[z] = orders[z]
        /\ DOMAIN index' = DOMAIN index \cup (IF r.key = NoKey THEN {} ELSE {r.key})
      BY <1>2, SubmitEntry
  <2>2. r.id \in Ids /\ (r.key # NoKey => r.key \in Keys)
      BY DEF Ids, Keys
  <2>3. \A k \in DOMAIN index' : index'[k] \in DOMAIN orders'
    <3>1. CASE r.key = NoKey
        BY <1>2, <2>1, <3>1 DEF Submit, Tables
    <3>2. CASE r.key # NoKey
      <4>1. index' = Put(index, r.key, r.id)
          BY <1>2, <3>2 DEF Submit
      <4> QED
          BY <2>1, <4>1 DEF Put, Tables
    <3> QED
        BY <3>1, <3>2
  <2> QED
      BY <2>1, <2>2, <2>3 DEF Tables
<1> QED
    BY <1>1, <1>2

LEMMA StatusKeepsTables ==
    ASSUME OrdersTyped, Tables, NEW id \in DOMAIN orders, NEW y \in Statuses,
           orders' = [orders EXCEPT ![id].status = y], index' = index
    PROVE  Tables'
<1>1. /\ DOMAIN orders' = DOMAIN orders
      /\ \A z \in DOMAIN orders : orders'[z].request = orders[z].request
    BY StatusEntry
<1> QED
    BY <1>1 DEF Tables

LEMMA BrokerKept == BrokerInv /\ [Next]_vars => BrokerInv'
<1> SUFFICES ASSUME BrokerInv, [Next]_vars PROVE BrokerInv'
    OBVIOUS
<1>1. KeyInv /\ LedgerInv /\ OrdersTyped /\ Tables
    BY TypeOKParts DEF BrokerInv, KeyInv
<1>2. KeyInv'
    BY NextKeepsKeys DEF BrokerInv
<1>3. ASSUME NEW r \in Requests, Submit(r) PROVE LedgerInv' /\ Tables'
    BY <1>1, <1>3, SubmitKeepsTables DEF Submit, LedgerInv
<1>4. ASSUME NEW id \in Ids, Cancel(id) PROVE LedgerInv' /\ Tables'
    BY <1>1, <1>4, StatusKeepsTables DEF Cancel, LedgerInv, Statuses, Terminal
<1>5. ASSUME NEW id \in Ids, NEW bar \in QuotedBars, ProcessBar(id, bar)
      PROVE  LedgerInv' /\ Tables'
  <2>1. LedgerInv'
      BY <1>1, <1>5, ProcessBarFacts
  <2>2. Tables'
      BY <1>1, <1>5, StatusKeepsTables DEF ProcessBar, Statuses, Terminal
  <2> QED
      BY <2>1, <2>2
<1>6. ASSUME NEW id \in Ids, NEW bar \in QuotedBars, ProcessBarFails(id, bar)
      PROVE  LedgerInv' /\ Tables'
  <2>1. LedgerInv'
      BY <1>1, <1>6, ProcessBarFailsKeeps
  <2>2. Tables'
      BY <1>1, <1>6 DEF ProcessBarFails, Tables
  <2> QED
      BY <2>1, <2>2
<1>7. ASSUME UNCHANGED vars PROVE LedgerInv' /\ Tables'
    BY <1>1, <1>7 DEF vars, LedgerInv, Tables
<1>8. LedgerInv' /\ Tables'
    BY <1>3, <1>4, <1>5, <1>6, <1>7 DEF Next
<1>9. TypeOK'
    BY <1>2, <1>8, TypeOKParts, PTL
<1> QED
    BY <1>2, <1>8, <1>9 DEF BrokerInv

\* For any client the tables stay consistent, no position is ever short and
\* nothing is recorded that no call has made.
THEOREM BrokerTypeCorrect == Spec => []TypeOK
<1>1. BrokerInv => TypeOK
    BY DEF BrokerInv
<1> QED
    BY <1>1, InitBroker, BrokerKept, PTL DEF Spec
-----------------------------------------------------------------------------
\* The careful client's step with a fill is a purchase or a sale.
LEMMA FillTrades ==
    ASSUME SlippageRate <= Unit, BrokerInv, NEW id \in Ids, NEW bar \in QuotedBars,
           ProcessBar(id, bar)
    PROVE  \E t \in Tickers : TheAccount!Purchase(t) \/ TheAccount!Sale(t)
<1> DEFINE r == orders[id].request
<1> DEFINE fill == FillOrder(r, bar)
<1> DEFINE base == PriceFromBar(bar)
<1> DEFINE q == fill.quantity
<1>1. /\ id \in DOMAIN orders /\ fill \in Fills /\ CanApply(positions, fill)
      /\ positions' = ApplyFill(positions, fill)
      /\ CashEffect(fill) \in Int /\ cash' = cash + CashEffect(fill)
      /\ positions \in Books /\ cash \in Int
    BY ProcessBarFacts DEF BrokerInv, KeyInv, LedgerInv
<1>2. /\ base \in Nat \ {0}
      /\ base \in {b.open : b \in QuotedBars} \cup {b.close : b \in QuotedBars}
      /\ fill.price = FillPrice(fill.side, base)
      /\ fill.fee = Fee(q, fill.price) /\ fill.tax = Tax(fill.side, q, fill.price)
    BY <1>1, BrokerFill DEF BrokerInv, KeyInv
<1> HIDE DEF fill, base, r
<1>3. /\ fill.ticker \in Tickers /\ q \in Nat \ {0} /\ fill.side \in {"buy", "sell"}
      /\ fill.price \in Int /\ fill.fee \in Nat /\ fill.tax \in Int
    BY <1>1 DEF Fills, Sides
<1>3a. PICK t \in Tickers : t = fill.ticker
    BY <1>3
<1>4. /\ \A u \in Tickers \ {t} : positions'[u] = positions[u]
      /\ positions[t].quantity \in Nat /\ positions'[t].quantity \in Nat
      /\ fill.side = "buy" => positions'[t].quantity = positions[t].quantity + q
      /\ fill.side = "sell" => positions'[t].quantity = positions[t].quantity - q
  <2>1. positions' \in Books
      BY <1>1, AppliedBook
  <2>2. positions'[t].quantity \in Nat
      BY <1>3, <2>1 DEF Books, Position
  <2> QED
      BY <1>1, <1>3a, <2>2, AppliedBook
<1>5. TheAccount!OthersKept(t)
    BY <1>4 DEF TheAccount!OthersKept
<1> HIDE DEF q
<1>6. q * base \in Nat /\ q * base = base * q /\ q * fill.price \in Int
    BY <1>2, <1>3
<1>7. CASE fill.side = "buy"
  <2>1. CashEffect(fill) = -(q * fill.price + fill.fee + fill.tax)
      BY <1>7 DEF CashEffect, q
  <2>2. fill.tax = 0
      BY <1>2, <1>7 DEF Tax
  <2>3. q * base <= q * fill.price + fill.fee
      BY <1>2, <1>3, <1>7, PurchaseAboveQuote
  <2>4. cash' <= cash - base * q
      BY <1>1, <1>3, <1>6, <2>1, <2>2, <2>3
  <2>5. positions'[t].quantity > positions[t].quantity
        /\ positions'[t].quantity - positions[t].quantity = q
      BY <1>3, <1>4, <1>7
  <2>6. TheAccount!Purchase(t)
      BY <1>2, <1>3, <1>5, <2>4, <2>5 DEF TheAccount!Purchase
  <2> QED
      BY <1>3, <2>6
<1>8. CASE fill.side = "sell"
  <2>1. CashEffect(fill) = q * fill.price - fill.fee - fill.tax
      BY <1>8 DEF CashEffect, q
  <2>2. q * fill.price - fill.fee - fill.tax <= q * base
      BY <1>2, <1>3, <1>8, SaleBelowQuote
  <2>3. cash' <= cash + base * q
      BY <1>1, <1>3, <1>6, <2>1, <2>2
  <2>4. /\ 0 <= positions'[t].quantity /\ positions'[t].quantity < positions[t].quantity
        /\ positions[t].quantity - positions'[t].quantity = q
      BY <1>3, <1>4, <1>8
  <2>5. TheAccount!Sale(t)
      BY <1>2, <1>3, <1>5, <2>3, <2>4 DEF TheAccount!Sale
  <2> QED
      BY <1>3, <2>5
<1> QED
    BY <1>3, <1>7, <1>8

\* For a careful client the broker, too, is a long-only account: resubmissions,
\* cancels and refused orders move neither cash nor shares, a fill moves both,
\* and never to better than a quoted price.
THEOREM BrokerIsAccount ==
    ASSUME SlippageRate <= Unit
    PROVE  CarefulSpec => ImplementsAccount
<1> DEFINE held == [t \in Tickers |-> positions[t].quantity]
<1>1. Init => TheAccount!Init
    BY DEF Init, TheAccount!Init, EmptyPosition
<1>2. BrokerInv /\ [CarefulNext]_vars => BrokerInv'
    BY CarefulIsNext, BrokerKept
<1>3. BrokerInv /\ [CarefulNext]_vars => [TheAccount!Next]_<<cash, held>>
  <2> SUFFICES ASSUME BrokerInv, [CarefulNext]_vars
               PROVE  TheAccount!Next \/ UNCHANGED <<cash, held>>
      OBVIOUS
  <2>1. ASSUME NEW r \in CarefulRequests, Submit(r) PROVE UNCHANGED <<cash, held>>
      BY <2>1 DEF Submit
  <2>2. ASSUME NEW id \in Ids, Cancel(id) PROVE UNCHANGED <<cash, held>>
      BY <2>2 DEF Cancel
  <2>3. ASSUME NEW id \in Ids, NEW bar \in QuotedBars, ProcessBar(id, bar)
        PROVE  TheAccount!Next
      BY <2>3, FillTrades DEF TheAccount!Next
  <2>4. CASE UNCHANGED vars
      BY <2>4 DEF vars
  <2> QED
      BY <2>1, <2>2, <2>3, <2>4 DEF CarefulNext
<1> QED
    BY <1>1, <1>2, <1>3, InitBroker, PTL DEF CarefulSpec, ImplementsAccount, TheAccount!Spec
-----------------------------------------------------------------------------
\* The log after process_market_bar, and what its sums become.
LEMMA LogGrows ==
    ASSUME LedgerInv, NEW id \in Ids, NEW fill \in Fills,
           fills' = Append(fills, [id |-> id, fill |-> fill])
    PROVE  LET n == Len(fills) + 1
           IN  /\ Len(fills) \in Nat /\ Len(fills') = n
               /\ DOMAIN fills = 1 .. Len(fills) /\ DOMAIN fills' = 1 .. n
               /\ fills'[n].id = id /\ fills'[n].fill = fill
               /\ \A i \in 1 .. Len(fills) : fills'[i] = fills[i]
<1> DEFINE entry == [id |-> id, fill |-> fill]
<1>1. fills \in Seq([id : Ids, fill : Fills]) /\ entry \in [id : Ids, fill : Fills]
    BY DEF LedgerInv
<1>2. entry.id = id /\ entry.fill = fill
    OBVIOUS
<1> HIDE DEF entry
<1> QED
    BY <1>1, <1>2, <1>1 DEF entry

LEMMA FillAmounts ==
    ASSUME NEW fill \in Fills
    PROVE  SharesIn(fill) \in Int /\ NetPaid(fill) \in Int /\ Received(fill) \in Int
<1>1. /\ fill.quantity \in Int /\ fill.price \in Int /\ fill.fee \in Int /\ fill.tax \in Int
    BY DEF Fills
<1>2. fill.quantity * fill.price \in Int /\ -fill.quantity * fill.price \in Int
    BY <1>1
<1> QED
    BY <1>1, <1>2 DEF SharesIn, NetPaid, Received

LEMMA LogSums ==
    ASSUME LedgerInv, NEW id \in Ids, NEW fill \in Fills,
           fills' = Append(fills, [id |-> id, fill |-> fill])
    PROVE  /\ \A t \in Tickers :
                /\ SharesTraded(t)' = SharesTraded(t)
                                         + (IF fill.ticker = t THEN SharesIn(fill) ELSE 0)
                /\ NetPaidFor(t)' = NetPaidFor(t) + (IF fill.ticker = t THEN NetPaid(fill) ELSE 0)
           /\ AllReceived' = AllReceived + Received(fill)
<1> DEFINE n == Len(fills)
<1>1. /\ n \in Nat /\ Len(fills') = n + 1
      /\ DOMAIN fills = 1 .. n /\ DOMAIN fills' = 1 .. (n + 1)
      /\ fills'[n + 1].fill = fill
      /\ \A i \in 1 .. n : fills'[i] = fills[i]
    BY LogGrows
<1> HIDE DEF n
<1>2. ASSUME NEW t \in Tickers
      PROVE  SharesTraded(t)' = SharesTraded(t) + (IF fill.ticker = t THEN SharesIn(fill) ELSE 0)
  <2> DEFINE shares(e) == IF e.fill.ticker = t THEN SharesIn(e.fill) ELSE 0
             a == [i \in DOMAIN fills |-> shares(fills[i])]
             b == [i \in DOMAIN fills' |-> shares(fills'[i])]
  <2>1. \A i \in 1 .. n : a[i] = b[i]
      BY <1>1
  <2>2. b[n + 1] = IF fill.ticker = t THEN SharesIn(fill) ELSE 0
      BY <1>1
  <2>3. SharesTraded(t) = SumUpTo(a, n) /\ SharesTraded(t)' = SumUpTo(b, n + 1)
      BY <1>1 DEF SharesTraded, n
  <2> HIDE DEF a, b
  <2>4. SumUpTo(b, n + 1) = SumUpTo(a, n) + b[n + 1]
      BY <1>1, <2>1, SumOfOneMore
  <2> QED
      BY <2>2, <2>3, <2>4
<1>3. ASSUME NEW t \in Tickers
      PROVE  NetPaidFor(t)' = NetPaidFor(t) + (IF fill.ticker = t THEN NetPaid(fill) ELSE 0)
  <2> DEFINE paid(e) == IF e.fill.ticker = t THEN NetPaid(e.fill) ELSE 0
             a == [i \in DOMAIN fills |-> paid(fills[i])]
             b == [i \in DOMAIN fills' |-> paid(fills'[i])]
  <2>1. \A i \in 1 .. n : a[i] = b[i]
      BY <1>1
  <2>2. b[n + 1] = IF fill.ticker = t THEN NetPaid(fill) ELSE 0
      BY <1>1
  <2>3. NetPaidFor(t) = SumUpTo(a, n) /\ NetPaidFor(t)' = SumUpTo(b, n + 1)
      BY <1>1 DEF NetPaidFor, n
  <2> HIDE DEF a, b
  <2>4. SumUpTo(b, n + 1) = SumUpTo(a, n) + b[n + 1]
      BY <1>1, <2>1, SumOfOneMore
  <2> QED
      BY <2>2, <2>3, <2>4
<1>4. AllReceived' = AllReceived + Received(fill)
  <2> DEFINE a == [i \in DOMAIN fills |-> Received(fills[i].fill)]
             b == [i \in DOMAIN fills' |-> Received(fills'[i].fill)]
  <2>1. \A i \in 1 .. n : a[i] = b[i]
      BY <1>1
  <2>2. b[n + 1] = Received(fill)
      BY <1>1
  <2>3. AllReceived = SumUpTo(a, n) /\ AllReceived' = SumUpTo(b, n + 1)
      BY <1>1 DEF AllReceived, n
  <2> HIDE DEF a, b
  <2>4. SumUpTo(b, n + 1) = SumUpTo(a, n) + b[n + 1]
      BY <1>1, <2>1, SumOfOneMore
  <2> QED
      BY <2>2, <2>3, <2>4
<1> QED
    BY <1>2, <1>3, <1>4

\* The sums are whole numbers.
LEMMA LogSumTypes ==
    ASSUME LedgerInv
    PROVE  /\ \A t \in Tickers : SharesTraded(t) \in Int /\ NetPaidFor(t) \in Int
           /\ AllReceived \in Int
<1> DEFINE n == Len(fills)
<1>1. n \in Nat /\ DOMAIN fills = 1 .. n /\ \A i \in 1 .. n : fills[i].fill \in Fills
  <2> DEFINE Entries == [id : Ids, fill : Fills]
  <2>1. fills \in Seq(Entries) /\ \A e \in Entries : e.fill \in Fills
      BY DEF LedgerInv
  <2> HIDE DEF Entries
  <2>2. n \in Nat /\ DOMAIN fills = 1 .. n
      BY <2>1
  <2>3. \A i \in DOMAIN fills : fills[i] \in Entries
      BY <2>1
  <2> QED
      BY <2>1, <2>2, <2>3
<1> HIDE DEF n
<1>2. ASSUME NEW t \in Tickers PROVE SharesTraded(t) \in Int
  <2> DEFINE a == [i \in DOMAIN fills |->
                     IF fills[i].fill.ticker = t THEN SharesIn(fills[i].fill) ELSE 0]
  <2>1. \A i \in 1 .. n : a[i] \in Int
      BY <1>1, FillAmounts
  <2>2. SumUpTo(a, n) \in Int
      BY <1>1, <2>1, SumIsInt
  <2> QED
      BY <2>2 DEF SharesTraded, n
<1>3. ASSUME NEW t \in Tickers PROVE NetPaidFor(t) \in Int
  <2> DEFINE a == [i \in DOMAIN fills |->
                     IF fills[i].fill.ticker = t THEN NetPaid(fills[i].fill) ELSE 0]
  <2>1. \A i \in 1 .. n : a[i] \in Int
      BY <1>1, FillAmounts
  <2>2. SumUpTo(a, n) \in Int
      BY <1>1, <2>1, SumIsInt
  <2> QED
      BY <2>2 DEF NetPaidFor, n
<1>4. AllReceived \in Int
  <2> DEFINE a == [i \in DOMAIN fills |-> Received(fills[i].fill)]
  <2>1. \A i \in 1 .. n : a[i] \in Int
      BY <1>1, FillAmounts
  <2>2. SumUpTo(a, n) \in Int
      BY <1>1, <2>1, SumIsInt
  <2> QED
      BY <2>2 DEF AllReceived, n
<1> QED
    BY <1>2, <1>3, <1>4

LEMMA EmptyLog ==
    ASSUME fills = << >>
    PROVE  /\ \A t \in Tickers : SharesTraded(t) = 0 /\ NetPaidFor(t) = 0
           /\ AllReceived = 0
<1>1. Len(fills) = 0
    OBVIOUS
<1> QED
    BY <1>1, SumOfNothing DEF SharesTraded, NetPaidFor, AllReceived
-----------------------------------------------------------------------------
\* process_market_bar will not have to round an average.  The averages of the
\* code are quotients; those of the model are whole numbers.
AveragesExact ==
    calls < MaxCalls =>
        \A id \in DOMAIN orders, bar \in QuotedBars :
            LET fill == FillOrder(orders[id].request, bar)
                old  == positions[fill.ticker]
            IN  fill.side = "buy" =>
                    (old.avgPrice * old.quantity + fill.price * fill.quantity)
                        % (old.quantity + fill.quantity) = 0

\* What a position cost, less what it has realised.
Invested(position) == position.quantity * position.avgPrice - position.realizedPnl

\* What a fill makes of its position: the shares for any prices, the cost if
\* the average is exact.
LEMMA BuyCosts ==
    ASSUME NEW old \in Position, NEW fill \in Fills, fill.side = "buy"
    PROVE  LET new    == AfterBuy(old, fill)
               shares == old.quantity + fill.quantity
               cost   == old.avgPrice * old.quantity + fill.price * fill.quantity
           IN  /\ new.quantity = old.quantity + SharesIn(fill)
               /\ cost % shares = 0 => Invested(new) = Invested(old) + NetPaid(fill)
<1> DEFINE shares == old.quantity + fill.quantity
           held   == old.avgPrice * old.quantity
           paid   == fill.price * fill.quantity
           cost   == held + paid
           new    == AfterBuy(old, fill)
<1>1. /\ old.quantity \in Nat /\ old.avgPrice \in Int /\ old.realizedPnl \in Int
      /\ fill.quantity \in Nat \ {0} /\ fill.price \in Int
    BY DEF Fills, Position
<1>2. held \in Int /\ paid \in Int /\ shares \in Nat \ {0}
    BY <1>1
<1>3. /\ held = old.quantity * old.avgPrice /\ NetPaid(fill) = paid
      /\ SharesIn(fill) = fill.quantity
    BY <1>1 DEF NetPaid, SharesIn
<1>4. new = [old EXCEPT !.quantity = shares, !.avgPrice = cost \div shares,
                        !.currentPrice = fill.price, !.status = "open"]
    BY DEF AfterBuy
<1>5. /\ new.quantity = shares /\ new.avgPrice = cost \div shares
      /\ new.realizedPnl = old.realizedPnl
    BY <1>4 DEF Position
<1> HIDE DEF new, held, paid
<1>6. cost \in Int
    BY <1>2
<1>7. ASSUME cost % shares = 0 PROVE shares * (cost \div shares) = cost
  <2> HIDE DEF cost, shares
  <2> QED
      BY <1>2, <1>6, <1>7
<1>8. ASSUME cost % shares = 0 PROVE Invested(new) = Invested(old) + NetPaid(fill)
    BY <1>1, <1>2, <1>3, <1>5, <1>7, <1>8 DEF Invested
<1> QED
    BY <1>3, <1>5, <1>8 DEF new, held, paid

LEMMA SaleReturns ==
    ASSUME NEW old \in Position, NEW fill \in Fills, fill.side = "sell"
    PROVE  LET new == AfterSell(old, fill)
           IN  /\ new.quantity = old.quantity + SharesIn(fill)
               /\ Invested(new) = Invested(old) + NetPaid(fill)
<1> DEFINE rest == old.quantity - fill.quantity
           realized == (fill.price - old.avgPrice) * fill.quantity - fill.fee - fill.tax
           new == AfterSell(old, fill)
<1>1. /\ old.quantity \in Nat /\ old.avgPrice \in Int /\ old.realizedPnl \in Int
      /\ fill.quantity \in Nat \ {0} /\ fill.price \in Int
      /\ fill.fee \in Int /\ fill.tax \in Int
    BY DEF Fills, Position
<1>2. /\ new.quantity = rest
      /\ new.avgPrice = IF rest = 0 THEN 0 ELSE old.avgPrice
      /\ new.realizedPnl = old.realizedPnl + realized
    BY DEF AfterSell
<1>3. /\ SharesIn(fill) = -fill.quantity
      /\ NetPaid(fill) = fill.fee + fill.tax - fill.quantity * fill.price
    BY DEF SharesIn, NetPaid
<1>4. rest * new.avgPrice = old.quantity * old.avgPrice - fill.quantity * old.avgPrice
  <2>1. CASE rest = 0
    <3>1. old.quantity = fill.quantity
        BY <1>1, <2>1
    <3>2. fill.quantity * old.avgPrice \in Int
        BY <1>1
    <3> QED
        BY <1>1, <1>2, <2>1, <3>1, <3>2
  <2>2. CASE rest # 0
      BY <1>1, <1>2, <2>2
  <2> QED
      BY <2>1, <2>2
<1>5. realized = fill.quantity * fill.price - fill.quantity * old.avgPrice - fill.fee - fill.tax
    BY <1>1
<1>6. /\ fill.quantity * fill.price \in Int /\ fill.quantity * old.avgPrice \in Int
      /\ old.quantity * old.avgPrice \in Int
    BY <1>1
<1> HIDE DEF new, realized
<1>7. Invested(new) = Invested(old) + NetPaid(fill)
  <2>1. Invested(new) = rest * new.avgPrice - (old.realizedPnl + realized)
      BY <1>2 DEF Invested
  <2>2. Invested(old) = old.quantity * old.avgPrice - old.realizedPnl
      BY DEF Invested
  <2> HIDE DEF rest
  <2> QED
      BY <1>1, <1>3, <1>4, <1>5, <1>6, <2>1, <2>2
<1> QED
    BY <1>1, <1>2, <1>3, <1>7 DEF new
-----------------------------------------------------------------------------
\* The two halves of BookFollowsFills.
SharesFollow == \A t \in Tickers : positions[t].quantity = SharesTraded(t)
CostsFollow  == \A t \in Tickers : Invested(positions[t]) = NetPaidFor(t)

LEMMA BookHalves == BookFollowsFills <=> SharesFollow /\ CostsFollow
BY DEF BookFollowsFills, SharesFollow, CostsFollow, Invested

LEMMA InitFollows == Init => SharesFollow /\ CostsFollow
<1> SUFFICES ASSUME Init PROVE SharesFollow /\ CostsFollow
    OBVIOUS
<1>1. \A t \in Tickers : positions[t].quantity = 0 /\ Invested(positions[t]) = 0
    BY DEF Init, EmptyPosition, Invested
<1>2. \A t \in Tickers : SharesTraded(t) = 0 /\ NetPaidFor(t) = 0
    BY EmptyLog DEF Init
<1> QED
    BY <1>1, <1>2 DEF SharesFollow, CostsFollow

\* The booked fill: log and book move by the same shares, and by the same cost.
LEMMA FillFollowed ==
    ASSUME BrokerInv, NEW id \in Ids, NEW bar \in QuotedBars, ProcessBar(id, bar)
    PROVE  /\ SharesFollow => SharesFollow'
           /\ CostsFollow /\ AveragesExact => CostsFollow'
<1> DEFINE fill == FillOrder(orders[id].request, bar)
<1>1. /\ id \in DOMAIN orders /\ calls < MaxCalls /\ fill \in Fills
      /\ positions \in Books /\ positions' = ApplyFill(positions, fill)
      /\ fills' = Append(fills, [id |-> id, fill |-> fill])
      /\ LedgerInv
    BY ProcessBarFacts DEF BrokerInv, KeyInv, LedgerInv, ProcessBar
<1>2. AveragesExact /\ fill.side = "buy" =>
        LET old == positions[fill.ticker]
        IN  (old.avgPrice * old.quantity + fill.price * fill.quantity)
              % (old.quantity + fill.quantity) = 0
    BY <1>1 DEF AveragesExact
<1> HIDE DEF fill
<1>3. fill.ticker \in Tickers /\ fill.side \in {"buy", "sell"}
    BY <1>1 DEF Fills, Sides
<1> DEFINE k == fill.ticker
           old == positions[k]
           new == positions'[k]
<1>4. /\ old \in Position
      /\ \A t \in Tickers \ {k} : positions'[t] = positions[t]
      /\ new = IF fill.side = "buy" THEN AfterBuy(old, fill) ELSE AfterSell(old, fill)
    BY <1>1, <1>3 DEF ApplyFill, Books
<1>5. /\ new.quantity = old.quantity + SharesIn(fill)
      /\ AveragesExact => Invested(new) = Invested(old) + NetPaid(fill)
  <2>1. CASE fill.side = "buy"
      BY <1>1, <1>2, <1>4, <2>1, BuyCosts
  <2>2. CASE fill.side = "sell"
    <3>1. new = AfterSell(old, fill)
        BY <1>4, <2>2
    <3> QED
        BY <1>1, <1>4, <2>2, <3>1, SaleReturns
  <2> QED
      BY <1>3, <2>1, <2>2
<1>6. /\ \A t \in Tickers : SharesTraded(t) \in Int /\ NetPaidFor(t) \in Int
      /\ SharesIn(fill) \in Int /\ NetPaid(fill) \in Int
    BY <1>1, LogSumTypes, FillAmounts
<1>7. \A t \in Tickers :
         /\ SharesTraded(t)' = SharesTraded(t) + (IF k = t THEN SharesIn(fill) ELSE 0)
         /\ NetPaidFor(t)' = NetPaidFor(t) + (IF k = t THEN NetPaid(fill) ELSE 0)
    BY <1>1, LogSums
<1>8. ASSUME SharesFollow PROVE SharesFollow'
  <2> SUFFICES ASSUME NEW t \in Tickers PROVE positions'[t].quantity = SharesTraded(t)'
      BY DEF SharesFollow
  <2>1. CASE t = k
      BY <1>5, <1>7, <1>8, <2>1 DEF SharesFollow
  <2>2. CASE t # k
      BY <1>4, <1>6, <1>7, <1>8, <2>2 DEF SharesFollow
  <2> QED
      BY <2>1, <2>2
<1>9. ASSUME CostsFollow, AveragesExact PROVE CostsFollow'
  <2> SUFFICES ASSUME NEW t \in Tickers PROVE Invested(positions'[t]) = NetPaidFor(t)'
      BY DEF CostsFollow
  <2>1. CASE t = k
      BY <1>5, <1>7, <1>9, <2>1 DEF CostsFollow
  <2>2. CASE t # k
    <3>1. Invested(positions'[t]) = Invested(positions[t])
        BY <1>4, <2>2
    <3> QED
        BY <1>6, <1>7, <1>9, <2>2, <3>1 DEF CostsFollow
  <2> QED
      BY <2>1, <2>2
<1> QED
    BY <1>8, <1>9

\* Every other step leaves the book and the log alone, failed calls included.
LEMMA OthersFollow ==
    ASSUME [Next]_vars, \A id \in Ids, bar \in QuotedBars : ~ ProcessBar(id, bar)
    PROVE  /\ positions' = positions /\ fills' = fills
           /\ SharesFollow' <=> SharesFollow
           /\ CostsFollow' <=> CostsFollow
<1>1. positions' = positions /\ fills' = fills
    BY DEF Next, vars, Submit, Cancel, ProcessBarFails
<1>2. \A t \in Tickers : SharesTraded(t)' = SharesTraded(t) /\ NetPaidFor(t)' = NetPaidFor(t)
    BY <1>1 DEF SharesTraded, NetPaidFor
<1> QED
    BY <1>1, <1>2 DEF SharesFollow, CostsFollow

\* The shares of the book are those of the recorded fills, for any client and
\* any prices, through refused sales, second fills and resubmissions.
THEOREM SharesFollowFills == Spec => []SharesFollow
<1>1. BrokerInv /\ SharesFollow /\ [Next]_vars => SharesFollow'
    BY FillFollowed, OthersFollow
<1> QED
    BY <1>1, InitBroker, InitFollows, BrokerKept, PTL DEF Spec

\* So are their costs, less what was realised, as long as no average has to be
\* rounded.
THEOREM BookIsTheLog == Spec /\ []AveragesExact => []BookFollowsFills
<1>1. BrokerInv /\ SharesFollow /\ CostsFollow /\ AveragesExact /\ [Next]_vars
        => SharesFollow' /\ CostsFollow'
    BY FillFollowed, OthersFollow
<1>2. SharesFollow /\ CostsFollow => BookFollowsFills
    BY BookHalves
<1> QED
    BY <1>1, <1>2, InitBroker, InitFollows, BrokerKept, PTL DEF Spec

\* For a careful client no call fails half-way, and the cash is that of the
\* log: the initial cash, less all purchases, plus all sales, less all costs.
THEOREM CashIsTheLog == CarefulSpec => []CashFollowsFills
<1>1. Init => CashFollowsFills
  <2>1. Init => AllReceived = 0
      BY EmptyLog DEF Init
  <2> QED
      BY <2>1, BrokerAssumption DEF Init, CashFollowsFills
<1>2. BrokerInv /\ [CarefulNext]_vars => BrokerInv'
    BY CarefulIsNext, BrokerKept
<1>3. BrokerInv /\ CashFollowsFills /\ [CarefulNext]_vars => CashFollowsFills'
  <2> SUFFICES ASSUME BrokerInv, CashFollowsFills, [CarefulNext]_vars
               PROVE  CashFollowsFills'
      OBVIOUS
  <2>1. ASSUME NEW id \in Ids, NEW bar \in QuotedBars, ProcessBar(id, bar)
        PROVE  CashFollowsFills'
    <3> DEFINE fill == FillOrder(orders[id].request, bar)
    <3>1. /\ fill \in Fills /\ cash' = cash + CashEffect(fill)
          /\ fills' = Append(fills, [id |-> id, fill |-> fill]) /\ LedgerInv
        BY <2>1, ProcessBarFacts DEF BrokerInv, KeyInv, ProcessBar
    <3> HIDE DEF fill
    <3>2. AllReceived' = AllReceived + Received(fill)
        BY <3>1, LogSums
    <3>3. CashEffect(fill) = Received(fill)
      <4>1. /\ fill.quantity \in Int /\ fill.price \in Int
            /\ fill.fee \in Int /\ fill.tax \in Int
          BY <3>1 DEF Fills
      <4>2. fill.quantity * fill.price \in Int
            /\ -fill.quantity * fill.price = -(fill.quantity * fill.price)
          BY <4>1
      <4> QED
          BY <4>1, <4>2 DEF CashEffect, Received
    <3>4. AllReceived \in Int /\ Received(fill) \in Int
        BY <3>1, LogSumTypes, FillAmounts
    <3> QED
        BY <3>1, <3>2, <3>3, <3>4, BrokerAssumption DEF CashFollowsFills
  <2>2. ASSUME UNCHANGED <<cash, fills>> PROVE CashFollowsFills'
      BY <2>2 DEF CashFollowsFills, AllReceived
  <2>3. ASSUME NEW r \in CarefulRequests, Submit(r) PROVE UNCHANGED <<cash, fills>>
      BY <2>3 DEF Submit
  <2>4. ASSUME NEW id \in Ids, Cancel(id) PROVE UNCHANGED <<cash, fills>>
      BY <2>4 DEF Cancel
  <2> QED
      BY <2>1, <2>2, <2>3, <2>4 DEF CarefulNext, vars
<1> QED
    BY <1>1, <1>2, <1>3, InitBroker, PTL DEF CarefulSpec
-----------------------------------------------------------------------------
\* The log names orders only.
LogOfOrders == \A n \in DOMAIN fills : fills[n].id \in DOMAIN orders

OnceInv == CarefulInv /\ BrokerInv /\ LogOfOrders /\ FilledOnce

\* A step that books nothing, and changes what is filled of no order.
LEMMA NothingFilled ==
    ASSUME LogOfOrders, FilledOnce, fills' = fills,
           DOMAIN orders \subseteq DOMAIN orders',
           \A id \in DOMAIN orders :
              orders'[id].status = "filled" <=> orders[id].status = "filled",
           \A id \in DOMAIN orders' \ DOMAIN orders : orders'[id].status # "filled"
    PROVE  LogOfOrders' /\ FilledOnce'
<1>1. LogOfOrders'
    BY DEF LogOfOrders
<1>2. ASSUME NEW id \in DOMAIN orders'
      PROVE  Cardinality({n \in DOMAIN fills' : fills'[n].id = id})
                = IF orders'[id].status = "filled" THEN 1 ELSE 0
  <2>1. CASE id \in DOMAIN orders
      BY <2>1 DEF FilledOnce
  <2>2. CASE id \notin DOMAIN orders
    <3>1. {n \in DOMAIN fills : fills[n].id = id} = {}
        BY <2>2 DEF LogOfOrders
    <3> QED
        BY <1>2, <2>2, <3>1, FS_EmptySet
  <2> QED
      BY <2>1, <2>2
<1> QED
    BY <1>1, <1>2 DEF FilledOnce

\* A bar that is fed to an open order: its first fill.
LEMMA FilledFirst ==
    ASSUME OnceInv, NEW id \in Ids, NEW bar \in QuotedBars, MayProcess(id), ProcessBar(id, bar)
    PROVE  LogOfOrders' /\ FilledOnce'
<1> DEFINE fill == FillOrder(orders[id].request, bar)
           n == Len(fills) + 1
<1>1. /\ id \in DOMAIN orders /\ fill \in Fills /\ LedgerInv /\ OrdersTyped
      /\ fills' = Append(fills, [id |-> id, fill |-> fill])
      /\ orders' = [orders EXCEPT ![id].status = "filled"]
    BY ProcessBarFacts DEF OnceInv, BrokerInv, KeyInv, ProcessBar
<1> HIDE DEF fill
<1>2. /\ DOMAIN orders' = DOMAIN orders /\ orders'[id].status = "filled"
      /\ \A z \in DOMAIN orders \ {id} : orders'[z] = orders[z]
    BY <1>1, StatusEntry DEF Statuses, Terminal
<1>3. /\ n \notin DOMAIN fills /\ DOMAIN fills' = DOMAIN fills \cup {n}
      /\ fills'[n].id = id /\ \A i \in DOMAIN fills : fills'[i] = fills[i]
  <2>1. /\ Len(fills) \in Nat /\ DOMAIN fills = 1 .. Len(fills) /\ DOMAIN fills' = 1 .. n
        /\ fills'[n].id = id /\ \A i \in 1 .. Len(fills) : fills'[i] = fills[i]
      BY <1>1, LogGrows
  <2>2. n \notin 1 .. Len(fills) /\ 1 .. n = 1 .. Len(fills) \cup {n}
      BY <2>1
  <2> QED
      BY <2>1, <2>2
<1> HIDE DEF n
<1>4. LogOfOrders'
    BY <1>1, <1>2, <1>3 DEF OnceInv, LogOfOrders
<1>5. orders[id].status # "filled"
    BY DEF MayProcess, Terminal
<1>6. {i \in DOMAIN fills' : fills'[i].id = id} = {n}
  <2>1. IsFiniteSet({i \in DOMAIN fills : fills[i].id = id})
    <3>1. Len(fills) \in Nat /\ DOMAIN fills = 1 .. Len(fills)
        BY <1>1, LogGrows
    <3>2. IsFiniteSet(DOMAIN fills)
        BY <3>1, FS_Interval
    <3> QED
        BY <3>2, FS_Subset
  <2>2. Cardinality({i \in DOMAIN fills : fills[i].id = id}) = 0
      BY <1>1, <1>5 DEF OnceInv, FilledOnce
  <2>3. {i \in DOMAIN fills : fills[i].id = id} = {}
      BY <2>1, <2>2, FS_EmptySet
  <2> QED
      BY <1>3, <2>3
<1>7. ASSUME NEW z \in DOMAIN orders \ {id}
      PROVE  {i \in DOMAIN fills' : fills'[i].id = z} = {i \in DOMAIN fills : fills[i].id = z}
    BY <1>3
<1>8. FilledOnce'
  <2> SUFFICES ASSUME NEW z \in DOMAIN orders'
               PROVE  Cardinality({i \in DOMAIN fills' : fills'[i].id = z})
                        = IF orders'[z].status = "filled" THEN 1 ELSE 0
      BY DEF FilledOnce
  <2>1. CASE z = id
      BY <1>2, <1>6, <2>1, FS_Singleton
  <2>2. CASE z # id
      BY <1>2, <1>7, <2>2 DEF OnceInv, FilledOnce
  <2> QED
      BY <2>1, <2>2
<1> QED
    BY <1>4, <1>8

\* A new order of a careful client has an id that no order has.
LEMMA SubmittedIsNew ==
    ASSUME CarefulInv, NEW r \in CarefulRequests, ~ AlreadySubmitted(r)
    PROVE  r.id \notin DOMAIN orders
<1>1. r.key = r.id /\ r.key # NoKey /\ r.key \notin DOMAIN index
    BY DEF CarefulRequests, AlreadySubmitted
<1> QED
    BY <1>1 DEF CarefulInv, Keyed, KeyInv, KeysIndexed, CarefulRequests

\* For a careful client one submission is one execution: in every state, an
\* order has one fill if it is filled and none if it is not.
THEOREM OrdersFillOnce == CarefulSpec => []FilledOnce
<1>1. Init => OnceInv
  <2> SUFFICES ASSUME Init PROVE OnceInv
      OBVIOUS
  <2>1. DOMAIN orders = {} /\ DOMAIN fills = {}
      BY DEF Init
  <2> QED
      BY <2>1, InitKeys, InitBroker DEF OnceInv, CarefulInv, Keyed, LogOfOrders, FilledOnce
<1>2. OnceInv /\ [CarefulNext]_vars => OnceInv'
  <2> SUFFICES ASSUME OnceInv, [CarefulNext]_vars PROVE OnceInv'
      OBVIOUS
  <2>0. CarefulInv /\ BrokerInv /\ OrdersTyped /\ LogOfOrders /\ FilledOnce
      BY DEF OnceInv, BrokerInv, KeyInv
  <2>1. CarefulInv' /\ BrokerInv'
      BY <2>0, CarefulKept, CarefulIsNext, BrokerKept
  <2>2. ASSUME NEW r \in CarefulRequests, Submit(r) PROVE LogOfOrders' /\ FilledOnce'
    <3>1. CASE AlreadySubmitted(r)
        BY <2>0, <2>2, <3>1, NothingFilled DEF Submit
    <3>2. CASE ~ AlreadySubmitted(r)
      <4>1. r \in Requests /\ r.id \notin DOMAIN orders
          BY <2>0, <3>2, SubmittedIsNew DEF CarefulRequests
      <4>2. /\ DOMAIN orders' = DOMAIN orders \cup {r.id}
            /\ \A z \in DOMAIN orders \ {r.id} : orders'[z] = orders[z]
          BY <2>0, <2>2, <3>2, <4>1, SubmitEntry
      <4>3. orders'[r.id].status = "submitted" /\ fills' = fills
          BY <2>2, <3>2 DEF Submit, Put
      <4> QED
          BY <2>0, <4>1, <4>2, <4>3, NothingFilled
    <3> QED
        BY <3>1, <3>2
  <2>3. ASSUME NEW id \in Ids, Cancel(id) PROVE LogOfOrders' /\ FilledOnce'
    <3>1. /\ id \in DOMAIN orders /\ orders[id].status # "filled" /\ fills' = fills
          /\ DOMAIN orders' = DOMAIN orders /\ orders'[id].status = "canceled"
          /\ \A z \in DOMAIN orders \ {id} : orders'[z] = orders[z]
        BY <2>0, <2>3, StatusEntry DEF Cancel, Statuses, Terminal
    <3> QED
        BY <2>0, <3>1, NothingFilled
  <2>4. ASSUME NEW id \in Ids, NEW bar \in QuotedBars, MayProcess(id), ProcessBar(id, bar)
        PROVE  LogOfOrders' /\ FilledOnce'
      BY <2>4, FilledFirst
  <2>5. ASSUME UNCHANGED vars PROVE LogOfOrders' /\ FilledOnce'
      BY <2>0, <2>5, NothingFilled DEF vars
  <2>6. LogOfOrders' /\ FilledOnce'
      BY <2>2, <2>3, <2>4, <2>5 DEF CarefulNext
  <2> QED
      BY <2>1, <2>6 DEF OnceInv
<1>3. OnceInv => FilledOnce
    BY DEF OnceInv
<1> QED
    BY <1>1, <1>2, <1>3, PTL DEF CarefulSpec
=============================================================================
