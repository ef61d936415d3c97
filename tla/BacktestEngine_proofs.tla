------------------------ MODULE BacktestEngine_proofs ------------------------
(***************************************************************************)
(* Invariance proofs for BacktestEngine.  The lemmas about what an order   *)
(* is for come first, then one lemma per action that changes the ledgers,  *)
(* then the invariants.                                                    *)
(***************************************************************************)
EXTENDS BacktestEngine, MarketSimulator_proofs

LEMMA MethodNotionalType ==
    ASSUME NEW equity \in Int
    PROVE  MethodNotional(equity) \in Int
<1>1. equity * FixedFraction \in Int /\ FixedNotional * Unit \in Int /\ equity * Unit \in Int
    BY LimitAssumption, UnitAssumption
<1>2. (equity * Unit) \div MaxPositions \in Int
    BY <1>1, LimitAssumption
<1> QED
    BY <1>1, <1>2, LimitAssumption DEF MethodNotional

LEMMA CalculateQuantityType ==
    ASSUME NEW equity \in Int, NEW money \in Int, NEW price \in Nat \ {0}
    PROVE  CalculateQuantity(equity, money, price) \in Int
<1> DEFINE target == Min({MethodNotional(equity), equity * MaxPositionWeight, money * Unit})
<1>1. equity * MaxPositionWeight \in Int /\ money * Unit \in Int
    BY LimitAssumption, UnitAssumption
<1>2. target \in Int
    BY <1>1, MethodNotionalType, MinOfThree
<1>3. Unit * price \in Nat \ {0}
    BY UnitAssumption
<1> HIDE DEF target
<1>4. target \div (Unit * price) \in Int
    BY <1>2, <1>3
<1> QED
    BY <1>4 DEF CalculateQuantity, target

\* What an allowed buy order is sure of.
LEMMA CheckBuyBounds ==
    ASSUME NEW quantity \in Int, NEW price \in Nat \ {0}, NEW equity \in Int,
           NEW exposure \in Int, NEW open \in Nat, NEW count \in Nat
    PROVE  LET q == CheckBuy(quantity, price, equity, exposure, open, count)
           IN  /\ q \in Nat
               /\ q > 0 => q <= quantity /\ open < MaxPositions /\ count < MaxDailyOrders
<1> DEFINE allowed == AllowedNotional(equity, exposure)
<1> DEFINE shares == allowed \div (Unit * price)
<1> DEFINE adjusted == Min({quantity, shares})
<1>1. /\ equity * MaxPositionWeight \in Int
      /\ equity * MaxTotalExposure - Unit * exposure \in Int
    BY LimitAssumption, UnitAssumption
<1> DEFINE least == Min({equity * MaxPositionWeight, equity * MaxTotalExposure - Unit * exposure})
<1>2. least \in Int
    BY <1>1, MinOfTwo
<1>3. allowed \in Int
  <2>1. allowed = Max({0, least})
      BY DEF AllowedNotional
  <2>2. 0 \in Int
      OBVIOUS
  <2> HIDE DEF allowed, least
  <2> QED
      BY <1>2, <2>1, <2>2, MaxOfTwo, Zenon
<1>4. Unit * price \in Nat \ {0}
    BY UnitAssumption
<1> HIDE DEF allowed
<1>5. shares \in Int
    BY <1>3, <1>4
<1> HIDE DEF shares
<1>6. adjusted \in Int /\ adjusted <= quantity
    BY <1>5, MinOfTwo
<1>7. CheckBuy(quantity, price, equity, exposure, open, count)
        = IF /\ count < MaxDailyOrders
             /\ quantity > 0
             /\ open < MaxPositions
             /\ adjusted > 0
             /\ adjusted * price >= MinOrderNotional
          THEN adjusted ELSE 0
    BY DEF CheckBuy, adjusted, shares, allowed
<1> HIDE DEF adjusted
<1> QED
    BY <1>6, <1>7

LEMMA CheckSellBounds ==
    ASSUME NEW quantity \in Nat, NEW count \in Nat
    PROVE  LET q == CheckSell(quantity, count)
           IN  /\ q \in Nat
               /\ q > 0 => q = quantity /\ count < MaxDailyOrders
    BY LimitAssumption DEF CheckSell
-----------------------------------------------------------------------------
\* The open tickers are finitely many, and one order opens at most one.
LEMMA OpenFinite ==
    ASSUME NEW book
    PROVE  /\ IsFiniteSet(OpenPositions(book))
           /\ Cardinality(OpenPositions(book)) \in Nat
<1>1. IsFiniteSet(Tickers)
    BY FS_Interval, TickerAssumption DEF Tickers
<1>2. OpenPositions(book) \subseteq Tickers
    BY DEF OpenPositions
<1>3. IsFiniteSet(OpenPositions(book))
    BY <1>1, <1>2, FS_Subset
<1> QED
    BY <1>3, FS_CardinalityType

\* The quantity of a buy order, whatever the state: it leaves room for the
\* position and the order, and cash covers it at the slipped open.
LEMMA BuyQuantityBounds ==
    ASSUME TypeOK, NEW t \in DOMAIN bars
    PROVE  LET q == BuyQuantity(t)
           IN  /\ q \in Nat
               /\ q > 0 => /\ Cardinality(OpenPositions(positions)) < MaxPositions
                           /\ dailyOrders < MaxDailyOrders
                           /\ CashNeeded(q, FillPrice("buy", bars[t].open)) <= cash
<1> DEFINE price == bars[t].open
<1> DEFINE exposure == PositionsValue(positions)
<1> DEFINE equity == cash + exposure
<1> DEFINE desired == CalculateQuantity(equity, cash, price)
<1> DEFINE affordable == AffordableQuantity(cash, price, desired)
<1> DEFINE open == Cardinality(OpenPositions(positions))
<1>1. price \in Nat \ {0}
    BY EngineAssumption DEF TypeOK, Bars
<1>2. exposure \in Int /\ cash \in Int
    BY ValueType DEF TypeOK, Books
<1> HIDE DEF price, exposure
<1>3. equity \in Int
    BY <1>2
<1> HIDE DEF equity
<1>4. desired \in Int
    BY <1>1, <1>2, <1>3, CalculateQuantityType
<1> HIDE DEF desired
<1>5. /\ affordable \in Nat
      /\ affordable > 0 => CashNeeded(affordable, FillPrice("buy", price)) <= cash
    BY <1>1, <1>2, <1>4, AffordableIsCovered
<1> HIDE DEF affordable
<1>6. open \in Nat /\ dailyOrders \in Nat
    BY OpenFinite DEF TypeOK
<1> HIDE DEF open
<1> DEFINE q == CheckBuy(affordable, price, equity, exposure, open, dailyOrders)
<1>7. /\ q \in Nat
      /\ q > 0 => q <= affordable /\ open < MaxPositions /\ dailyOrders < MaxDailyOrders
  <2>1. affordable \in Int
      BY <1>5
  <2> QED
      BY <1>1, <1>2, <1>3, <1>6, <2>1, CheckBuyBounds, Zenon
<1>8. BuyQuantity(t) = q
    BY DEF BuyQuantity, price, exposure, equity, desired, affordable, open
<1> HIDE DEF q
<1>9. ASSUME q > 0 PROVE CashNeeded(q, FillPrice("buy", price)) <= cash
  <2> DEFINE estimated == FillPrice("buy", price)
  <2>1. estimated \in Nat
      BY <1>1, BuyPricePositive
  <2> HIDE DEF estimated
  <2>2. q <= affordable /\ affordable > 0
      BY <1>5, <1>7, <1>9
  <2>3. CashNeeded(q, estimated) <= CashNeeded(affordable, estimated)
      BY <2>1, <2>2, <1>5, <1>7, CashNeededMonotone
  <2>4. /\ CashNeeded(q, estimated) \in Int /\ CashNeeded(affordable, estimated) \in Int
    <3>1. Fee(q, estimated) \in Nat /\ Fee(affordable, estimated) \in Nat
      <4>1. estimated \in Int
          BY <2>1
      <4> QED
          BY <4>1, <1>5, <1>7, FeeInt, Zenon
    <3>2. q * estimated \in Int /\ affordable * estimated \in Int
        BY <2>1, <1>5, <1>7
    <3> QED
        BY <3>1, <3>2 DEF CashNeeded
  <2>5. CashNeeded(affordable, estimated) <= cash
      BY <1>5, <2>2 DEF estimated
  <2>6. CashNeeded(q, estimated) <= cash
      BY <2>3, <2>4, <2>5, <1>2
  <2> QED
      BY <2>6 DEF estimated
<1> QED
    BY <1>7, <1>8, <1>9 DEF price, open

LEMMA BarType ==
    ASSUME NEW bar \in Bars
    PROVE  /\ bar.open \in Nat \ {0} /\ bar.close \in Nat \ {0}
           /\ bar.open \in Int /\ bar.close \in Int
<1>1. bar.open \in Prices /\ bar.close \in Prices
    BY DEF Bars
<1>2. \A p \in Prices : p \in Nat \ {0} /\ p \in Int
    BY EngineAssumption
<1> QED
    BY <1>1, <1>2

\* The fill of an order for a ticker that trades today.
LEMMA FillFacts ==
    ASSUME TypeOK, NEW t \in DOMAIN bars, NEW side \in Sides, NEW q \in Nat
    PROVE  LET fill == FillOrder([ticker |-> t, side |-> side, quantity |-> q], bars[t])
           IN  /\ fill.side = side /\ fill.ticker = t /\ fill.quantity = q
               /\ fill.price = FillPrice(side, PriceFromBar(bars[t]))
               /\ fill.fee = Fee(q, fill.price) /\ fill.tax = Tax(side, q, fill.price)
               /\ fill.price \in Int /\ fill.fee \in Nat /\ fill.tax \in Int
               /\ side = "buy" => fill.price \in Nat \ {0} /\ fill.tax = 0
<1> DEFINE base == PriceFromBar(bars[t])
<1> DEFINE price == FillPrice(side, base)
<1>1. base \in Nat \ {0}
    BY EngineAssumption DEF TypeOK, Bars, PriceFromBar
<1> HIDE DEF base
<1>2. price \in Int /\ (side = "buy" => price \in Nat \ {0})
    BY <1>1, FillPriceType, BuyPricePositive
<1> HIDE DEF price
<1>3. Fee(q, price) \in Nat /\ Tax(side, q, price) \in Int
    BY <1>2, FeeInt, TaxInt
<1>4. side = "buy" => Tax(side, q, price) = 0
    BY DEF Tax
<1> DEFINE fill == FillOrder([ticker |-> t, side |-> side, quantity |-> q], bars[t])
<1>5. fill = [ticker |-> t, side |-> side, quantity |-> q, price |-> price,
              fee |-> Fee(q, price), tax |-> Tax(side, q, price)]
    BY DEF FillOrder, price, base
<1> HIDE DEF fill
<1>6. /\ fill.side = side /\ fill.ticker = t /\ fill.quantity = q /\ fill.price = price
      /\ fill.fee = Fee(q, price) /\ fill.tax = Tax(side, q, price)
    BY <1>5
<1> QED
    BY <1>2, <1>3, <1>4, <1>6 DEF fill, price, base
-----------------------------------------------------------------------------
\* The inductive invariant: the properties the runs check, and what they
\* rest on: status and quantity agree, the ordered tickers are behind the
\* loop, and the loop only runs while a date is left.
IInv ==
    /\ TypeOK
    /\ WellFormed(positions)
    /\ phase = "orders" => day < NumDays /\ ordered \subseteq DOMAIN bars \ todo
    /\ PositionLimit
    /\ DailyOrderLimit
    /\ BookIdentity
    /\ ExitCompleteness

LEMMA InitIInv == Init => IInv
<1> SUFFICES ASSUME Init PROVE IInv
    OBVIOUS
<1> USE DEF Init
<1>1. positions \in Books /\ \A t \in Tickers : positions[t] = EmptyPosition
    BY DEF Books, Position, EmptyPosition
<1>2. TypeOK
  <2>1. bars \in [{} -> Bars] /\ {} \in SUBSET Tickers
      BY DEF NoBars
  <2> QED
      BY <1>1, <2>1, EngineAssumption DEF TypeOK, Books
<1>3. WellFormed(positions)
    BY <1>1 DEF WellFormed, EmptyPosition
<1>4. PositionLimit
  <2>1. OpenPositions(positions) = {}
      BY <1>1 DEF OpenPositions, IsOpen, EmptyPosition
  <2> QED
      BY <2>1, FS_EmptySet, LimitAssumption DEF PositionLimit
<1>5. DailyOrderLimit
    BY LimitAssumption DEF DailyOrderLimit
<1>6. BookIdentity
  <2> DEFINE cost == [t \in Tickers |-> positions[t].quantity * positions[t].avgPrice]
  <2> DEFINE pnl == [t \in Tickers |-> positions[t].realizedPnl]
  <2>1. /\ cost \in [Tickers -> Int] /\ pnl \in [Tickers -> Int]
        /\ \A t \in Tickers : cost[t] = 0 /\ pnl[t] = 0
      BY <1>1 DEF EmptyPosition
  <2>2. BookCost(positions) = 0 /\ RealizedPnl(positions) = 0
      BY <2>1, TotalZero DEF BookCost, RealizedPnl
  <2> QED
      BY <2>2, EngineAssumption DEF BookIdentity
<1>7. ExitCompleteness
    BY DEF ExitCompleteness
<1> QED
    BY <1>2, <1>3, <1>4, <1>5, <1>6, <1>7 DEF IInv

\* The morning mark: new rows and prices, the same positions.
LEMMA OpenDayFacts ==
    ASSUME TypeOK, WellFormed(positions), OpenDay
    PROVE  /\ \E traded \in SUBSET Tickers : bars' \in [traded -> Bars] /\ todo' = DOMAIN bars'
           /\ positions' \in Books /\ WellFormed(positions')
           /\ OpenPositions(positions') = OpenPositions(positions)
           /\ BookCost(positions') = BookCost(positions)
           /\ RealizedPnl(positions') = RealizedPnl(positions)
           /\ \A t \in Tickers : /\ positions'[t].quantity = positions[t].quantity
                                 /\ positions'[t].avgPrice = positions[t].avgPrice
           /\ (\A t \in OpenPositions(positions) : positions[t].currentPrice > 0)
                => \A t \in OpenPositions(positions') : positions'[t].currentPrice > 0
<1>1. PICK traded \in (SUBSET Tickers) \ {{}} : \E dayRows \in [traded -> Bars] :
          /\ bars' = dayRows
          /\ todo' = traded
          /\ positions' = MarkToMarket(positions, [t \in traded |-> dayRows[t].open])
    BY DEF OpenDay
<1>2. PICK dayRows \in [traded -> Bars] :
          /\ bars' = dayRows
          /\ todo' = traded
          /\ positions' = MarkToMarket(positions, [t \in traded |-> dayRows[t].open])
    BY <1>1
<1> DEFINE opens == [t \in traded |-> dayRows[t].open]
<1>3. /\ \A t \in DOMAIN opens : opens[t] \in Int /\ opens[t] > 0
      /\ positions \in Books /\ positions' = MarkToMarket(positions, opens)
  <2>1. \A t \in traded : dayRows[t].open \in Int /\ dayRows[t].open > 0
    <3> TAKE t \in traded
    <3>1. dayRows[t] \in Bars
        OBVIOUS
    <3> QED
        BY <3>1, BarType
  <2> QED
      BY <1>2, <2>1 DEF TypeOK, Books
<1> HIDE DEF opens
<1>4. \E rows \in SUBSET Tickers : bars' \in [rows -> Bars] /\ todo' = DOMAIN bars'
    BY <1>2
<1>5. /\ positions' \in Books /\ WellFormed(positions')
      /\ OpenPositions(positions') = OpenPositions(positions)
      /\ BookCost(positions') = BookCost(positions)
      /\ RealizedPnl(positions') = RealizedPnl(positions)
    BY <1>3, MarkKeepsBook, MarkKeepsShape, MarkKeepsOpen, MarkKeepsCost
<1>6. \A t \in Tickers : /\ positions'[t].quantity = positions[t].quantity
                         /\ positions'[t].avgPrice = positions[t].avgPrice
    BY <1>3, MarkKeepsBook
<1>7. (\A t \in OpenPositions(positions) : positions[t].currentPrice > 0)
        => \A t \in OpenPositions(positions') : positions'[t].currentPrice > 0
    BY <1>3, MarkKeepsPositive
<1> QED
    BY <1>4, <1>5, <1>6, <1>7

\* The new date keeps the invariant and starts the order count over.
LEMMA OpenDayKeeps ==
    ASSUME IInv, OpenDay
    PROVE  IInv'
<1>1. TypeOK /\ WellFormed(positions)
    BY DEF IInv
<1>2. PICK traded \in SUBSET Tickers : bars' \in [traded -> Bars] /\ todo' = DOMAIN bars'
    BY <1>1, OpenDayFacts
<1>3. /\ positions' \in Books /\ WellFormed(positions')
      /\ OpenPositions(positions') = OpenPositions(positions)
      /\ BookCost(positions') = BookCost(positions)
      /\ RealizedPnl(positions') = RealizedPnl(positions)
    BY <1>1, OpenDayFacts
<1>4. TypeOK'
    BY <1>2, <1>3 DEF OpenDay, IInv, TypeOK, Books
<1>5. (phase = "orders" => day < NumDays /\ ordered \subseteq DOMAIN bars \ todo)'
    BY DEF OpenDay, IInv, TypeOK
<1>6. PositionLimit'
    BY <1>3 DEF IInv, PositionLimit
<1>7. DailyOrderLimit'
    BY FS_EmptySet, LimitAssumption DEF OpenDay, DailyOrderLimit
<1>8. BookIdentity'
    BY <1>3 DEF OpenDay, IInv, BookIdentity
<1>9. ExitCompleteness'
    BY <1>2 DEF ExitCompleteness
<1> QED
    BY <1>3, <1>4, <1>5, <1>6, <1>7, <1>8, <1>9 DEF IInv

\* An order of either side takes the next number and leaves the loop's list.
LEMMA ExecuteCounts ==
    ASSUME IInv, NEW t \in Tickers, IsNext(t), NEW side, NEW q, Execute(t, side, q),
           dailyOrders < MaxDailyOrders
    PROVE  /\ DailyOrderLimit'
           /\ (phase = "orders" => day < NumDays /\ ordered \subseteq DOMAIN bars \ todo)'
<1>1. /\ phase = "orders" /\ t \in todo /\ t \in DOMAIN bars
      /\ dailyOrders = Cardinality(ordered) /\ ordered \subseteq DOMAIN bars \ todo
      /\ ordered \subseteq Tickers /\ dailyOrders \in Nat
    BY DEF IInv, IsNext, DailyOrderLimit, TypeOK
<1>2. IsFiniteSet(ordered)
  <2>1. IsFiniteSet(Tickers)
      BY FS_Interval, TickerAssumption DEF Tickers
  <2> QED
      BY <1>1, <2>1, FS_Subset
<1>3. Cardinality(ordered \cup {t}) = Cardinality(ordered) + 1
    BY <1>1, <1>2, FS_AddElement
<1>4. DailyOrderLimit'
    BY <1>1, <1>3, LimitAssumption DEF Execute, DailyOrderLimit
<1>5. (phase = "orders" => day < NumDays /\ ordered \subseteq DOMAIN bars \ todo)'
    BY <1>1 DEF Execute, IInv
<1> QED
    BY <1>4, <1>5

\* What a buy does to the two ledgers.
LEMMA BuyFacts ==
    ASSUME TypeOK, WellFormed(positions), NEW t \in Tickers, Buy(t)
    PROVE  LET q     == BuyQuantity(t)
               price == FillPrice("buy", PriceFromBar(bars[t]))
           IN  /\ t \in DOMAIN bars /\ q \in Nat \ {0} /\ price \in Nat \ {0}
               /\ Cardinality(OpenPositions(positions)) < MaxPositions
               /\ dailyOrders < MaxDailyOrders
               /\ CashNeeded(q, FillPrice("buy", bars[t].open)) <= cash
               /\ positions[t].quantity = 0 /\ signal[t]
               /\ positions' \in Books /\ WellFormed(positions')
               /\ OpenPositions(positions') = OpenPositions(positions) \cup {t}
               /\ \A u \in Tickers \ {t} : positions'[u] = positions[u]
               /\ positions'[t].quantity = q /\ positions'[t].currentPrice = price
               /\ BookCost(positions') = BookCost(positions) + q * price
               /\ RealizedPnl(positions') = RealizedPnl(positions)
               /\ Fee(q, price) \in Nat /\ q * price \in Nat
               /\ cash' = cash - q * price - Fee(q, price)
               /\ buyFees' = buyFees + Fee(q, price)
<1> DEFINE q == BuyQuantity(t)
<1> DEFINE price == FillPrice("buy", PriceFromBar(bars[t]))
<1> DEFINE fill == FillOrder([ticker |-> t, side |-> "buy", quantity |-> q], bars[t])
<1>1. /\ IsNext(t) /\ EntryWanted(t) /\ q > 0 /\ Execute(t, "buy", q)
    BY DEF Buy
<1>2. t \in DOMAIN bars
    BY <1>1 DEF IsNext, TypeOK
<1>3. /\ q \in Nat \ {0}
      /\ Cardinality(OpenPositions(positions)) < MaxPositions
      /\ dailyOrders < MaxDailyOrders
      /\ CashNeeded(q, FillPrice("buy", bars[t].open)) <= cash
    BY <1>1, <1>2, BuyQuantityBounds
<1> HIDE DEF q
<1>4. /\ fill.side = "buy" /\ fill.ticker = t /\ fill.quantity = q
      /\ fill.price = price /\ price \in Nat \ {0}
      /\ fill.fee = Fee(q, price) /\ fill.fee \in Nat /\ fill.tax = 0
  <2>1. "buy" \in Sides
      BY DEF Sides
  <2> QED
      BY <1>2, <1>3, <2>1, FillFacts
<1>5. /\ positions' = ApplyFill(positions, fill)
      /\ cash' = cash + CashEffect(fill)
      /\ buyFees' = buyFees + fill.fee
    BY <1>1 DEF Execute
<1> HIDE DEF fill, price
<1>6. /\ positions \in Books /\ positions[t].quantity = 0 /\ signal[t]
      /\ cash \in Int /\ buyFees \in Nat
    BY <1>1 DEF TypeOK, EntryWanted, Books
<1>7. /\ positions' \in Books /\ WellFormed(positions')
      /\ OpenPositions(positions') = OpenPositions(positions) \cup {t}
      /\ \A u \in Tickers \ {t} : positions'[u] = positions[u]
      /\ positions'[t].quantity = q /\ positions'[t].currentPrice = fill.price
      /\ BookCost(positions') = BookCost(positions) + q * fill.price
      /\ RealizedPnl(positions') = RealizedPnl(positions)
    BY <1>1, <1>3, <1>4, <1>5, <1>6, BuyFromFlat
<1>8. q * price \in Nat
    BY <1>3, <1>4
<1>9. cash' = cash - q * price - Fee(q, price)
    BY <1>4, <1>5, <1>6, <1>8 DEF CashEffect
<1> QED
    BY <1>2, <1>3, <1>4, <1>5, <1>6, <1>7, <1>8, <1>9 DEF q, price

LEMMA BuyKeeps ==
    ASSUME IInv, NEW t \in Tickers, Buy(t)
    PROVE  IInv'
<1> DEFINE q == BuyQuantity(t)
<1> DEFINE price == FillPrice("buy", PriceFromBar(bars[t]))
<1> DEFINE fee == Fee(q, price)
<1>1. TypeOK /\ WellFormed(positions) /\ cash \in Int /\ buyFees \in Nat /\ positions \in Books
    BY DEF IInv, TypeOK, Books
<1>2. /\ t \in DOMAIN bars /\ q \in Nat \ {0} /\ price \in Nat \ {0}
      /\ Cardinality(OpenPositions(positions)) < MaxPositions
      /\ dailyOrders < MaxDailyOrders
      /\ positions[t].quantity = 0 /\ signal[t]
      /\ positions' \in Books /\ WellFormed(positions')
      /\ OpenPositions(positions') = OpenPositions(positions) \cup {t}
      /\ \A u \in Tickers \ {t} : positions'[u] = positions[u]
      /\ BookCost(positions') = BookCost(positions) + q * price
      /\ RealizedPnl(positions') = RealizedPnl(positions)
      /\ fee \in Nat /\ q * price \in Nat
      /\ cash' = cash - q * price - fee
      /\ buyFees' = buyFees + fee
    BY <1>1, BuyFacts
<1>3. /\ IsNext(t) /\ Execute(t, "buy", q)
      /\ phase = "orders" /\ t \in todo /\ todo' = todo \ {t}
      /\ ordered' = ordered \cup {t} /\ dailyOrders' = dailyOrders + 1
      /\ UNCHANGED <<day, phase, bars, signal>>
    BY DEF Buy, IsNext, Execute
<1> HIDE DEF q, price, fee
<1>4. TypeOK'
  <2>1. dailyOrders' \in Nat
      BY <1>3 DEF IInv, TypeOK
  <2>2. cash' \in Int /\ buyFees' \in Nat
      BY <1>1, <1>2
  <2> QED
      BY <1>2, <1>3, <2>1, <2>2 DEF IInv, TypeOK, Books
<1>5. DailyOrderLimit' /\ (phase = "orders" => day < NumDays /\ ordered \subseteq DOMAIN bars \ todo)'
    BY <1>2, <1>3, ExecuteCounts
<1>6. PositionLimit'
  <2>1. IsFiniteSet(OpenPositions(positions)) /\ Cardinality(OpenPositions(positions)) \in Nat
      BY OpenFinite
  <2>2. t \notin OpenPositions(positions)
      BY <1>2 DEF OpenPositions, IsOpen
  <2>3. Cardinality(OpenPositions(positions')) = Cardinality(OpenPositions(positions)) + 1
      BY <1>2, <2>1, <2>2, FS_AddElement
  <2> QED
      BY <1>2, <2>1, <2>3, LimitAssumption DEF PositionLimit
<1>7. BookIdentity'
  <2>1. BookCost(positions) \in Int /\ RealizedPnl(positions) \in Int
      BY <1>1, SumsAreInt
  <2>2. cash + BookCost(positions) = InitialCapital + RealizedPnl(positions) - buyFees
      BY DEF IInv, BookIdentity
  <2>3. cash' + BookCost(positions') = InitialCapital + RealizedPnl(positions') - buyFees'
      BY <1>1, <1>2, <2>1, <2>2, EngineAssumption
  <2> QED
      BY <2>3 DEF BookIdentity
<1>8. ExitCompleteness'
  <2>1. \A u \in DOMAIN bars \ todo : u # t /\ ~(~ signal[u] /\ positions[u].quantity > 0)
      BY <1>2, <1>3, LimitAssumption DEF IInv, ExitCompleteness, TypeOK
  <2>2. \A u \in DOMAIN bars : u \in Tickers
      BY DEF IInv, TypeOK
  <2>3. \A u \in DOMAIN bars \ (todo \ {t}) : ~(~ signal[u] /\ positions'[u].quantity > 0)
      BY <1>2, <2>1, <2>2
  <2> QED
      BY <1>3, <2>3 DEF ExitCompleteness
<1> QED
    BY <1>2, <1>4, <1>5, <1>6, <1>7, <1>8 DEF IInv

\* What a sale does to the two ledgers.
LEMMA SellFacts ==
    ASSUME TypeOK, WellFormed(positions), NEW t \in Tickers, Sell(t)
    PROVE  LET q     == SellQuantity(t)
               price == FillPrice("sell", PriceFromBar(bars[t]))
               net   == q * price - Fee(q, price) - Tax("sell", q, price)
           IN  /\ t \in DOMAIN bars /\ q \in Nat \ {0} /\ net \in Int
               /\ q = positions[t].quantity /\ dailyOrders < MaxDailyOrders
               /\ positions' \in Books /\ WellFormed(positions')
               /\ OpenPositions(positions') = OpenPositions(positions) \ {t}
               /\ \A u \in Tickers \ {t} : positions'[u] = positions[u]
               /\ positions'[t].quantity = 0
               /\ RealizedPnl(positions') - BookCost(positions')
                    = RealizedPnl(positions) - BookCost(positions) + net
               /\ cash' = cash + net /\ buyFees' = buyFees
<1> DEFINE q == SellQuantity(t)
<1> DEFINE price == FillPrice("sell", PriceFromBar(bars[t]))
<1> DEFINE fill == FillOrder([ticker |-> t, side |-> "sell", quantity |-> q], bars[t])
<1>1. /\ IsNext(t) /\ ExitWanted(t) /\ q > 0 /\ Execute(t, "sell", q)
    BY DEF Sell
<1>2. t \in DOMAIN bars
    BY <1>1 DEF IsNext, TypeOK
<1>3. q \in Nat \ {0} /\ q = positions[t].quantity /\ dailyOrders < MaxDailyOrders
  <2>1. positions[t].quantity \in Nat /\ dailyOrders \in Nat
      BY DEF TypeOK, Position
  <2>2. q \in Nat /\ (q > 0 => q = positions[t].quantity /\ dailyOrders < MaxDailyOrders)
      BY <2>1, CheckSellBounds DEF SellQuantity
  <2> QED
      BY <1>1, <2>2
<1> HIDE DEF q
<1>4. /\ fill.side = "sell" /\ fill.ticker = t /\ fill.quantity = q
      /\ fill.price = price /\ fill.price \in Int
      /\ fill.fee = Fee(q, price) /\ fill.fee \in Nat
      /\ fill.tax = Tax("sell", q, price) /\ fill.tax \in Int
  <2>1. "sell" \in Sides
      BY DEF Sides
  <2> QED
      BY <1>2, <1>3, <2>1, FillFacts
<1>5. /\ positions' = ApplyFill(positions, fill)
      /\ cash' = cash + CashEffect(fill)
      /\ buyFees' = buyFees
    BY <1>1 DEF Execute
<1> HIDE DEF fill, price
<1>6. positions \in Books /\ cash \in Int
    BY DEF TypeOK, Books
<1>7. /\ positions' \in Books /\ WellFormed(positions')
      /\ OpenPositions(positions') = OpenPositions(positions) \ {t}
      /\ \A u \in Tickers \ {t} : positions'[u] = positions[u]
      /\ positions'[t].quantity = 0
      /\ RealizedPnl(positions') - BookCost(positions')
           = RealizedPnl(positions) - BookCost(positions)
               + (q * fill.price - fill.fee - fill.tax)
  <2>1. fill.fee \in Int /\ fill.quantity > 0 /\ fill.quantity = positions[t].quantity
      BY <1>1, <1>3, <1>4
  <2> QED
      BY <1>4, <1>5, <1>6, <2>1, SellAll
<1>8. q * fill.price \in Int
    BY <1>3, <1>4
<1>9. /\ cash' = cash + (q * fill.price - fill.fee - fill.tax)
      /\ q * fill.price - fill.fee - fill.tax \in Int
    BY <1>4, <1>5, <1>6, <1>8 DEF CashEffect
<1> QED
    BY <1>2, <1>3, <1>4, <1>5, <1>7, <1>9 DEF q, price

LEMMA SellKeeps ==
    ASSUME IInv, NEW t \in Tickers, Sell(t)
    PROVE  IInv'
<1> DEFINE q == SellQuantity(t)
<1> DEFINE price == FillPrice("sell", PriceFromBar(bars[t]))
<1> DEFINE net == q * price - Fee(q, price) - Tax("sell", q, price)
<1>1. TypeOK /\ WellFormed(positions) /\ cash \in Int /\ buyFees \in Nat /\ positions \in Books
    BY DEF IInv, TypeOK, Books
<1>2. /\ t \in DOMAIN bars /\ net \in Int
      /\ dailyOrders < MaxDailyOrders
      /\ positions' \in Books /\ WellFormed(positions')
      /\ OpenPositions(positions') = OpenPositions(positions) \ {t}
      /\ \A u \in Tickers \ {t} : positions'[u] = positions[u]
      /\ positions'[t].quantity = 0
      /\ RealizedPnl(positions') - BookCost(positions')
           = RealizedPnl(positions) - BookCost(positions) + net
      /\ cash' = cash + net /\ buyFees' = buyFees
    BY <1>1, SellFacts
<1>3. /\ IsNext(t) /\ Execute(t, "sell", q)
      /\ phase = "orders" /\ t \in todo /\ todo' = todo \ {t}
      /\ ordered' = ordered \cup {t} /\ dailyOrders' = dailyOrders + 1
      /\ UNCHANGED <<day, phase, bars, signal>>
    BY DEF Sell, IsNext, Execute
<1> HIDE DEF q, net
<1>4. TypeOK'
  <2>1. dailyOrders' \in Nat
      BY <1>3 DEF IInv, TypeOK
  <2>2. cash' \in Int /\ buyFees' \in Nat
      BY <1>1, <1>2
  <2> QED
      BY <1>2, <1>3, <2>1, <2>2 DEF IInv, TypeOK, Books
<1>5. DailyOrderLimit' /\ (phase = "orders" => day < NumDays /\ ordered \subseteq DOMAIN bars \ todo)'
    BY <1>2, <1>3, ExecuteCounts
<1>6. PositionLimit'
  <2>1. IsFiniteSet(OpenPositions(positions)) /\ Cardinality(OpenPositions(positions)) \in Nat
        /\ Cardinality(OpenPositions(positions')) \in Nat
      BY OpenFinite
  <2>2. Cardinality(OpenPositions(positions')) <= Cardinality(OpenPositions(positions))
      BY <1>2, <2>1, FS_Subset
  <2> QED
      BY <2>1, <2>2, LimitAssumption DEF IInv, PositionLimit
<1>7. BookIdentity'
  <2>1. BookCost(positions) \in Int /\ RealizedPnl(positions) \in Int
        /\ BookCost(positions') \in Int /\ RealizedPnl(positions') \in Int
      BY <1>1, <1>2, SumsAreInt
  <2>2. cash + BookCost(positions) = InitialCapital + RealizedPnl(positions) - buyFees
      BY DEF IInv, BookIdentity
  <2>3. cash' + BookCost(positions') = InitialCapital + RealizedPnl(positions') - buyFees'
      BY <1>1, <1>2, <2>1, <2>2, EngineAssumption
  <2> QED
      BY <2>3 DEF BookIdentity
<1>8. ExitCompleteness'
  <2>1. \A u \in DOMAIN bars \ todo : u # t /\ ~(~ signal[u] /\ positions[u].quantity > 0)
      BY <1>2, <1>3, LimitAssumption DEF IInv, ExitCompleteness, TypeOK
  <2>2. \A u \in DOMAIN bars : u \in Tickers
      BY DEF IInv, TypeOK
  <2>3. \A u \in DOMAIN bars \ (todo \ {t}) : ~(~ signal[u] /\ positions'[u].quantity > 0)
      BY <1>2, <2>1, <2>2
  <2> QED
      BY <1>3, <2>3 DEF ExitCompleteness
<1> QED
    BY <1>2, <1>4, <1>5, <1>6, <1>7, <1>8 DEF IInv

LEMMA NoOrderKeeps ==
    ASSUME IInv, NEW t \in Tickers, NoOrder(t)
    PROVE  IInv'
<1>1. /\ IsNext(t) /\ (ExitWanted(t) => SellQuantity(t) = 0)
      /\ todo' = todo \ {t}
      /\ UNCHANGED <<day, phase, bars, signal, cash, positions, dailyOrders, ordered, buyFees>>
    BY DEF NoOrder
<1>2. TypeOK'
    BY <1>1 DEF IInv, TypeOK
<1>3. WellFormed(positions')
    BY <1>1 DEF IInv
<1>4. (phase = "orders" => day < NumDays /\ ordered \subseteq DOMAIN bars \ todo)'
    BY <1>1 DEF IInv
<1>5. PositionLimit' /\ DailyOrderLimit' /\ BookIdentity'
    BY <1>1 DEF IInv, PositionLimit, DailyOrderLimit, BookIdentity
<1>6. ExitCompleteness'
  <2>1. phase = "orders" /\ t \in todo /\ dailyOrders <= MaxDailyOrders /\ dailyOrders \in Nat
      BY <1>1 DEF IsNext, IInv, TypeOK, DailyOrderLimit
  <2>2. positions[t].quantity \in Nat
      BY DEF IInv, TypeOK, Position
  <2>3. ASSUME ~ signal[t], positions[t].quantity > 0 PROVE dailyOrders = MaxDailyOrders
    <3>1. CheckSell(positions[t].quantity, dailyOrders) = 0
        BY <1>1, <2>3 DEF ExitWanted, SellQuantity
    <3>2. dailyOrders >= MaxDailyOrders
        BY <2>1, <2>2, <2>3, <3>1, LimitAssumption DEF CheckSell
    <3> QED
        BY <2>1, <3>2, LimitAssumption
  <2> QED
      BY <1>1, <2>1, <2>3 DEF IInv, ExitCompleteness
<1> QED
    BY <1>2, <1>3, <1>4, <1>5, <1>6 DEF IInv

\* Marking the book at the closes, before the division that may fail.
LEMMA AtCloseFacts ==
    ASSUME TypeOK, WellFormed(positions)
    PROVE  /\ AtClose \in Books /\ WellFormed(AtClose)
           /\ OpenPositions(AtClose) = OpenPositions(positions)
           /\ BookCost(AtClose) = BookCost(positions)
           /\ RealizedPnl(AtClose) = RealizedPnl(positions)
           /\ \A t \in Tickers : /\ AtClose[t].quantity = positions[t].quantity
                                 /\ AtClose[t].avgPrice = positions[t].avgPrice
           /\ (\A t \in OpenPositions(positions) : positions[t].currentPrice > 0)
                => \A t \in OpenPositions(AtClose) : AtClose[t].currentPrice > 0
<1> DEFINE closes == [t \in DOMAIN bars |-> bars[t].close]
<1>1. /\ \A t \in DOMAIN closes : closes[t] \in Int /\ closes[t] > 0
      /\ positions \in Books
  <2>1. \A t \in DOMAIN bars : bars[t].close \in Int /\ bars[t].close > 0
    <3> TAKE t \in DOMAIN bars
    <3>1. bars[t] \in Bars
        BY DEF TypeOK
    <3> QED
        BY <3>1, BarType
  <2> QED
      BY <2>1 DEF TypeOK, Books
<1>2. AtClose = MarkToMarket(positions, closes)
    BY DEF AtClose
<1> HIDE DEF closes
<1> QED
    BY <1>1, <1>2, MarkKeepsBook, MarkKeepsShape, MarkKeepsOpen, MarkKeepsCost,
       MarkKeepsPositive

LEMMA CloseDayKeeps ==
    ASSUME IInv, CloseDay \/ CloseDayFails
    PROVE  IInv'
<1>1. /\ phase = "orders" /\ todo = {} /\ positions' = AtClose
      /\ phase' \in {"between", "crashed"}
      /\ UNCHANGED <<todo, cash, dailyOrders, ordered, buyFees>>
    BY DEF CloseDay, CloseDayFails
<1>2. /\ positions' \in Books /\ WellFormed(positions')
      /\ OpenPositions(positions') = OpenPositions(positions)
      /\ BookCost(positions') = BookCost(positions)
      /\ RealizedPnl(positions') = RealizedPnl(positions)
    BY <1>1, AtCloseFacts DEF IInv
<1>3. day' \in 0 .. NumDays
    BY EngineAssumption, <1>1 DEF CloseDay, CloseDayFails, IInv, TypeOK
<1>4. (\E traded \in SUBSET Tickers : bars' \in [traded -> Bars]) /\ todo' \subseteq DOMAIN bars'
  <2>1. NoBars \in [{} -> Bars] /\ {} \in SUBSET Tickers
      BY DEF NoBars
  <2> QED
      BY <1>1, <2>1 DEF CloseDay, CloseDayFails, IInv, TypeOK
<1>5. signal' \in [Tickers -> BOOLEAN]
  <2>1. CASE CloseDay
    <3>1. PICK raw \in [DOMAIN bars -> BOOLEAN] :
            signal' = [t \in Tickers |-> IF t \in DOMAIN bars THEN raw[t] ELSE signal[t]]
        BY <2>1 DEF CloseDay
    <3> QED
        BY <3>1 DEF IInv, TypeOK
  <2>2. CASE CloseDayFails
      BY <2>2 DEF CloseDayFails, IInv, TypeOK
  <2> QED
      BY <2>1, <2>2
<1>6. TypeOK'
    BY <1>1, <1>2, <1>3, <1>4, <1>5 DEF IInv, TypeOK, Books
<1>7. PositionLimit'
    BY <1>2 DEF IInv, PositionLimit
<1>8. DailyOrderLimit'
    BY <1>1 DEF IInv, DailyOrderLimit
<1>9. BookIdentity'
    BY <1>1, <1>2 DEF IInv, BookIdentity
<1>10. ExitCompleteness' /\ (phase = "orders" => day < NumDays /\ ordered \subseteq DOMAIN bars \ todo)'
    BY <1>1 DEF ExitCompleteness
<1> QED
    BY <1>2, <1>6, <1>7, <1>8, <1>9, <1>10 DEF IInv

LEMMA NextKeeps == IInv /\ [Next]_vars => IInv'
<1> SUFFICES ASSUME IInv, [Next]_vars PROVE IInv'
    OBVIOUS
<1>1. CASE OpenDay
    BY <1>1, OpenDayKeeps
<1>2. ASSUME NEW t \in Tickers, Buy(t) PROVE IInv'
    BY <1>2, BuyKeeps
<1>3. ASSUME NEW t \in Tickers, Sell(t) PROVE IInv'
    BY <1>3, SellKeeps
<1>4. ASSUME NEW t \in Tickers, NoOrder(t) PROVE IInv'
    BY <1>4, NoOrderKeeps
<1>5. CASE CloseDay \/ CloseDayFails
    BY <1>5, CloseDayKeeps
<1>6. CASE Finish \/ FinishFails
    BY <1>6 DEF Finish, FinishFails, IInv, TypeOK, PositionLimit, DailyOrderLimit, BookIdentity,
                ExitCompleteness
<1>7. CASE UNCHANGED vars
    BY <1>7 DEF vars, IInv, TypeOK, PositionLimit, DailyOrderLimit, BookIdentity,
                ExitCompleteness
<1> QED
    BY <1>1, <1>2, <1>3, <1>4, <1>5, <1>6, <1>7 DEF Next, Ended
-----------------------------------------------------------------------------
\* All invariants at once, for every instance of the engine.
THEOREM Invariance == Spec => []IInv
<1>1. Init => IInv
    BY InitIInv
<1>2. IInv /\ [Next]_vars => IInv'
    BY NextKeeps
<1> QED
    BY <1>1, <1>2, PTL DEF Spec

\* Type correctness: in particular every quantity the sizing and risk
\* arithmetic yields is a natural number and every date's rows are well typed.
THEOREM TypeCorrect == Spec => []TypeOK
<1>1. IInv => TypeOK
    BY DEF IInv
<1> QED
    BY <1>1, Invariance, PTL

\* _build_buy_order never lets the book hold more than max_positions.
THEOREM PositionsLimited == Spec => []PositionLimit
<1>1. IInv => PositionLimit
    BY DEF IInv
<1> QED
    BY <1>1, Invariance, PTL

\* Every order of a date has its own ticker, is counted, and at most
\* max_daily_orders are placed.
THEOREM OrdersLimited == Spec => []DailyOrderLimit
<1>1. IInv => DailyOrderLimit
    BY DEF IInv
<1> QED
    BY <1>1, Invariance, PTL

\* Cash and positions, updated by two calls per fill, always account for the
\* initial capital, the realised profit and the fees of the buys.
THEOREM BooksBalance == Spec => []BookIdentity
<1>1. IInv => BookIdentity
    BY DEF IInv
<1> QED
    BY <1>1, Invariance, PTL

\* A false signal leaves no position behind unless the order count is used up.
THEOREM ExitsComplete == Spec => []ExitCompleteness
<1>1. IInv => ExitCompleteness
    BY DEF IInv
<1> QED
    BY <1>1, Invariance, PTL
-----------------------------------------------------------------------------
\* While a position is held its quantity and entry price stay as bought.
THEOREM PositionsStayWhole == Spec => WholePositionOnly
<1> DEFINE Whole == \A t \in Tickers :
                      LET before == positions[t]
                          after  == positions'[t]
                      IN  before.quantity > 0 =>
                            \/ after.quantity = 0
                            \/ after.quantity = before.quantity
                               /\ after.avgPrice = before.avgPrice
<1>1. IInv /\ [Next]_vars => [Whole]_vars
  <2> SUFFICES ASSUME IInv, [Next]_vars PROVE Whole \/ UNCHANGED vars
      OBVIOUS
  <2>1. CASE OpenDay
      BY <2>1, OpenDayFacts DEF IInv
  <2>2. ASSUME NEW k \in Tickers, Buy(k) PROVE Whole
    <3>1. positions[k].quantity = 0 /\ \A u \in Tickers \ {k} : positions'[u] = positions[u]
        BY <2>2, BuyFacts DEF IInv
    <3> QED
        BY <3>1
  <2>3. ASSUME NEW k \in Tickers, Sell(k) PROVE Whole
    <3>1. positions'[k].quantity = 0 /\ \A u \in Tickers \ {k} : positions'[u] = positions[u]
        BY <2>3, SellFacts DEF IInv
    <3> QED
        BY <3>1
  <2>4. ASSUME NEW k \in Tickers, NoOrder(k) PROVE Whole
      BY <2>4 DEF NoOrder
  <2>5. CASE CloseDay \/ CloseDayFails
      BY <2>5, AtCloseFacts DEF IInv, CloseDay, CloseDayFails
  <2>6. CASE Finish \/ FinishFails
      BY <2>6 DEF Finish, FinishFails
  <2>7. CASE Ended
      BY <2>7 DEF Ended
  <2> QED
      BY <2>1, <2>2, <2>3, <2>4, <2>5, <2>6, <2>7 DEF Next
<1> QED
    BY <1>1, Invariance, PTL DEF Spec, WholePositionOnly
-----------------------------------------------------------------------------
\* What a configuration must satisfy for sales never to cost cash: no sale of
\* a share nets less than nothing after slippage, fee and tax.
SalesPay ==
    \A price \in Prices : \A q \in Nat \ {0} :
        LET received == FillPrice("sell", price)
        IN  q * received - Fee(q, received) - Tax("sell", q, received) > 0

\* The inductive part of solvency: there is no debt, and no bare book.
Solvent ==
    /\ cash >= 0
    /\ cash > 0 \/ OpenPositions(positions) # {}
    /\ \A t \in OpenPositions(positions) : positions[t].currentPrice > 0
    /\ phase # "crashed"

\* Under next_open the fill price is the one affordable_quantity estimated,
\* so a buy never spends more than there is; sales add to it.
LEMMA SolventKept ==
    ASSUME FillModel = "next_open", SalesPay, IInv, Solvent, [Next]_vars
    PROVE  Solvent'
<1>1. /\ TypeOK /\ WellFormed(positions) /\ cash \in Int /\ positions \in Books
      /\ cash >= 0 /\ phase # "crashed"
      /\ \A t \in OpenPositions(positions) : positions[t].currentPrice > 0
      /\ cash > 0 \/ OpenPositions(positions) # {}
    BY DEF IInv, TypeOK, Books, Solvent
<1>2. CASE OpenDay
  <2>1. /\ OpenPositions(positions') = OpenPositions(positions)
        /\ \A t \in OpenPositions(positions') : positions'[t].currentPrice > 0
      BY <1>1, <1>2, OpenDayFacts
  <2> QED
      BY <1>1, <1>2, <2>1 DEF OpenDay, Solvent
<1>3. ASSUME NEW t \in Tickers, Buy(t) PROVE Solvent'
  <2> DEFINE q == BuyQuantity(t)
  <2> DEFINE price == FillPrice("buy", PriceFromBar(bars[t]))
  <2> DEFINE fee == Fee(q, price)
  <2>1. /\ t \in DOMAIN bars /\ price \in Nat \ {0}
        /\ CashNeeded(q, FillPrice("buy", bars[t].open)) <= cash
        /\ OpenPositions(positions') = OpenPositions(positions) \cup {t}
        /\ \A u \in Tickers \ {t} : positions'[u] = positions[u]
        /\ positions'[t].currentPrice = price
        /\ fee \in Nat /\ q * price \in Nat
        /\ cash' = cash - q * price - fee
      BY <1>1, <1>3, BuyFacts
  <2>2. FillPrice("buy", bars[t].open) = price
      BY DEF PriceFromBar
  <2>3. CashNeeded(q, price) = q * price + fee
      BY DEF CashNeeded
  <2> HIDE DEF q, price, fee
  <2>4. cash' >= 0
      BY <1>1, <2>1, <2>2, <2>3
  <2>5. \A u \in OpenPositions(positions') : positions'[u].currentPrice > 0
      BY <1>1, <2>1 DEF OpenPositions
  <2>6. phase' # "crashed"
      BY <1>1, <1>3 DEF Buy, Execute
  <2> QED
      BY <2>1, <2>4, <2>5, <2>6 DEF Solvent
<1>4. ASSUME NEW t \in Tickers, Sell(t) PROVE Solvent'
  <2> DEFINE q == SellQuantity(t)
  <2> DEFINE price == FillPrice("sell", PriceFromBar(bars[t]))
  <2> DEFINE net == q * price - Fee(q, price) - Tax("sell", q, price)
  <2>1. /\ t \in DOMAIN bars /\ q \in Nat \ {0} /\ net \in Int
        /\ OpenPositions(positions') = OpenPositions(positions) \ {t}
        /\ \A u \in Tickers \ {t} : positions'[u] = positions[u]
        /\ cash' = cash + net
      BY <1>1, <1>4, SellFacts
  <2>2. net > 0
    <3>1. bars[t] \in Bars
        BY <1>1, <2>1 DEF TypeOK
    <3>2. PriceFromBar(bars[t]) \in Prices
        BY <3>1 DEF Bars, PriceFromBar
    <3> HIDE DEF q
    <3> QED
        BY <2>1, <3>2 DEF SalesPay
  <2> HIDE DEF q, net
  <2>3. cash' \in Int /\ cash' > 0
      BY <1>1, <2>1, <2>2
  <2>4. \A u \in OpenPositions(positions') : positions'[u].currentPrice > 0
      BY <1>1, <2>1 DEF OpenPositions
  <2>5. phase' # "crashed"
      BY <1>1, <1>4 DEF Sell, Execute
  <2> QED
      BY <2>3, <2>4, <2>5 DEF Solvent
<1>5. ASSUME NEW t \in Tickers, NoOrder(t) PROVE Solvent'
    BY <1>5, <1>1 DEF NoOrder, Solvent
<1>6. /\ AtClose \in Books
      /\ OpenPositions(AtClose) = OpenPositions(positions)
      /\ \A t \in OpenPositions(AtClose) : AtClose[t].currentPrice > 0
    BY <1>1, AtCloseFacts
<1>7. CASE CloseDay
    BY <1>1, <1>6, <1>7 DEF CloseDay, Solvent
<1>8. CASE CloseDayFails
  <2>1. PositionsValue(AtClose) \in Int /\ PositionsValue(AtClose) >= 0
        /\ (OpenPositions(AtClose) # {} => PositionsValue(AtClose) > 0)
      BY <1>6, ValueType, ValuePositive
  <2>2. cash + PositionsValue(AtClose) = 0
      BY <1>8 DEF CloseDayFails, Equity
  <2> DEFINE value == PositionsValue(AtClose)
  <2>3. value \in Int /\ value >= 0 /\ cash + value = 0
      BY <2>1, <2>2
  <2>4. OpenPositions(positions) # {} => value > 0
      BY <1>6, <2>1
  <2> HIDE DEF value
  <2>5. FALSE
      BY <1>1, <2>3, <2>4
  <2> QED
      BY <2>5
<1>9. CASE Finish
    BY <1>1, <1>9 DEF Finish, Solvent
<1>10. CASE FinishFails
  <2> DEFINE value == PositionsValue(positions)
  <2>1. value \in Int /\ value >= 0
      BY <1>1, ValueType, ValuePositive
  <2>2. cash + value < 0
      BY <1>10 DEF FinishFails, MetricsFail, Equity
  <2> HIDE DEF value
  <2> QED
      BY <1>1, <2>1, <2>2
<1>11. CASE Ended \/ UNCHANGED vars
    BY <1>1, <1>11 DEF Ended, vars, Solvent
<1> QED
    BY <1>2, <1>3, <1>4, <1>5, <1>7, <1>8, <1>9, <1>10, <1>11 DEF Next

LEMMA InitSolvent == Init => Solvent
<1>1. Init => OpenPositions(positions) = {}
    BY DEF Init, OpenPositions, IsOpen, EmptyPosition
<1> QED
    BY <1>1, EngineAssumption DEF Init, Solvent

\* Cash shortages shrink buys: with fills at the next open, and costs that
\* leave something of every sale, the cash ledger never goes negative.
THEOREM CashSuffices ==
    ASSUME FillModel = "next_open", SalesPay
    PROVE  Spec => []CashNonNegative
<1>1. Init => Solvent
    BY InitSolvent
<1>2. IInv /\ Solvent /\ [Next]_vars => Solvent'
    BY SolventKept
<1>3. Solvent => CashNonNegative
    BY DEF Solvent, CashNonNegative
<1> QED
    BY <1>1, <1>2, <1>3, Invariance, PTL DEF Spec

\* Under the same conditions the equity a row is divided by is never zero, and
\* the final equity of the metrics is not negative: run() raises nothing.
THEOREM RunNeverRaises ==
    ASSUME FillModel = "next_open", SalesPay
    PROVE  Spec => []NeverCrashes
<1>1. Init => Solvent
    BY InitSolvent
<1>2. IInv /\ Solvent /\ [Next]_vars => Solvent'
    BY SolventKept
<1>3. Solvent => NeverCrashes
    BY DEF Solvent, NeverCrashes
<1> QED
    BY <1>1, <1>2, <1>3, Invariance, PTL DEF Spec
-----------------------------------------------------------------------------
\* The steps that order nothing: neither cash nor quantities move.
LEMMA OtherStepsKeepAccount ==
    ASSUME IInv, [Next]_vars,
           \A t \in Tickers : ~ Buy(t) /\ ~ Sell(t)
    PROVE  UNCHANGED <<cash, [t \in Tickers |-> positions[t].quantity]>>
<1>1. CASE OpenDay
    BY <1>1, OpenDayFacts DEF IInv, OpenDay
<1>2. CASE CloseDay \/ CloseDayFails
    BY <1>2, AtCloseFacts DEF IInv, CloseDay, CloseDayFails
<1>3. CASE \E t \in Tickers : NoOrder(t)
    BY <1>3 DEF NoOrder
<1>4. CASE Finish \/ FinishFails
    BY <1>4 DEF Finish, FinishFails
<1>5. CASE Ended \/ UNCHANGED vars
    BY <1>5 DEF Ended, vars
<1> QED
    BY <1>1, <1>2, <1>3, <1>4, <1>5 DEF Next

LEMMA BaseIsQuoted ==
    ASSUME TypeOK, NEW t \in DOMAIN bars
    PROVE  PriceFromBar(bars[t]) \in Prices /\ PriceFromBar(bars[t]) \in Nat \ {0}
BY EngineAssumption DEF TypeOK, Bars, PriceFromBar

LEMMA BuyEnters ==
    ASSUME IInv, NEW t \in Tickers, Buy(t)
    PROVE  TheAccount!Enter(t)
<1> DEFINE q == BuyQuantity(t)
<1> DEFINE base == PriceFromBar(bars[t])
<1> DEFINE price == FillPrice("buy", base)
<1>1. TypeOK /\ WellFormed(positions) /\ cash \in Int
    BY DEF IInv, TypeOK
<1>2. /\ t \in DOMAIN bars /\ q \in Nat \ {0} /\ price \in Nat \ {0}
      /\ positions[t].quantity = 0 /\ positions'[t].quantity = q
      /\ \A u \in Tickers \ {t} : positions'[u] = positions[u]
      /\ Fee(q, price) \in Nat /\ q * price \in Nat
      /\ cash' = cash - q * price - Fee(q, price)
    BY <1>1, BuyFacts
<1>3. base \in Prices /\ base \in Nat \ {0}
    BY <1>1, <1>2, BaseIsQuoted
<1>4. q * base <= q * price + Fee(q, price)
    BY <1>2, <1>3, PurchaseAboveQuote
<1> HIDE DEF q, base, price
<1>5. q * base \in Nat /\ q * base = base * (q - 0)
    BY <1>2, <1>3
<1>6. cash' <= cash - base * (q - 0)
    BY <1>1, <1>2, <1>4, <1>5
<1>7. TheAccount!OthersKept(t)
    BY <1>2 DEF TheAccount!OthersKept
<1> QED
    BY <1>2, <1>3, <1>6, <1>7 DEF TheAccount!Enter, TheAccount!Purchase

LEMMA SellLeaves ==
    ASSUME SlippageRate <= Unit, IInv, NEW t \in Tickers, Sell(t)
    PROVE  TheAccount!Leave(t)
<1> DEFINE q == SellQuantity(t)
<1> DEFINE base == PriceFromBar(bars[t])
<1> DEFINE price == FillPrice("sell", base)
<1> DEFINE net == q * price - Fee(q, price) - Tax("sell", q, price)
<1>1. TypeOK /\ WellFormed(positions) /\ cash \in Int
    BY DEF IInv, TypeOK
<1>2. /\ t \in DOMAIN bars /\ q \in Nat \ {0} /\ net \in Int
      /\ q = positions[t].quantity /\ positions'[t].quantity = 0
      /\ \A u \in Tickers \ {t} : positions'[u] = positions[u]
      /\ cash' = cash + net
    BY <1>1, SellFacts
<1>3. base \in Prices /\ base \in Nat \ {0}
    BY <1>1, <1>2, BaseIsQuoted
<1>4. net <= q * base
    BY <1>2, <1>3, SaleBelowQuote
<1> HIDE DEF q, base, price, net
<1>5. q * base \in Nat /\ q * base = base * (q - 0)
    BY <1>2, <1>3
<1>6. cash' <= cash + base * (q - 0)
    BY <1>1, <1>2, <1>4, <1>5
<1>7. TheAccount!OthersKept(t)
    BY <1>2 DEF TheAccount!OthersKept
<1> QED
    BY <1>2, <1>3, <1>6, <1>7 DEF TheAccount!Leave, TheAccount!Sale

\* If slippage leaves something of every price, the engine is a long-only
\* account that enters and leaves tickers as a whole: whatever the costs,
\* limits and fill model, cash moves only with the shares of one order, and
\* never to better than a quoted price.
THEOREM EngineIsAccount ==
    ASSUME SlippageRate <= Unit
    PROVE  Spec => ImplementsAccount
<1>1. Init => TheAccount!Init
    BY DEF Init, TheAccount!Init, EmptyPosition
<1>2. IInv /\ [Next]_vars =>
        [\E t \in Tickers : TheAccount!Enter(t) \/ TheAccount!Leave(t)]_<<cash,
            [t \in Tickers |-> positions[t].quantity]>>
  <2> SUFFICES ASSUME IInv, [Next]_vars
               PROVE  \/ \E t \in Tickers : TheAccount!Enter(t) \/ TheAccount!Leave(t)
                      \/ UNCHANGED <<cash, [t \in Tickers |-> positions[t].quantity]>>
      OBVIOUS
  <2>1. CASE \E t \in Tickers : Buy(t)
      BY <2>1, BuyEnters
  <2>2. CASE \E t \in Tickers : Sell(t)
      BY <2>2, SellLeaves
  <2>3. CASE \A t \in Tickers : ~ Buy(t) /\ ~ Sell(t)
      BY <2>3, OtherStepsKeepAccount
  <2> QED
      BY <2>1, <2>2, <2>3
<1> QED
    BY <1>1, <1>2, Invariance, PTL DEF Spec, ImplementsAccount, TheAccount!InOrOut
-----------------------------------------------------------------------------
\* What check_buy leaves of an order is within the limits that it checks.
LEMMA QuotientBelow ==
    ASSUME NEW a \in Int, NEW c \in Nat \ {0}, NEW q \in Int, q <= a \div c
    PROVE  c * q <= a
<1>1. a \div c \in Int /\ c * (a \div c) <= a
    OBVIOUS
<1> DEFINE d == a \div c
<1> HIDE DEF d
<1>2. c * q <= c * d
    BY <1>1 DEF d
<1>3. c * q \in Int /\ c * d \in Int
    BY <1>1 DEF d
<1> QED
    BY <1>1, <1>2, <1>3 DEF d

LEMMA CheckBuyWithin ==
    ASSUME NEW quantity \in Int, NEW price \in Nat \ {0}, NEW equity \in Int,
           NEW exposure \in Int, NEW open \in Nat, NEW count \in Nat,
           CheckBuy(quantity, price, equity, exposure, open, count) > 0
    PROVE  LET q == CheckBuy(quantity, price, equity, exposure, open, count)
           IN  /\ q \in Nat \ {0} /\ q * price >= MinOrderNotional
               /\ Unit * (q * price) <= MaxPositionWeight * equity
               /\ Unit * (exposure + q * price) <= MaxTotalExposure * equity
<1> DEFINE allowed == AllowedNotional(equity, exposure)
           c == Unit * price
           shares == allowed \div c
           q == Min({quantity, shares})
           heaviest == equity * MaxPositionWeight
           room == equity * MaxTotalExposure - Unit * exposure
           least == Min({heaviest, room})
<1>1. heaviest \in Int /\ room \in Int /\ c \in Nat \ {0}
    BY LimitAssumption, UnitAssumption
<1>2. CheckBuy(quantity, price, equity, exposure, open, count) = q /\ q > 0
      /\ q * price >= MinOrderNotional
    BY LimitAssumption DEF CheckBuy
<1>3. allowed = Max({0, least})
    BY DEF AllowedNotional
<1> HIDE DEF heaviest, room, allowed
<1>4. least \in Int /\ least <= heaviest /\ least <= room
    BY <1>1, MinOfTwo
<1> HIDE DEF least
<1>5. allowed \in Int /\ allowed \in {0, least}
  <2>1. 0 \in Int
      OBVIOUS
  <2> QED
      BY <1>3, <1>4, <2>1, MaxOfTwo, Zenon
<1> HIDE DEF c
<1>6. shares \in Int
    BY <1>1, <1>5
<1> HIDE DEF shares
<1>7. q \in Int /\ q <= shares
    BY <1>6, MinOfTwo
<1> HIDE DEF q
<1>8. c * q <= allowed
    BY <1>1, <1>5, <1>7, QuotientBelow DEF shares
<1>9. c * q \in Int /\ c * q > 0
    BY <1>1, <1>2, <1>7
<1>10. c * q <= heaviest /\ c * q <= room
    BY <1>1, <1>4, <1>5, <1>8, <1>9
<1>11. c * q = Unit * (q * price) /\ q * price \in Int
    BY <1>2, <1>7, UnitAssumption DEF c
<1>12. heaviest = MaxPositionWeight * equity /\ room = MaxTotalExposure * equity - Unit * exposure
    BY LimitAssumption, UnitAssumption DEF heaviest, room
<1>13. Unit * (exposure + q * price) = Unit * exposure + Unit * (q * price)
    BY <1>11, UnitAssumption
<1>14. /\ Unit * exposure \in Int /\ MaxTotalExposure * equity \in Int
       /\ Unit * (q * price) \in Int
    BY <1>11, LimitAssumption, UnitAssumption
<1>15. Unit * (exposure + q * price) <= MaxTotalExposure * equity
    BY <1>10, <1>11, <1>12, <1>13, <1>14
<1> QED
    BY <1>2, <1>7, <1>10, <1>11, <1>12, <1>15

\* The order of a ticker, with what the engine takes size and limits from.
LEMMA BuyWithin ==
    ASSUME TypeOK, NEW t \in DOMAIN bars, BuyQuantity(t) > 0
    PROVE  LET q        == BuyQuantity(t)
               price    == bars[t].open
               exposure == PositionsValue(positions)
               equity   == cash + exposure
           IN  /\ q \in Nat \ {0} /\ price \in Nat \ {0} /\ exposure \in Int /\ cash \in Int
               /\ q * price >= MinOrderNotional
               /\ Unit * (q * price) <= MaxPositionWeight * equity
               /\ Unit * (exposure + q * price) <= MaxTotalExposure * equity
<1> DEFINE price == bars[t].open
           exposure == PositionsValue(positions)
           equity == cash + exposure
           desired == CalculateQuantity(equity, cash, price)
           affordable == AffordableQuantity(cash, price, desired)
           open == Cardinality(OpenPositions(positions))
<1>1. price \in Nat \ {0} /\ price \in Prices
    BY EngineAssumption DEF TypeOK, Bars
<1>2. exposure \in Int /\ cash \in Int
    BY ValueType DEF TypeOK, Books
<1>3. BuyQuantity(t) = CheckBuy(affordable, price, equity, exposure, open, dailyOrders)
    BY DEF BuyQuantity
<1> HIDE DEF price, exposure
<1>4. equity \in Int
    BY <1>2
<1> HIDE DEF equity
<1>5. desired \in Int
    BY <1>1, <1>2, <1>4, CalculateQuantityType
<1> HIDE DEF desired
<1>6. affordable \in Int
  <2>1. affordable \in Nat
      BY <1>1, <1>2, <1>5, AffordableIsCovered
  <2> QED
      BY <2>1
<1> HIDE DEF affordable
<1>7. open \in Nat /\ dailyOrders \in Nat
    BY OpenFinite DEF TypeOK
<1> HIDE DEF open
<1>8. /\ BuyQuantity(t) \in Nat \ {0} /\ BuyQuantity(t) * price >= MinOrderNotional
      /\ Unit * (BuyQuantity(t) * price) <= MaxPositionWeight * equity
      /\ Unit * (exposure + BuyQuantity(t) * price) <= MaxTotalExposure * equity
    BY <1>1, <1>2, <1>3, <1>4, <1>6, <1>7, CheckBuyWithin
<1> QED
    BY <1>1, <1>2, <1>8 DEF price, exposure, equity

\* What one order does to the value of the book.
LEMMA ValueReplaced ==
    ASSUME NEW book \in Books, NEW after \in Books, NEW t \in Tickers,
           \A u \in Tickers \ {t} : after[u] = book[u]
    PROVE  LET value(p) == IF IsOpen(p) THEN p.quantity * p.currentPrice ELSE 0
           IN  /\ value(book[t]) \in Int /\ value(after[t]) \in Int
               /\ PositionsValue(after) = PositionsValue(book) + (value(after[t]) - value(book[t]))
<1> DEFINE old == [u \in Tickers |-> IF IsOpen(book[u]) THEN book[u].quantity * book[u].currentPrice ELSE 0]
           new == [u \in Tickers |-> IF IsOpen(after[u]) THEN after[u].quantity * after[u].currentPrice ELSE 0]
<1>1. \A u \in Tickers : old[u] \in Int /\ new[u] \in Int
    BY DEF Books, Position
<1>2. old \in [Tickers -> Int] /\ new \in [Tickers -> Int]
    BY <1>1
<1>3. \A u \in Tickers \ {t} : new[u] = old[u]
    OBVIOUS
<1>4. PositionsValue(book) = Total(old) /\ PositionsValue(after) = Total(new)
    BY DEF PositionsValue
<1>5. /\ old[t] = IF IsOpen(book[t]) THEN book[t].quantity * book[t].currentPrice ELSE 0
      /\ new[t] = IF IsOpen(after[t]) THEN after[t].quantity * after[t].currentPrice ELSE 0
    OBVIOUS
<1> HIDE DEF old, new
<1>6. Total(new) = Total(old) + (new[t] - old[t])
    BY <1>2, <1>3, TotalUpdate
<1> QED
    BY <1>1, <1>4, <1>5, <1>6

\* Every purchase is within the limits as the code measures them: at the open,
\* of the equity before the fee.  What it pays over the open and for the fee
\* is what it can go over them by.
THEOREM LimitsHold == Spec => ExposureWithinLimits
<1> DEFINE Within(t) ==
             positions'[t].quantity > positions[t].quantity =>
               LET quantity == positions'[t].quantity
                   dearer   == quantity * (positions'[t].currentPrice - bars[t].open)
                   equity   == Equity(positions', cash') + (buyFees' - buyFees)
               IN  /\ Unit * (PositionsValue(positions') - dearer) <= MaxTotalExposure * equity
                   /\ Unit * (quantity * bars[t].open) <= MaxPositionWeight * equity
<1> DEFINE AllWithin == phase = "orders" /\ phase' = "orders" => \A t \in DOMAIN bars : Within(t)
<1>1. IInv /\ [Next]_vars => [AllWithin]_vars
  <2> SUFFICES ASSUME IInv, [Next]_vars PROVE AllWithin \/ UNCHANGED vars
      OBVIOUS
  <2>1. /\ TypeOK /\ WellFormed(positions) /\ positions \in Books
        /\ \A t \in Tickers : positions[t].quantity \in Nat
        /\ PositionsValue(positions) \in Int /\ DOMAIN bars \in SUBSET Tickers
      BY ValueType DEF IInv, TypeOK, Position, Books
  <2>2. ASSUME NEW k \in Tickers, Buy(k) PROVE AllWithin
    <3> DEFINE q     == BuyQuantity(k)
               price == bars[k].open
               paid  == FillPrice("buy", PriceFromBar(bars[k]))
               fee   == Fee(q, paid)
               value == PositionsValue(positions)
    <3>1. /\ k \in DOMAIN bars /\ q \in Nat \ {0} /\ paid \in Nat \ {0} /\ fee \in Nat
          /\ positions' \in Books
          /\ OpenPositions(positions') = OpenPositions(positions) \cup {k}
          /\ \A u \in Tickers \ {k} : positions'[u] = positions[u]
          /\ positions'[k].quantity = q /\ positions[k].quantity = 0
          /\ positions'[k].currentPrice = paid
          /\ cash' = cash - q * paid - fee
          /\ buyFees' = buyFees + fee /\ buyFees \in Nat
        BY <2>1, <2>2, BuyFacts DEF TypeOK
    <3>2. /\ price \in Nat \ {0} /\ value \in Int /\ cash \in Int
          /\ Unit * (q * price) <= MaxPositionWeight * (cash + value)
          /\ Unit * (value + q * price) <= MaxTotalExposure * (cash + value)
        BY <2>1, <3>1, BuyWithin
    <3>3. ~ IsOpen(positions[k]) /\ IsOpen(positions'[k])
      <4>1. k \in OpenPositions(positions')
          BY <3>1
      <4> QED
          BY <3>1, <4>1 DEF IsOpen, OpenPositions
    <3> HIDE DEF q, price, paid, fee
    <3>4. PositionsValue(positions') = value + (q * paid - 0)
        BY <2>1, <3>1, <3>3, ValueReplaced DEF value
    <3> HIDE DEF value
    <3>5. q * paid \in Int /\ q * price \in Int
        BY <3>1, <3>2
    <3>6. Equity(positions', cash') + (buyFees' - buyFees) = cash + value
        BY <3>1, <3>2, <3>4, <3>5 DEF Equity
    <3>7. q * (paid - price) = q * paid - q * price
        BY <3>1, <3>2
    <3>8. PositionsValue(positions') - q * (paid - price) = value + q * price
        BY <3>2, <3>4, <3>5, <3>7
    <3>9. Within(k)
        BY <3>1, <3>2, <3>6, <3>8 DEF price
    <3>10. \A t \in DOMAIN bars : positions'[t].quantity > positions[t].quantity => t = k
        BY <2>1, <3>1
    <3> QED
        BY <3>9, <3>10
  <2>3. ASSUME NEW k \in Tickers, Sell(k) PROVE AllWithin
    <3>1. positions'[k].quantity = 0 /\ \A u \in Tickers \ {k} : positions'[u] = positions[u]
        BY <2>1, <2>3, SellFacts
    <3>2. \A t \in DOMAIN bars : ~ (positions'[t].quantity > positions[t].quantity)
        BY <2>1, <3>1
    <3> QED
        BY <3>2
  <2>4. CASE \E k \in Tickers : NoOrder(k)
    <3>1. positions' = positions
        BY <2>4 DEF NoOrder
    <3>2. \A t \in DOMAIN bars : ~ (positions'[t].quantity > positions[t].quantity)
        BY <2>1, <3>1
    <3> QED
        BY <3>2
  <2>5. CASE OpenDay \/ CloseDay \/ CloseDayFails \/ Finish \/ FinishFails \/ Ended
      BY <2>5 DEF OpenDay, CloseDay, CloseDayFails, Finish, FinishFails, Ended
  <2> QED
      BY <2>2, <2>3, <2>4, <2>5 DEF Next
<1> QED
    BY <1>1, Invariance, PTL DEF Spec, ExposureWithinLimits
=============================================================================
