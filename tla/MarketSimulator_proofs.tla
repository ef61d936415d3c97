----------------------- MODULE MarketSimulator_proofs -----------------------
(***************************************************************************)
(* Lemmas about the smallest and largest of a few numbers, and about what  *)
(* a fill costs.                                                           *)
(***************************************************************************)
EXTENDS MarketSimulator, PositionBook_proofs

LEMMA MaxOfTwo ==
    ASSUME NEW a \in Int, NEW b \in Int
    PROVE  /\ Max({a, b}) \in Int
           /\ Max({a, b}) \in {a, b} /\ Max({a, b}) >= a /\ Max({a, b}) >= b
<1>1. \E x \in {a, b} : \A y \in {a, b} : x >= y
    BY a >= b \/ b >= a
<1> QED
    BY <1>1 DEF Max

LEMMA MinOfTwo ==
    ASSUME NEW a \in Int, NEW b \in Int
    PROVE  /\ Min({a, b}) \in Int
           /\ Min({a, b}) \in {a, b} /\ Min({a, b}) <= a /\ Min({a, b}) <= b
<1>1. \E x \in {a, b} : \A y \in {a, b} : x <= y
    BY a <= b \/ b <= a
<1> QED
    BY <1>1 DEF Min

LEMMA MinOfThree ==
    ASSUME NEW a \in Int, NEW b \in Int, NEW c \in Int
    PROVE  /\ Min({a, b, c}) \in Int
           /\ Min({a, b, c}) <= a /\ Min({a, b, c}) <= b /\ Min({a, b, c}) <= c
<1>1. \E x \in {a, b, c} : \A y \in {a, b, c} : x <= y
    BY (a <= b \/ b <= a) /\ (b <= c \/ c <= b) /\ (a <= c \/ c <= a)
<1> QED
    BY <1>1 DEF Min

\* A non-empty bounded set of naturals has a maximum.
LEMMA MaxOfBounded ==
    ASSUME NEW S \in SUBSET Nat, S # {}, NEW bound \in Nat, \A x \in S : x <= bound
    PROVE  Max(S) \in S /\ \A y \in S : y <= Max(S)
<1> DEFINE gaps == {bound - x : x \in S}
<1>1. gaps \in SUBSET Nat /\ gaps # {}
  <2>1. \A x \in S : x \in Nat /\ bound - x \in Nat
      OBVIOUS
  <2> QED
      BY <2>1
<1>2. PICK g \in gaps : \A h \in gaps : g <= h
    BY <1>1, SmallestElement
<1>3. PICK x \in S : g = bound - x
    BY <1>2
<1>4. \A y \in S : x >= y
    BY <1>2, <1>3
<1>5. \E m \in S : \A y \in S : m >= y
    BY <1>4
<1> QED
    BY <1>5 DEF Max
-----------------------------------------------------------------------------
LEMMA PartNat ==
    ASSUME NEW amount \in Nat, NEW rate \in Nat
    PROVE  Part(amount, rate) \in Nat
<1>1. amount * rate \in Nat
    OBVIOUS
<1> QED
    BY <1>1, UnitAssumption DEF Part

LEMMA PartInt ==
    ASSUME NEW amount \in Int, NEW rate \in Nat
    PROVE  Part(amount, rate) \in Int
<1>1. amount * rate \in Int
    OBVIOUS
<1> QED
    BY <1>1, UnitAssumption DEF Part

LEMMA PartMonotone ==
    ASSUME NEW a \in Nat, NEW b \in Nat, a <= b, NEW rate \in Nat
    PROVE  Part(a, rate) <= Part(b, rate)
<1>1. a * rate \in Nat /\ b * rate \in Nat /\ a * rate <= b * rate
    OBVIOUS
<1> QED
    BY <1>1, UnitAssumption DEF Part

LEMMA FillPriceType ==
    ASSUME NEW side \in Sides, NEW base \in Nat
    PROVE  FillPrice(side, base) \in Int
    BY PartNat, CostAssumption DEF FillPrice

LEMMA BuyPricePositive ==
    ASSUME NEW base \in Nat \ {0}
    PROVE  FillPrice("buy", base) \in Nat \ {0}
<1>1. Part(base, SlippageRate) \in Nat
    BY PartNat, CostAssumption
<1> QED
    BY <1>1 DEF FillPrice

LEMMA FeeInt ==
    ASSUME NEW quantity \in Nat, NEW price \in Int
    PROVE  Fee(quantity, price) \in Nat
<1> DEFINE notional == quantity * price
<1> DEFINE least == IF notional > 0 THEN MinFee ELSE 0
<1>1. notional \in Int
    OBVIOUS
<1>2. least \in Nat /\ Part(notional, FeeRate) \in Int
    BY <1>1, PartInt, CostAssumption
<1>3. Fee(quantity, price) = Max({Part(notional, FeeRate), least})
    BY DEF Fee
<1> HIDE DEF least
<1>4. \A x \in Int : Max({x, least}) \in Nat
  <2> TAKE x \in Int
  <2>1. Max({x, least}) \in Int /\ Max({x, least}) >= least
      BY <1>2, MaxOfTwo
  <2> QED
      BY <1>2, <2>1
<1> QED
    BY <1>2, <1>3, <1>4

LEMMA TaxInt ==
    ASSUME NEW side \in Sides, NEW quantity \in Nat, NEW price \in Int
    PROVE  Tax(side, quantity, price) \in Int
<1>1. quantity * price \in Int
    OBVIOUS
<1> QED
    BY <1>1, PartInt, CostAssumption DEF Tax

\* Fewer shares at the same price never cost more.
LEMMA CashNeededMonotone ==
    ASSUME NEW price \in Nat, NEW q \in Nat, NEW r \in Nat, r <= q
    PROVE  CashNeeded(r, price) <= CashNeeded(q, price)
<1> DEFINE nr == r * price
<1> DEFINE nq == q * price
<1>1. nr \in Nat /\ nq \in Nat /\ nr <= nq
    OBVIOUS
<1> DEFINE lr == IF nr > 0 THEN MinFee ELSE 0
<1> DEFINE lq == IF nq > 0 THEN MinFee ELSE 0
<1>2. lr \in Nat /\ lq \in Nat /\ lr <= lq
    BY <1>1, CostAssumption
<1>3. /\ Part(nr, FeeRate) \in Nat /\ Part(nq, FeeRate) \in Nat
      /\ Part(nr, FeeRate) <= Part(nq, FeeRate)
    BY <1>1, PartNat, PartMonotone, CostAssumption
<1>4. /\ CashNeeded(r, price) = nr + Max({Part(nr, FeeRate), lr})
      /\ CashNeeded(q, price) = nq + Max({Part(nq, FeeRate), lq})
    BY DEF CashNeeded, Fee
<1> HIDE DEF nr, nq, lr, lq
<1>5. \A x, y \in Nat : x <= y =>
          /\ Max({x, lr}) \in Int /\ Max({y, lq}) \in Int
          /\ Max({x, lr}) <= Max({y, lq})
  <2> SUFFICES ASSUME NEW x \in Nat, NEW y \in Nat, x <= y
               PROVE  /\ Max({x, lr}) \in Int /\ Max({y, lq}) \in Int
                      /\ Max({x, lr}) <= Max({y, lq})
      OBVIOUS
  <2>1. Max({x, lr}) \in Int /\ Max({x, lr}) \in {x, lr}
      BY <1>2, MaxOfTwo
  <2>2. Max({y, lq}) \in Int /\ Max({y, lq}) >= y /\ Max({y, lq}) >= lq
      BY <1>2, MaxOfTwo
  <2> QED
      BY <1>2, <2>1, <2>2
<1>6. /\ Max({Part(nr, FeeRate), lr}) \in Int /\ Max({Part(nq, FeeRate), lq}) \in Int
      /\ Max({Part(nr, FeeRate), lr}) <= Max({Part(nq, FeeRate), lq})
    BY <1>3, <1>5
<1> QED
    BY <1>1, <1>4, <1>6

\* What affordable_quantity returns, cash covers at the slipped price with
\* the fee included.
LEMMA AffordableIsCovered ==
    ASSUME NEW cash \in Int, NEW price \in Nat \ {0}, NEW desired \in Int
    PROVE  LET q == AffordableQuantity(cash, price, desired)
           IN  /\ q \in Nat
               /\ q > 0 => CashNeeded(q, FillPrice("buy", price)) <= cash
<1> DEFINE estimated == FillPrice("buy", price)
<1> DEFINE start == Min({desired, cash \div estimated})
<1> DEFINE choices == {0} \cup {q \in 1 .. start : CashNeeded(q, estimated) <= cash}
<1>1. estimated \in Nat \ {0}
    BY BuyPricePositive
<1> HIDE DEF estimated
<1>2. cash \div estimated \in Int
    BY <1>1
<1>3. start \in Int
    BY <1>2, MinOfTwo
<1> HIDE DEF start
<1>4. choices \in SUBSET Nat /\ choices # {}
    BY <1>3
<1>5. PICK bound \in Nat : \A x \in choices : x <= bound
  <2>1. CASE start >= 0
      BY <2>1, <1>3
  <2>2. CASE start < 0
      BY <2>2, <1>3
  <2> QED
      BY <2>1, <2>2, <1>3
<1>6. Max(choices) \in choices
    BY <1>4, <1>5, MaxOfBounded
<1>7. AffordableQuantity(cash, price, desired) = Max(choices)
    BY DEF AffordableQuantity, estimated, start
<1> QED
    BY <1>4, <1>6, <1>7 DEF estimated
-----------------------------------------------------------------------------
\* A purchase costs at least its quote ...
LEMMA PurchaseAboveQuote ==
    ASSUME NEW base \in Nat \ {0}, NEW q \in Nat
    PROVE  q * base <= q * FillPrice("buy", base) + Fee(q, FillPrice("buy", base))
<1> DEFINE price == FillPrice("buy", base)
<1>1. Part(base, SlippageRate) \in Nat
    BY PartNat, CostAssumption
<1>2. price \in Nat /\ price >= base
    BY <1>1 DEF FillPrice
<1> HIDE DEF price
<1>3. Fee(q, price) \in Nat
    BY <1>2, FeeInt
<1>4. q * base <= q * price
    BY <1>2
<1> QED
    BY <1>3, <1>4, <1>2 DEF price

\* ... and a sale brings at most its quote, if slippage leaves a price at all.
LEMMA SaleBelowQuote ==
    ASSUME SlippageRate <= Unit, NEW base \in Nat \ {0}, NEW q \in Nat
    PROVE  LET price == FillPrice("sell", base)
           IN  q * price - Fee(q, price) - Tax("sell", q, price) <= q * base
<1> DEFINE price == FillPrice("sell", base)
<1>1. Part(base, SlippageRate) \in Nat
    BY PartNat, CostAssumption
<1>2. base * SlippageRate <= base * Unit
    BY CostAssumption, UnitAssumption
<1>3. Part(base, SlippageRate) <= base
  <2>1. base * SlippageRate \in Nat /\ base * Unit \in Nat
      BY CostAssumption, UnitAssumption
  <2> QED
      BY <1>2, <2>1, UnitAssumption DEF Part
<1>4. price \in Nat /\ price <= base
    BY <1>1, <1>3 DEF FillPrice
<1> HIDE DEF price
<1>5. Fee(q, price) \in Nat
    BY <1>4, FeeInt
<1>6. q * price \in Nat /\ q * price <= q * base
    BY <1>4
<1>7. Tax("sell", q, price) \in Nat
    BY <1>6, PartNat, CostAssumption DEF Tax
<1> QED
    BY <1>5, <1>6, <1>7 DEF price
=============================================================================
