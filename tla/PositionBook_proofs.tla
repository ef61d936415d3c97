------------------------ MODULE PositionBook_proofs ------------------------
(***************************************************************************)
(* Lemmas about the sums of PositionBook, proved by taking the smallest    *)
(* counterexample, and what fills and marks do to a book.                  *)
(***************************************************************************)
EXTENDS PositionBook, WellFoundedInduction, FiniteSetTheorems, TLAPS

\* A non-empty set of naturals has a smallest element.
LEMMA SmallestElement ==
    ASSUME NEW T \in SUBSET Nat, T # {}
    PROVE  \E m \in T : \A n \in T : m <= n
<1>1. IsWellFoundedOn(OpToRel(<, Nat), Nat)
    BY NatLessThanWellFounded
<1>2. PICK m \in T : \A n \in T : ~(<<n, m>> \in OpToRel(<, Nat))
    BY <1>1, WFMin, Zenon
<1>3. \A n \in T : ~(n < m)
    BY <1>2 DEF OpToRel
<1> QED
    BY <1>3
-----------------------------------------------------------------------------
\* What the recursive function inside SumUpTo is, for a sum of n terms.
IsSumUpTo(f, amount, n) ==
    f = [i \in 0 .. n |-> IF i = 0 THEN 0 ELSE f[i - 1] + amount[i]]

LEMMA SumExists ==
    ASSUME NEW amount, NEW N \in Nat
    PROVE  \E f : IsSumUpTo(f, amount, N)
<1> DEFINE Bad == {n \in Nat : ~ \E f : IsSumUpTo(f, amount, n)}
<1> SUFFICES ASSUME Bad # {} PROVE FALSE
    OBVIOUS
<1>1. PICK m \in Bad : \A n \in Bad : m <= n
    BY SmallestElement
<1>2. m # 0
  <2>1. IsSumUpTo([i \in 0 .. 0 |-> 0], amount, 0)
      BY DEF IsSumUpTo
  <2> QED
      BY <2>1
<1>3. m - 1 \in Nat /\ m - 1 \notin Bad
    BY <1>1, <1>2
<1>4. PICK f : IsSumUpTo(f, amount, m - 1)
    BY <1>3
<1> DEFINE g == [i \in 0 .. m |-> IF i = m THEN f[m - 1] + amount[m] ELSE f[i]]
<1>5. IsSumUpTo(g, amount, m)
  <2> DEFINE h == [i \in 0 .. m |-> IF i = 0 THEN 0 ELSE g[i - 1] + amount[i]]
  <2>1. \A i \in 0 .. m - 1 : f[i] = IF i = 0 THEN 0 ELSE f[i - 1] + amount[i]
      BY <1>4, <1>3 DEF IsSumUpTo
  <2>2. \A i \in 0 .. m : g[i] = h[i]
    <3> TAKE i \in 0 .. m
    <3>1. CASE i = m
        BY <3>1, <1>2, <1>3
    <3>2. CASE i # m
        BY <3>2, <2>1, <1>3
    <3> QED
        BY <3>1, <3>2
  <2>3. g = h
      BY <2>2
  <2> QED
      BY <2>3 DEF IsSumUpTo
<1> QED
    BY <1>5, <1>1
-----------------------------------------------------------------------------
\* A sum is the last of its partial sums.
LEMMA SumUpToIsSum ==
    ASSUME NEW amount, NEW n \in Nat
    PROVE  \E f : IsSumUpTo(f, amount, n) /\ SumUpTo(amount, n) = f[n]
<1> DEFINE upTo == CHOOSE f : IsSumUpTo(f, amount, n)
<1>1. IsSumUpTo(upTo, amount, n)
    BY SumExists
<1>2. SumUpTo(amount, n) = upTo[n]
    BY DEF SumUpTo, IsSumUpTo
<1> QED
    BY <1>1, <1>2

\* The partial sums of two lists that agree up to n agree up to n.
LEMMA SumsAgree ==
    ASSUME NEW a, NEW b, NEW n \in Nat, NEW m \in Nat, n <= m,
           \A i \in 1 .. n : a[i] = b[i],
           NEW f, IsSumUpTo(f, a, n), NEW g, IsSumUpTo(g, b, m)
    PROVE  \A i \in 0 .. n : f[i] = g[i]
<1> DEFINE Bad == {i \in 0 .. n : f[i] # g[i]}
<1> SUFFICES ASSUME Bad # {} PROVE FALSE
    OBVIOUS
<1>0. Bad \in SUBSET Nat
    OBVIOUS
<1>1. PICK k \in Bad : \A i \in Bad : k <= i
    BY <1>0, SmallestElement
<1>2. k # 0
    BY DEF IsSumUpTo
<1>3. k \in 1 .. n /\ k - 1 \in 0 .. n /\ k - 1 \notin Bad
    BY <1>1, <1>2
<1>4. f[k] = f[k - 1] + a[k] /\ g[k] = g[k - 1] + b[k]
    BY <1>3 DEF IsSumUpTo
<1> QED
    BY <1>3, <1>4

LEMMA SumOfNothing ==
    ASSUME NEW a
    PROVE  SumUpTo(a, 0) = 0
<1>1. PICK f : IsSumUpTo(f, a, 0) /\ SumUpTo(a, 0) = f[0]
    BY SumUpToIsSum
<1> QED
    BY <1>1 DEF IsSumUpTo

\* One amount more.
LEMMA SumOfOneMore ==
    ASSUME NEW a, NEW b, NEW n \in Nat, \A i \in 1 .. n : a[i] = b[i]
    PROVE  SumUpTo(b, n + 1) = SumUpTo(a, n) + b[n + 1]
<1>1. PICK f : IsSumUpTo(f, a, n) /\ SumUpTo(a, n) = f[n]
    BY SumUpToIsSum
<1>2. PICK g : IsSumUpTo(g, b, n + 1) /\ SumUpTo(b, n + 1) = g[n + 1]
    BY SumUpToIsSum
<1>3. f[n] = g[n]
  <2> DEFINE m == n + 1
  <2>1. m \in Nat /\ n <= m /\ n \in 0 .. n /\ IsSumUpTo(g, b, m)
      BY <1>2
  <2> HIDE DEF m
  <2>2. \A i \in 0 .. n : f[i] = g[i]
      BY <1>1, <2>1, SumsAgree
  <2> QED
      BY <2>1, <2>2
<1>4. g[n + 1] = g[n] + b[n + 1]
    BY <1>2 DEF IsSumUpTo
<1> QED
    BY <1>1, <1>2, <1>3, <1>4

LEMMA SumIsInt ==
    ASSUME NEW a, NEW n \in Nat, \A i \in 1 .. n : a[i] \in Int
    PROVE  SumUpTo(a, n) \in Int
<1>1. PICK f : IsSumUpTo(f, a, n) /\ SumUpTo(a, n) = f[n]
    BY SumUpToIsSum
<1> DEFINE Bad == {i \in 0 .. n : f[i] \notin Int}
<1>2. ASSUME Bad # {} PROVE FALSE
  <2>0. Bad \in SUBSET Nat
      OBVIOUS
  <2>1. PICK k \in Bad : \A i \in Bad : k <= i
      BY <1>2, <2>0, SmallestElement
  <2>2. k # 0
      BY <1>1 DEF IsSumUpTo
  <2>3. k \in 1 .. n /\ k - 1 \in 0 .. n /\ k - 1 \notin Bad
      BY <2>1, <2>2
  <2>4. f[k] = f[k - 1] + a[k] /\ a[k] \in Int
      BY <1>1, <2>3 DEF IsSumUpTo
  <2> QED
      BY <2>3, <2>4
<1> QED
    BY <1>1, <1>2
-----------------------------------------------------------------------------
LEMMA TotalIsSum ==
    ASSUME NEW amount
    PROVE  \E f : IsSumUpTo(f, amount, NumTickers) /\ Total(amount) = f[NumTickers]
    BY SumUpToIsSum, TickerAssumption DEF Total

\* The partial sums one at a time.
LEMMA SumStep ==
    ASSUME NEW f, NEW amount, IsSumUpTo(f, amount, NumTickers)
    PROVE  /\ f[0] = 0
           /\ \A n \in Tickers : f[n] = f[n - 1] + amount[n]
    BY TickerAssumption DEF IsSumUpTo, Tickers

LEMMA SumType ==
    ASSUME NEW f, NEW amount \in [Tickers -> Int], IsSumUpTo(f, amount, NumTickers)
    PROVE  \A n \in 0 .. NumTickers : f[n] \in Int
<1> DEFINE Bad == {n \in 0 .. NumTickers : f[n] \notin Int}
<1> SUFFICES ASSUME Bad # {} PROVE FALSE
    OBVIOUS
<1>1. Bad \in SUBSET Nat
    BY TickerAssumption
<1>2. PICK m \in Bad : \A n \in Bad : m <= n
    BY <1>1, SmallestElement
<1>3. m # 0
    BY SumStep
<1>4. m \in Tickers /\ m - 1 \in 0 .. NumTickers /\ m - 1 \notin Bad
    BY <1>2, <1>3, TickerAssumption DEF Tickers
<1>5. f[m] = f[m - 1] + amount[m] /\ amount[m] \in Int
    BY <1>4, SumStep
<1> QED
    BY <1>4, <1>5

LEMMA TotalType ==
    ASSUME NEW amount \in [Tickers -> Int]
    PROVE  Total(amount) \in Int
    BY TotalIsSum, SumType, TickerAssumption

\* Larger amounts have a larger sum.
LEMMA TotalMonotone ==
    ASSUME NEW a \in [Tickers -> Int], NEW b \in [Tickers -> Int],
           \A t \in Tickers : a[t] <= b[t]
    PROVE  Total(a) <= Total(b)
<1>1. PICK f : IsSumUpTo(f, a, NumTickers) /\ Total(a) = f[NumTickers]
    BY TotalIsSum
<1>2. PICK g : IsSumUpTo(g, b, NumTickers) /\ Total(b) = g[NumTickers]
    BY TotalIsSum
<1>3. \A n \in 0 .. NumTickers : f[n] \in Int /\ g[n] \in Int
    BY <1>1, <1>2, SumType
<1> DEFINE Bad == {n \in 0 .. NumTickers : ~(f[n] <= g[n])}
<1>4. ASSUME Bad # {} PROVE FALSE
  <2>1. Bad \in SUBSET Nat
      BY TickerAssumption
  <2>2. PICK m \in Bad : \A n \in Bad : m <= n
      BY <1>4, <2>1, SmallestElement
  <2>3. m # 0
      BY <1>1, <1>2, SumStep
  <2>4. m \in Tickers /\ m - 1 \in 0 .. NumTickers /\ m - 1 \notin Bad
      BY <2>2, <2>3, TickerAssumption DEF Tickers
  <2>5. f[m] = f[m - 1] + a[m] /\ g[m] = g[m - 1] + b[m]
      BY <1>1, <1>2, <2>4, SumStep
  <2>6. f[m - 1] <= g[m - 1] /\ a[m] <= b[m]
      BY <2>4
  <2>7. f[m] <= g[m]
      BY <2>4, <2>5, <2>6, <1>3
  <2> QED
      BY <2>7
<1> QED
    BY <1>1, <1>2, <1>4, TickerAssumption

\* Changing one amount changes the sum by the difference.
LEMMA TotalUpdate ==
    ASSUME NEW a \in [Tickers -> Int], NEW b \in [Tickers -> Int], NEW k \in Tickers,
           \A t \in Tickers \ {k} : b[t] = a[t]
    PROVE  Total(b) = Total(a) + (b[k] - a[k])
<1>1. PICK f : IsSumUpTo(f, a, NumTickers) /\ Total(a) = f[NumTickers]
    BY TotalIsSum
<1>2. PICK g : IsSumUpTo(g, b, NumTickers) /\ Total(b) = g[NumTickers]
    BY TotalIsSum
<1>3. \A n \in 0 .. NumTickers : f[n] \in Int /\ g[n] \in Int
    BY <1>1, <1>2, SumType
<1> DEFINE shift(n) == IF k <= n THEN b[k] - a[k] ELSE 0
<1> DEFINE Bad == {n \in 0 .. NumTickers : g[n] # f[n] + shift(n)}
<1>4. ASSUME Bad # {} PROVE FALSE
  <2>1. Bad \in SUBSET Nat
      BY TickerAssumption
  <2>2. PICK m \in Bad : \A n \in Bad : m <= n
      BY <1>4, <2>1, SmallestElement
  <2>3. m # 0
      BY <1>1, <1>2, SumStep DEF Tickers
  <2>4. m \in Tickers /\ m - 1 \in 0 .. NumTickers /\ m - 1 \notin Bad
      BY <2>2, <2>3, TickerAssumption DEF Tickers
  <2>5. f[m] = f[m - 1] + a[m] /\ g[m] = g[m - 1] + b[m]
      BY <1>1, <1>2, <2>4, SumStep
  <2>6. g[m - 1] = f[m - 1] + shift(m - 1)
      BY <2>4
  <2>7. f[m] \in Int /\ g[m] \in Int /\ f[m - 1] \in Int /\ g[m - 1] \in Int
        /\ a[m] \in Int /\ b[m] \in Int /\ a[k] \in Int /\ b[k] \in Int
      BY <1>3, <2>4
  <2>8. CASE m = k
    <3>1. shift(m) = b[k] - a[k] /\ shift(m - 1) = 0
        BY <2>8 DEF Tickers
    <3> QED
        BY <3>1, <2>5, <2>6, <2>7, <2>8
  <2>9. CASE m # k
    <3>1. shift(m) = shift(m - 1)
        BY <2>9, <2>4 DEF Tickers
    <3>2. b[m] = a[m]
        BY <2>9, <2>4
    <3> HIDE DEF shift
    <3>3. shift(m - 1) \in Int
        BY <2>7 DEF shift
    <3>4. g[m] = f[m] + shift(m)
        BY <3>1, <3>2, <3>3, <2>5, <2>6, <2>7
    <3> QED
        BY <3>4
  <2> QED
      BY <2>8, <2>9
<1>5. g[NumTickers] = f[NumTickers] + shift(NumTickers) /\ k <= NumTickers
    BY <1>4, TickerAssumption DEF Tickers
<1> QED
    BY <1>1, <1>2, <1>5

\* A sum of nothing, and of no negative amount.
LEMMA TotalZero ==
    ASSUME NEW a \in [Tickers -> Int], \A t \in Tickers : a[t] = 0
    PROVE  Total(a) = 0
<1>1. PICK f : IsSumUpTo(f, a, NumTickers) /\ Total(a) = f[NumTickers]
    BY TotalIsSum
<1> DEFINE Bad == {n \in 0 .. NumTickers : f[n] # 0}
<1>2. ASSUME Bad # {} PROVE FALSE
  <2>1. Bad \in SUBSET Nat
      BY TickerAssumption
  <2>2. PICK m \in Bad : \A n \in Bad : m <= n
      BY <1>2, <2>1, SmallestElement
  <2>3. m # 0
      BY <1>1, SumStep
  <2>4. m \in Tickers /\ m - 1 \in 0 .. NumTickers /\ m - 1 \notin Bad
      BY <2>2, <2>3, TickerAssumption DEF Tickers
  <2>5. f[m] = f[m - 1] + a[m]
      BY <1>1, <2>4, SumStep
  <2> QED
      BY <2>4, <2>5
<1> QED
    BY <1>1, <1>2, TickerAssumption

LEMMA TotalNonNegative ==
    ASSUME NEW a \in [Tickers -> Int], \A t \in Tickers : a[t] >= 0
    PROVE  Total(a) >= 0
<1> DEFINE zero == [t \in Tickers |-> 0]
<1>1. Total(zero) = 0
    BY TotalZero
<1>2. Total(zero) <= Total(a)
    BY TotalMonotone
<1> QED
    BY <1>1, <1>2, TotalType
-----------------------------------------------------------------------------
Books == [Tickers -> Position]

\* status is open exactly while there are shares, and the average price is
\* reset with the last of them.
WellFormed(book) ==
    \A t \in Tickers :
        /\ book[t].status = "open" <=> book[t].quantity > 0
        /\ book[t].quantity = 0 => book[t].avgPrice = 0

\* A mark changes the price of some positions and nothing else.
LEMMA MarkKeepsBook ==
    ASSUME NEW book \in Books, NEW prices, \A t \in DOMAIN prices : prices[t] \in Int
    PROVE  /\ MarkToMarket(book, prices) \in Books
           /\ \A t \in Tickers :
                LET marked == MarkToMarket(book, prices)[t]
                IN  /\ marked.quantity = book[t].quantity
                    /\ marked.avgPrice = book[t].avgPrice
                    /\ marked.realizedPnl = book[t].realizedPnl
                    /\ marked.status = book[t].status
<1> DEFINE after(t) == IF t \in DOMAIN prices /\ IsOpen(book[t])
                       THEN [book[t] EXCEPT !.currentPrice = prices[t]]
                       ELSE book[t]
<1>1. ASSUME NEW t \in Tickers
      PROVE  /\ after(t) \in Position
             /\ after(t).quantity = book[t].quantity
             /\ after(t).avgPrice = book[t].avgPrice
             /\ after(t).realizedPnl = book[t].realizedPnl
             /\ after(t).status = book[t].status
    BY DEF Books, Position
<1>2. MarkToMarket(book, prices) = [t \in Tickers |-> after(t)]
    BY DEF MarkToMarket
<1> HIDE DEF after
<1> QED
    BY <1>1, <1>2 DEF Books

LEMMA MarkKeepsOpen ==
    ASSUME NEW book \in Books, NEW prices, \A t \in DOMAIN prices : prices[t] \in Int
    PROVE  OpenPositions(MarkToMarket(book, prices)) = OpenPositions(book)
    BY MarkKeepsBook DEF OpenPositions, IsOpen

LEMMA MarkKeepsShape ==
    ASSUME NEW book \in Books, NEW prices, \A t \in DOMAIN prices : prices[t] \in Int,
           WellFormed(book)
    PROVE  WellFormed(MarkToMarket(book, prices))
    BY MarkKeepsBook DEF WellFormed

LEMMA MarkKeepsPositive ==
    ASSUME NEW book \in Books, NEW prices,
           \A t \in DOMAIN prices : prices[t] \in Int /\ prices[t] > 0,
           \A t \in OpenPositions(book) : book[t].currentPrice > 0
    PROVE  LET marked == MarkToMarket(book, prices)
           IN  \A t \in OpenPositions(marked) : marked[t].currentPrice > 0
<1> DEFINE marked == MarkToMarket(book, prices)
<1>1. OpenPositions(marked) = OpenPositions(book)
    BY MarkKeepsOpen
<1>2. \A t \in OpenPositions(book) : marked[t].currentPrice > 0
    BY DEF MarkToMarket, OpenPositions, Books, Position
<1> QED
    BY <1>1, <1>2

LEMMA MarkKeepsCost ==
    ASSUME NEW book \in Books, NEW prices, \A t \in DOMAIN prices : prices[t] \in Int
    PROVE  /\ BookCost(MarkToMarket(book, prices)) = BookCost(book)
           /\ RealizedPnl(MarkToMarket(book, prices)) = RealizedPnl(book)
<1> DEFINE marked == MarkToMarket(book, prices)
<1>1. \A t \in Tickers : /\ marked[t].quantity * marked[t].avgPrice
                                = book[t].quantity * book[t].avgPrice
                         /\ marked[t].realizedPnl = book[t].realizedPnl
    BY MarkKeepsBook
<1> HIDE DEF marked
<1>2. [t \in Tickers |-> marked[t].quantity * marked[t].avgPrice]
        = [t \in Tickers |-> book[t].quantity * book[t].avgPrice]
    BY <1>1
<1>3. [t \in Tickers |-> marked[t].realizedPnl] = [t \in Tickers |-> book[t].realizedPnl]
    BY <1>1
<1> QED
    BY <1>2, <1>3 DEF BookCost, RealizedPnl, marked

\* The value of a book is a number, positive as soon as one position with a
\* positive price is open and no open position has a negative one.
LEMMA ValueType ==
    ASSUME NEW book \in Books
    PROVE  PositionsValue(book) \in Int
<1> DEFINE value == [t \in Tickers |-> IF IsOpen(book[t])
                                       THEN book[t].quantity * book[t].currentPrice ELSE 0]
<1>1. \A t \in Tickers : value[t] \in Int
    BY DEF Books, Position
<1>2. value \in [Tickers -> Int]
    BY <1>1
<1> QED
    BY <1>2, TotalType DEF PositionsValue

LEMMA ValuePositive ==
    ASSUME NEW book \in Books,
           \A t \in OpenPositions(book) : book[t].currentPrice > 0
    PROVE  /\ PositionsValue(book) >= 0
           /\ OpenPositions(book) # {} => PositionsValue(book) > 0
<1> DEFINE value == [t \in Tickers |-> IF IsOpen(book[t])
                                       THEN book[t].quantity * book[t].currentPrice ELSE 0]
<1>1. \A t \in Tickers : /\ value[t] \in Int /\ value[t] >= 0
                         /\ IsOpen(book[t]) => value[t] > 0
  <2> TAKE t \in Tickers
  <2>1. CASE IsOpen(book[t])
    <3>1. book[t].quantity \in Nat \ {0} /\ book[t].currentPrice \in Nat \ {0}
        BY <2>1 DEF OpenPositions, IsOpen, Books, Position
    <3>2. book[t].quantity * book[t].currentPrice \in Nat \ {0}
        BY <3>1
    <3> QED
        BY <2>1, <3>2
  <2>2. CASE ~ IsOpen(book[t])
      BY <2>2
  <2> QED
      BY <2>1, <2>2
<1>2. value \in [Tickers -> Int]
    BY <1>1
<1>3. PositionsValue(book) = Total(value)
    BY DEF PositionsValue
<1>4. Total(value) >= 0
    BY <1>1, <1>2, TotalNonNegative
<1>5. ASSUME NEW k \in Tickers, IsOpen(book[k]) PROVE Total(value) > 0
  <2> DEFINE others == [value EXCEPT ![k] = 0]
  <2>1. others \in [Tickers -> Int] /\ \A t \in Tickers : others[t] >= 0
      BY <1>1, <1>2
  <2>2. Total(others) >= 0 /\ Total(others) \in Int /\ Total(value) \in Int
      BY <2>1, <1>2, TotalNonNegative, TotalType
  <2>3. Total(value) = Total(others) + (value[k] - others[k])
      BY <2>1, <1>2, <1>5, TotalUpdate
  <2>4. value[k] > 0 /\ others[k] = 0 /\ value[k] \in Int
      BY <1>1, <1>2, <1>5
  <2> QED
      BY <2>2, <2>3, <2>4
<1> QED
    BY <1>3, <1>4, <1>5 DEF OpenPositions
-----------------------------------------------------------------------------
LEMMA SumsAreInt ==
    ASSUME NEW book \in Books
    PROVE  BookCost(book) \in Int /\ RealizedPnl(book) \in Int
<1> DEFINE cost == [t \in Tickers |-> book[t].quantity * book[t].avgPrice]
<1> DEFINE pnl == [t \in Tickers |-> book[t].realizedPnl]
<1>1. \A t \in Tickers : /\ book[t].quantity \in Int /\ book[t].avgPrice \in Int
                         /\ book[t].realizedPnl \in Int
    BY DEF Books, Position
<1>2. cost \in [Tickers -> Int] /\ pnl \in [Tickers -> Int]
    BY <1>1
<1> QED
    BY <1>2, TotalType DEF BookCost, RealizedPnl

\* The book when one position is replaced: what the sums become.
LEMMA ReplaceOne ==
    ASSUME NEW book \in Books, NEW k \in Tickers, NEW p \in Position
    PROVE  LET after == [book EXCEPT ![k] = p]
           IN  /\ after \in Books
               /\ BookCost(after) = BookCost(book)
                    + (p.quantity * p.avgPrice - book[k].quantity * book[k].avgPrice)
               /\ RealizedPnl(after) = RealizedPnl(book) + (p.realizedPnl - book[k].realizedPnl)
               /\ BookCost(book) \in Int /\ RealizedPnl(book) \in Int
<1> DEFINE after == [book EXCEPT ![k] = p]
<1> DEFINE cost0 == [t \in Tickers |-> book[t].quantity * book[t].avgPrice]
<1> DEFINE cost1 == [t \in Tickers |-> after[t].quantity * after[t].avgPrice]
<1> DEFINE pnl0 == [t \in Tickers |-> book[t].realizedPnl]
<1> DEFINE pnl1 == [t \in Tickers |-> after[t].realizedPnl]
<1>1. after \in Books
    BY DEF Books
<1>2. ASSUME NEW b \in Books, NEW t \in Tickers
      PROVE  b[t].quantity * b[t].avgPrice \in Int /\ b[t].realizedPnl \in Int
  <2>1. b[t].quantity \in Int /\ b[t].avgPrice \in Int /\ b[t].realizedPnl \in Int
      BY DEF Books, Position
  <2> QED
      BY <2>1
<1>3. /\ cost0 \in [Tickers -> Int] /\ cost1 \in [Tickers -> Int]
      /\ pnl0 \in [Tickers -> Int] /\ pnl1 \in [Tickers -> Int]
    BY <1>1, <1>2
<1>4. \A t \in Tickers \ {k} : cost1[t] = cost0[t] /\ pnl1[t] = pnl0[t]
    BY DEF Books
<1>5. /\ cost1[k] = p.quantity * p.avgPrice /\ pnl1[k] = p.realizedPnl
      /\ cost0[k] = book[k].quantity * book[k].avgPrice /\ pnl0[k] = book[k].realizedPnl
    BY DEF Books
<1>6. /\ BookCost(after) = Total(cost1) /\ BookCost(book) = Total(cost0)
      /\ RealizedPnl(after) = Total(pnl1) /\ RealizedPnl(book) = Total(pnl0)
    BY DEF BookCost, RealizedPnl
<1> HIDE DEF cost0, cost1, pnl0, pnl1
<1>7. Total(cost1) = Total(cost0) + (cost1[k] - cost0[k])
    BY <1>3, <1>4, TotalUpdate
<1>8. Total(pnl1) = Total(pnl0) + (pnl1[k] - pnl0[k])
    BY <1>3, <1>4, TotalUpdate
<1>9. Total(cost0) \in Int /\ Total(pnl0) \in Int
    BY <1>3, TotalType
<1> QED
    BY <1>1, <1>5, <1>6, <1>7, <1>8, <1>9

LEMMA OpenedPosition ==
    ASSUME NEW old \in Position, old.quantity = 0, old.avgPrice = 0,
           NEW fill, fill.quantity \in Nat \ {0}, fill.price \in Nat
    PROVE  LET p == AfterBuy(old, fill)
           IN  /\ p \in Position
               /\ p.quantity = fill.quantity /\ p.avgPrice = fill.price
               /\ p.currentPrice = fill.price /\ p.status = "open"
               /\ p.realizedPnl = old.realizedPnl
<1> DEFINE cost == old.avgPrice * old.quantity + fill.price * fill.quantity
<1> DEFINE shares == old.quantity + fill.quantity
<1>1. shares = fill.quantity
    OBVIOUS
<1>2. cost = fill.price * fill.quantity
    OBVIOUS
<1>3. (fill.price * fill.quantity) \div fill.quantity = fill.price
    OBVIOUS
<1>4. AfterBuy(old, fill) = [old EXCEPT !.quantity = shares, !.avgPrice = cost \div shares,
                                       !.currentPrice = fill.price, !.status = "open"]
    BY DEF AfterBuy
<1> HIDE DEF cost, shares
<1>5. AfterBuy(old, fill) = [old EXCEPT !.quantity = fill.quantity, !.avgPrice = fill.price,
                                       !.currentPrice = fill.price, !.status = "open"]
    BY <1>1, <1>2, <1>3, <1>4, Zenon
<1>6. fill.quantity \in Nat /\ fill.price \in Int
    OBVIOUS
<1> QED
    BY <1>5, <1>6 DEF Position

\* Entering a flat ticker: the position costs what the fill's shares cost.
LEMMA BuyFromFlat ==
    ASSUME NEW book \in Books, WellFormed(book), NEW k \in Tickers, book[k].quantity = 0,
           NEW fill, fill.side = "buy", fill.ticker = k,
           fill.quantity \in Nat \ {0}, fill.price \in Nat
    PROVE  LET after == ApplyFill(book, fill)
           IN  /\ after \in Books /\ WellFormed(after)
               /\ OpenPositions(after) = OpenPositions(book) \cup {k}
               /\ \A t \in Tickers \ {k} : after[t] = book[t]
               /\ after[k].quantity = fill.quantity
               /\ after[k].currentPrice = fill.price
               /\ BookCost(after) = BookCost(book) + fill.quantity * fill.price
               /\ RealizedPnl(after) = RealizedPnl(book)
<1> DEFINE p == AfterBuy(book[k], fill)
<1>1. book[k] \in Position /\ book[k].avgPrice = 0
    BY DEF Books, WellFormed
<1>3. /\ p.quantity = fill.quantity /\ p.avgPrice = fill.price
      /\ p.currentPrice = fill.price /\ p.status = "open"
      /\ p.realizedPnl = book[k].realizedPnl
      /\ p \in Position
    BY <1>1, OpenedPosition
<1>4. ApplyFill(book, fill) = [book EXCEPT ![k] = p]
    BY DEF ApplyFill, Books
<1> HIDE DEF p
<1> DEFINE after == [book EXCEPT ![k] = p]
<1>5. /\ after \in Books
      /\ BookCost(after) = BookCost(book)
           + (p.quantity * p.avgPrice - book[k].quantity * book[k].avgPrice)
      /\ RealizedPnl(after) = RealizedPnl(book) + (p.realizedPnl - book[k].realizedPnl)
      /\ BookCost(book) \in Int /\ RealizedPnl(book) \in Int
    BY <1>3, ReplaceOne
<1>6. after[k] = p /\ \A t \in Tickers \ {k} : after[t] = book[t]
    BY DEF Books
<1>7. WellFormed(after) /\ OpenPositions(after) = OpenPositions(book) \cup {k}
    BY <1>3, <1>6 DEF WellFormed, OpenPositions, IsOpen
<1>8. /\ BookCost(after) = BookCost(book) + fill.quantity * fill.price
      /\ RealizedPnl(after) = RealizedPnl(book)
  <2>1. p.quantity * p.avgPrice = fill.quantity * fill.price
      BY <1>3
  <2>2. fill.quantity * fill.price \in Int /\ book[k].quantity * book[k].avgPrice = 0
      BY <1>1
  <2>3. p.realizedPnl - book[k].realizedPnl = 0
      BY <1>1, <1>3 DEF Position
  <2> HIDE DEF after
  <2> QED
      BY <1>5, <2>1, <2>2, <2>3
<1> QED
    BY <1>3, <1>4, <1>5, <1>6, <1>7, <1>8

\* Leaving a ticker altogether: its cost goes and its profit is realised.
LEMMA SellAll ==
    ASSUME NEW book \in Books, WellFormed(book), NEW k \in Tickers,
           NEW fill, fill.side = "sell", fill.ticker = k,
           fill.quantity = book[k].quantity, fill.quantity > 0,
           fill.price \in Int, fill.fee \in Int, fill.tax \in Int
    PROVE  LET after == ApplyFill(book, fill)
           IN  /\ after \in Books /\ WellFormed(after)
               /\ OpenPositions(after) = OpenPositions(book) \ {k}
               /\ \A t \in Tickers \ {k} : after[t] = book[t]
               /\ after[k].quantity = 0
               /\ RealizedPnl(after) - BookCost(after)
                    = RealizedPnl(book) - BookCost(book)
                        + (fill.quantity * fill.price - fill.fee - fill.tax)
<1> DEFINE p == AfterSell(book[k], fill)
<1>1. /\ book[k] \in Position /\ fill.quantity \in Nat
      /\ book[k].avgPrice \in Int /\ book[k].realizedPnl \in Int
    BY DEF Books, Position
<1> DEFINE realized == (fill.price - book[k].avgPrice) * fill.quantity - fill.fee - fill.tax
<1>2. realized \in Int
    BY <1>1
<1>3. /\ p.quantity = 0 /\ p.avgPrice = 0 /\ p.currentPrice = 0 /\ p.status = "closed"
      /\ p.realizedPnl = book[k].realizedPnl + realized
      /\ p \in Position
    BY <1>1, <1>2 DEF AfterSell, Position
<1>4. realized = fill.quantity * fill.price - fill.quantity * book[k].avgPrice
                    - fill.fee - fill.tax
    BY <1>1
<1>5. ApplyFill(book, fill) = [book EXCEPT ![k] = p]
    BY DEF ApplyFill, Books
<1> HIDE DEF p, realized
<1> DEFINE after == [book EXCEPT ![k] = p]
<1>6. /\ after \in Books
      /\ BookCost(after) = BookCost(book)
           + (p.quantity * p.avgPrice - book[k].quantity * book[k].avgPrice)
      /\ RealizedPnl(after) = RealizedPnl(book) + (p.realizedPnl - book[k].realizedPnl)
      /\ BookCost(book) \in Int /\ RealizedPnl(book) \in Int
    BY <1>3, ReplaceOne
<1>7. after[k] = p /\ \A t \in Tickers \ {k} : after[t] = book[t]
    BY DEF Books
<1>8. WellFormed(after) /\ OpenPositions(after) = OpenPositions(book) \ {k}
    BY <1>3, <1>7 DEF WellFormed, OpenPositions, IsOpen
<1>9. RealizedPnl(after) - BookCost(after)
        = RealizedPnl(book) - BookCost(book)
            + (fill.quantity * fill.price - fill.fee - fill.tax)
  <2>1. p.quantity * p.avgPrice = 0
      BY <1>3
  <2>2. /\ fill.quantity * fill.price \in Int
        /\ fill.quantity * book[k].avgPrice \in Int
      BY <1>1
  <2>3. p.realizedPnl - book[k].realizedPnl = realized
      BY <1>1, <1>2, <1>3
  <2>4. book[k].quantity * book[k].avgPrice = fill.quantity * book[k].avgPrice
      OBVIOUS
  <2> HIDE DEF after
  <2> QED
      BY <1>2, <1>4, <1>6, <2>1, <2>2, <2>3, <2>4
<1> QED
    BY <1>3, <1>5, <1>6, <1>7, <1>8, <1>9
=============================================================================
