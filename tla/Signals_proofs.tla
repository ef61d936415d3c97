--------------------------- MODULE Signals_proofs ---------------------------
(***************************************************************************)
(* No look-ahead: what a row's executable signal is depends on the prices  *)
(* of the rows before it alone, for both averages and for all windows.     *)
(***************************************************************************)
EXTENDS Signals, SequenceTheorems, TLAPS

\* Two price series that agree up to row k.
AgreeUpTo(p, q, k) ==
    /\ k <= Len(p) /\ k <= Len(q)
    /\ \A i \in 1 .. k : p[i] = q[i]

LEMMA SmaLooksBack ==
    ASSUME NEW T, NEW p \in Seq(T), NEW q \in Seq(T), NEW k \in Nat,
           NEW window \in Nat \ {0}, AgreeUpTo(p, q, k)
    PROVE  SmaAt(p, k, window) = SmaAt(q, k, window)
<1>1. CASE k >= window
  <2> DEFINE a == SubSeq(p, k - window + 1, k)
             b == SubSeq(q, k - window + 1, k)
  <2>1. k <= Len(p) /\ k <= Len(q) /\ Len(p) \in Nat /\ Len(q) \in Nat
      BY LenProperties DEF AgreeUpTo
  <2>2. /\ a \in Seq(T) /\ Len(a) = window
        /\ \A i \in 1 .. window : a[i] = p[k - window + i]
    <3>1. \A i \in k - window + 1 .. k : p[i] \in T
        BY <2>1, <1>1, ElementOfSeq
    <3> QED
        BY <3>1, <2>1, <1>1, SubSeqProperties
  <2>3. /\ b \in Seq(T) /\ Len(b) = window
        /\ \A i \in 1 .. window : b[i] = q[k - window + i]
    <3>1. \A i \in k - window + 1 .. k : q[i] \in T
        BY <2>1, <1>1, ElementOfSeq
    <3> QED
        BY <3>1, <2>1, <1>1, SubSeqProperties
  <2>4. \A i \in 1 .. window : a[i] = b[i]
      BY <2>2, <2>3, <1>1 DEF AgreeUpTo
  <2>5. a = b
      BY <2>2, <2>3, <2>4, SeqEqual
  <2> QED
      BY <2>5 DEF SmaAt
<1>2. CASE ~ (k >= window)
    BY <1>2 DEF SmaAt
<1> QED
    BY <1>1, <1>2

\* The recursion of the exponential average is one and the same function.
LEMMA EmaLooksBack ==
    ASSUME NEW p, NEW q, NEW k \in Nat, NEW window, AgreeUpTo(p, q, k)
    PROVE  EmaAt(p, k, window) = EmaAt(q, k, window)
<1> DEFINE start == [seen |-> 0, num |-> 0, den |-> 1, old |-> 1, unit |-> 1]
           a(f) == [n \in 0 .. k |-> IF n = 0 THEN start ELSE EmaStep(f[n - 1], p[n], window)]
           b(f) == [n \in 0 .. k |-> IF n = 0 THEN start ELSE EmaStep(f[n - 1], q[n], window)]
<1>1. \A f : a(f) = b(f)
  <2> TAKE f
  <2>1. \A n \in 0 .. k : n # 0 => p[n] = q[n]
      BY DEF AgreeUpTo
  <2> QED
      BY <2>1
<1> DEFINE ofP == CHOOSE f : f = a(f)
           ofQ == CHOOSE f : f = b(f)
           average(f) == IF f[k].seen >= window THEN Fraction(f[k].num, f[k].den) ELSE Undefined
<1>2. ofP = ofQ
    BY <1>1, Zenon
<1>3. EmaAt(p, k, window) = average(ofP)
    BY DEF EmaAt
<1>4. EmaAt(q, k, window) = average(ofQ)
    BY DEF EmaAt
<1> HIDE DEF ofP, ofQ
<1> QED
    BY <1>2, <1>3, <1>4

LEMMA AverageLooksBack ==
    ASSUME NEW T, NEW p \in Seq(T), NEW q \in Seq(T), NEW k \in Nat, NEW maType,
           NEW window \in Nat \ {0}, AgreeUpTo(p, q, k)
    PROVE  AverageAt(p, k, window, maType) = AverageAt(q, k, window, maType)
    BY SmaLooksBack, EmaLooksBack DEF AverageAt

\* strategy_spec.md: the raw signal is of the current close, the executable
\* one is delayed by a row.  Whatever the price of row k and of the rows after
\* it, missing or not, what is executed in row k stays the same.
THEOREM NoHindsight ==
    ASSUME NEW T, NEW p \in Seq(T), NEW q \in Seq(T), NEW k \in Nat \ {0}, NEW strategy,
           strategy.short_window \in Nat \ {0}, strategy.long_window \in Nat \ {0},
           AgreeUpTo(p, q, k - 1)
    PROVE  ExecutableSignal(p, k, strategy) = ExecutableSignal(q, k, strategy)
<1>1. k - 1 \in Nat
    OBVIOUS
<1>2. AverageAt(p, k - 1, strategy.short_window, strategy.ma_type)
        = AverageAt(q, k - 1, strategy.short_window, strategy.ma_type)
    BY <1>1, AverageLooksBack
<1>3. AverageAt(p, k - 1, strategy.long_window, strategy.ma_type)
        = AverageAt(q, k - 1, strategy.long_window, strategy.ma_type)
    BY <1>1, AverageLooksBack
<1> QED
    BY <1>2, <1>3 DEF ExecutableSignal, RawSignal
=============================================================================
