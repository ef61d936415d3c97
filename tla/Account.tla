------------------------------ MODULE Account ------------------------------
(***************************************************************************)
(* What a long-only account promises, whatever keeps it: shares and money  *)
(* change hands together, in single fills, at no better than a quoted      *)
(* price, and nothing is sold that is not held.  BacktestEngine and, for a *)
(* careful client, PaperBroker implement it; of their ledgers, marks, logs *)
(* and limits only the cash and the quantities are left here.              *)
(***************************************************************************)
EXTENDS Integers

CONSTANTS
    Tickers,
    Quotes,            \* the prices the market quotes
    Capital            \* the money the account starts with

VARIABLES
    cash,
    held               \* ticker -> shares

Init == cash = Capital /\ held = [t \in Tickers |-> 0]

OthersKept(t) == \A u \in Tickers \ {t} : held'[u] = held[u]

\* Slippage and fees make a purchase dearer than the quote ...
Purchase(t) ==
    /\ held'[t] > held[t] /\ OthersKept(t)
    /\ \E quote \in Quotes : cash' <= cash - quote * (held'[t] - held[t])

\* ... and a sale worth less than it, possibly less than nothing.
Sale(t) ==
    /\ 0 <= held'[t] /\ held'[t] < held[t] /\ OthersKept(t)
    /\ \E quote \in Quotes : cash' <= cash + quote * (held[t] - held'[t])

Next == \E t \in Tickers : Purchase(t) \/ Sale(t)

Spec == Init /\ [][Next]_<<cash, held>>

\* A strategy that is either in a ticker or out of it.
Enter(t) == held[t] = 0 /\ Purchase(t)
Leave(t) == held'[t] = 0 /\ Sale(t)

InOrOut == Init /\ [][\E t \in Tickers : Enter(t) \/ Leave(t)]_<<cash, held>>
=============================================================================
