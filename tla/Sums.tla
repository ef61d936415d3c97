-------------------------------- MODULE Sums --------------------------------
(***************************************************************************)
(* The sum of a list of amounts, for whatever the code sums: the values of *)
(* positions, the prices of a window, the profits of trades.               *)
(***************************************************************************)
EXTENDS Integers

\* amount[1] + ... + amount[n], for a sequence or a function on 1 .. n.
SumUpTo(amount, n) ==
    LET upTo[i \in 0 .. n] == IF i = 0 THEN 0 ELSE upTo[i - 1] + amount[i]
    IN  upTo[n]
=============================================================================
