------------------------------- MODULE Money -------------------------------
(***************************************************************************)
(* Amounts and rates.  The program computes with floats; here every amount *)
(* is an integer number of minor units, and a rate (fee_rate, tax_rate,    *)
(* slippage_bps / 10000, max_position_weight, ...) is a whole number of    *)
(* Unit-ths.  Instances choose prices that make every quotient of a fill   *)
(* exact, so that nothing depends on how a fraction would be rounded.      *)
(***************************************************************************)
EXTENDS Sums, FiniteSetsExt

CONSTANT Unit          \* the rate 1.0, e.g. 100 when rates are percentages

ASSUME UnitAssumption == Unit \in Nat \ {0}

\* The share of an amount that a rate selects.
Part(amount, rate) == (amount * rate) \div Unit
=============================================================================
