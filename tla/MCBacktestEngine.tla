------------------------- MODULE MCBacktestEngine -------------------------
(***************************************************************************)
(* The instance of BacktestEngine that TLC checks.  Prices are multiples   *)
(* of 10000, so that 1% slippage and 1% of the slipped price are exact.    *)
(***************************************************************************)
EXTENDS BacktestEngine

\* Two prices, so that every bar is flat, rising or falling.
TwoPrices == {10000, 20000}
=============================================================================
