--------------------------- MODULE MCPaperBroker ---------------------------
(***************************************************************************)
(* The instance of PaperBroker that TLC checks.  The prices are multiples  *)
(* of 2^6 * 3^3 * 5 * 7, so that the averages of up to four buys of one or *)
(* two shares, each averaged into the last, are whole numbers.             *)
(***************************************************************************)
EXTENDS PaperBroker

Request(id, key, ticker, side, quantity) ==
    [id |-> id, key |-> key, ticker |-> ticker, side |-> side, quantity |-> quantity]

\* Two buys and two sells of one ticker and one buy of another, as an engine
\* would submit them.
EngineRequests ==
    { Request("b1", "b1", 1, "buy", 1),  Request("b2", "b2", 1, "buy", 1),
      Request("s1", "s1", 1, "sell", 1), Request("s2", "s2", 1, "sell", 2),
      Request("c1", "c1", 2, "buy", 1) }

\* The same key under another id, an id under another key, and no key at all.
AnyRequests ==
    { Request("b1", "k1", 1, "buy", 1),  Request("b2", "k1", 1, "buy", 1),
      Request("b2", "k2", 1, "buy", 2),  Request("s1", "none", 1, "sell", 1) }

TwoBars == {[open |-> 60480, close |-> 120960], [open |-> 120960, close |-> 60480]}
=============================================================================
