---------------------------- MODULE MCPaperFill -----------------------------
(* Instances of PaperFill for TLC: what the strategies of each venue send. *)
EXTENDS PaperFill, TLC

CONSTANTS i1, i2

Limit(i, side, px, ioc) == [iid |-> i, side |-> side, px |-> px, ioc |-> ioc]

\* Polymarket: limit orders, IOC as the arbitrage, mean reversion and fade
\* strategies send them, and a resting one as in the engine's tests.
PmSpecs == {Limit(i1, "BUY", 2, TRUE), Limit(i1, "SELL", 2, TRUE),
            Limit(i1, "BUY", 1, FALSE)}

\* Hyperliquid: market orders with IOC from every trend strategy.
HlMarket == {Limit(i1, "BUY", NoPrice, TRUE)}
=============================================================================
