------------------------------ MODULE MCResearch ------------------------------
(* Research for TLC: the state spaces of its components add up.               *)
EXTENDS Research, TLC

CONSTANTS s1, s2, a, b

TwoMarkets == <<"m1", "m2">>
TwoCoins == <<"BTC", "ETH">>
\* Optimize: a profitable run, one with a low Sharpe and few trades, a loss.
Mixed == {[sharpe |-> 12, pnl |-> 3, trades |-> 60], [sharpe |-> 4, pnl |-> 2, trades |-> 12],
          [sharpe |-> -6, pnl |-> -2, trades |-> 60]}
\* Intake: sources with titles of their own.
OwnSlugs == s1 :> a @@ s2 :> b
\* One flat file is a spec, under another's name; the other is not.
LegacyFiles == a :> [src |-> s2, spec |-> TRUE] @@ b :> [src |-> s1, spec |-> FALSE]
===============================================================================
