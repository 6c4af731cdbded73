------------------------------- MODULE Backtest -------------------------------
(* A hypothesis backtest on Polymarket (runner/backtest.py): its markets run  *)
(* one after the other, each in a process of its own that answers with one    *)
(* line, and each is priced from its fills alone.  Prices are in ticks, One   *)
(* of which a matched pair of YES and NO pays.  The engine (NautilusTrader)   *)
(* is external: it fills what a strategy asks for.                            *)
EXTENDS Sums, FiniteSets, FiniteSetsExt

CONSTANTS
  MarketIds,   \* sequence of the markets the hypothesis selects
  Untokened,   \* those whose catalog row lacks a token id
  One,         \* ticks a pair pays
  TickPrices, Lots,  \* prices and sizes of fills
  MaxFills     \* bound: fills of the whole run

ASSUME BacktestAssumption ==
  /\ One \in Nat \ {0} /\ TickPrices \subseteq 1..(One - 1)
  /\ Lots \subseteq Nat \ {0} /\ MaxFills \in Nat
  /\ MarketIds \in Seq(ToSet(MarketIds))

VARIABLES
  left,     \* markets still to run
  engine,   \* the market that runs: its books' sources, and whether it has ticks
  fills,    \* its fills, in the order of time
  results,  \* results collected so far
  dropped   \* markets that ended without one

btVars == <<left, engine, fills, results, dropped>>

Legs == {"yes", "no"}
FillOf == [tok : Legs, buy : BOOLEAN, px : TickPrices, qty : Lots]
NoEngine == [runs |-> FALSE, ticks |-> FALSE, rebuilt |-> {}]

BtInit == /\ left = MarketIds /\ engine = NoEngine /\ fills = <<>>
          /\ results = <<>> /\ dropped = {}

-------------------------------------------------------------------------------
(* _per_pair_pnl_series                                                       *)

Lesser(x, y) == IF x < y THEN x ELSE y

\* One fill against the open lots of the other token: it takes them from the
\* oldest on, whatever its side, and what is left of it is open itself.
MatchWhole(tot, leg, px) ==
  LET k == Lesser(tot.qty, leg.qty)
  IN [qty |-> tot.qty - k, pnl |-> tot.pnl + k * (One - px - leg.px),
      rest |-> IF k > 0 THEN tot.rest ELSE Append(tot.rest, leg)]
MatchLeg(tot, leg, px) ==
  LET k == Lesser(tot.qty, leg.qty)
  IN [qty |-> tot.qty - k, pnl |-> tot.pnl + k * (One - px - leg.px),
      rest |-> IF k = leg.qty THEN tot.rest
               ELSE Append(tot.rest, [leg EXCEPT !.qty = @ - k])]

Matched(q, f, pnl) == FoldLeft(LAMBDA tot, leg : MatchLeg(tot, leg, f.px),
                               [qty |-> f.qty, pnl |-> pnl, rest |-> <<>>], q)

ArbStep(acc, f) ==
  LET other == CHOOSE t \in Legs : t # f.tok
      r == Matched(acc.q[other], f, acc.pnl)
  IN [pnl |-> r.pnl,
      q |-> [t \in Legs |->
               IF t = other THEN r.rest
               ELSE IF r.qty = 0 THEN acc.q[t]
               ELSE Append(acc.q[t], [px |-> f.px, qty |-> r.qty])]]
ArbSeries(fs) == FoldLeft(ArbStep, [pnl |-> 0, q |-> [t \in Legs |-> <<>>]], fs)

\* A single token: a fill closes the oldest open one of the other side, whose
\* rest is dropped with it.
TwoSidedStep(acc, f) ==
  LET i == SelectInSeq(acc.q, LAMBDA o : o.buy # f.buy)
      gain == IF acc.q[i].buy THEN f.px - acc.q[i].px ELSE acc.q[i].px - f.px
  IN IF i = 0 THEN [acc EXCEPT !.q = Append(@, f)]
     ELSE [pnl |-> acc.pnl + gain * Lesser(f.qty, acc.q[i].qty),
           q |-> RemoveAt(acc.q, i)]
TwoSidedSeries(fs) == FoldLeft(TwoSidedStep, [pnl |-> 0, q |-> <<>>], fs)

\* Two instruments in the log are taken for the two legs of an arbitrage.
SeriesPnl(fs) == IF {fs[i].tok : i \in DOMAIN fs} = Legs
                 THEN ArbSeries(fs).pnl ELSE TwoSidedSeries(fs).pnl

\* _terminal_pnl, in half ticks: matched shares pay One, the rest one half
Held(fs, t) == Total([i \in DOMAIN fs |-> IF fs[i].tok = t THEN fs[i].qty ELSE 0])
Spent(fs) == Total([i \in DOMAIN fs |-> fs[i].px * fs[i].qty])
TerminalPnl(fs) ==
  LET y == Held(fs, "yes") n == Held(fs, "no")
  IN One * (y + n) - 2 * Spent(fs)

\* _extract_result, in half ticks: what the pairs made, or without a pair what
\* the fills are worth
Paired(fs) == \/ {fs[i].tok : i \in DOMAIN fs} = Legs
              \/ {fs[i].buy : i \in DOMAIN fs} = BOOLEAN
MarketPnl(fs) == IF Paired(fs) THEN 2 * SeriesPnl(fs) ELSE TerminalPnl(fs)

-------------------------------------------------------------------------------
(* run_hypothesis                                                             *)

SkipMarket == /\ ~engine.runs /\ left # <<>> /\ Head(left) \in Untokened
              /\ left' = Tail(left) /\ dropped' = dropped \union {Head(left)}
              /\ UNCHANGED <<engine, fills, results>>

\* _load_execution_inputs of each token: its book comes from snapshots, or is
\* rebuilt from the trades; the tokens whose book was rebuilt.
BookSources == SUBSET Legs

BeginMarket(ticks, rebuilt) ==
  /\ ~engine.runs /\ left # <<>> /\ Head(left) \notin Untokened
  /\ engine' = [runs |-> TRUE, ticks |-> ticks, rebuilt |-> rebuilt]
  /\ UNCHANGED <<left, fills, results, dropped>>

\* What it sells it holds: the account is a CASH account.
Owned(fs, t) == Held(SelectSeq(fs, LAMBDA f : f.buy), t)
                  - Held(SelectSeq(fs, LAMBDA f : ~f.buy), t)
EngineFills(f) ==
  /\ engine.runs /\ engine.ticks
  /\ f.buy \/ f.qty <= Owned(fills, f.tok)
  /\ Len(fills) + Total([i \in DOMAIN results |-> results[i].fills]) < MaxFills
  /\ fills' = Append(fills, f)
  /\ UNCHANGED <<left, engine, results, dropped>>

\* _extract_result in the market's process; of what it prints the parent reads
\* the numbers of orders and trades, and nothing of where the books came from.
EndMarket ==
  /\ engine.runs
  /\ results' = Append(results, [m |-> Head(left), fills |-> Len(fills),
                                 pnl |-> MarketPnl(fills), rebuilt |-> FALSE])
  /\ left' = Tail(left) /\ engine' = NoEngine /\ fills' = <<>>
  /\ UNCHANGED dropped

\* The process fails, or runs for 600 seconds: logged, and its market passed over.
CrashMarket ==
  /\ engine.runs
  /\ left' = Tail(left) /\ engine' = NoEngine /\ fills' = <<>>
  /\ dropped' = dropped \union {Head(left)}
  /\ UNCHANGED results

BtNext == \/ SkipMarket \/ EndMarket \/ CrashMarket
          \/ \E ticks \in BOOLEAN, rebuilt \in BookSources : BeginMarket(ticks, rebuilt)
          \/ \E f \in FillOf : EngineFills(f)
BtSpec == BtInit /\ [][BtNext]_btVars

-------------------------------------------------------------------------------
BtTypeOK ==
  /\ left \in Seq(ToSet(MarketIds)) /\ fills \in Seq(FillOf)
  /\ engine \in [runs : BOOLEAN, ticks : BOOLEAN, rebuilt : BookSources]
  /\ results \in Seq([m : ToSet(MarketIds), fills : Nat, pnl : Int, rebuilt : BOOLEAN])
  /\ dropped \subseteq ToSet(MarketIds)

\* The two ways in which the runner prices a run that only bought agree on
\* what was matched: the pairs' profits, in whatever order and sizes the legs
\* were filled, are what the fills cost and pay, less the lots left over.
Worth(q) == Total([i \in DOMAIN q |-> q[i].qty * (One - 2 * q[i].px)])
SeriesIsTerminal ==
  LET acc == ArbSeries(fills)
  IN (\A i \in DOMAIN fills : fills[i].buy) =>
       2 * acc.pnl = TerminalPnl(fills) - (Worth(acc.q["yes"]) + Worth(acc.q["no"]))
===============================================================================
