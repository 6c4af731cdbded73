------------------------------ MODULE HlBacktest ------------------------------
(* A backtest on Hyperliquid (runner/hl_backtest.py): the coins run one after *)
(* the other; the account's balance after each fill is put on a grid of bars, *)
(* the funding of the position (research/funding.py) is added to it, and the  *)
(* coins' curves make the portfolio's.  Time is in slots, Grid slots a bar.   *)
(* The engine is external: it holds one unit long or short, or nothing.       *)
EXTENDS Sums, FiniteSets, FiniteSetsExt

CONSTANTS
  Coins,      \* sequence of the coins of the run
  Slots,      \* the window is 1..Slots
  Grid,       \* slots per bar
  HlPrices,   \* of fills
  MaxMoves    \* bound: fills and funding events of the whole run

ASSUME HlBacktestAssumption ==
  /\ Slots \in Nat \ {0} /\ Grid \in Nat \ {0} /\ MaxMoves \in Nat
  /\ HlPrices \subseteq Nat /\ Coins \in Seq(ToSet(Coins))

VARIABLES
  coinsLeft,
  slot,     \* the slot that is over; 0: the coin has not begun
  position,      \* position and entry price
  account,  \* account report: slot and balance, in the order of time
  orders,   \* fills: slot and signed quantity
  rates,    \* funding events of the coin: slot and rate times mark price
  markets,  \* results of the coins that are done
  moves

hlVars == <<coinsLeft, slot, position, account, orders, rates, markets, moves>>
Capital == 0 \* balances are relative to initial_capital
Flat == [qty |-> 0, px |-> 0]

HlInit == /\ coinsLeft = Coins /\ slot = 0 /\ position = Flat
          /\ account = <<>> /\ orders = <<>> /\ rates = <<>>
          /\ markets = <<>> /\ moves = 0

-------------------------------------------------------------------------------
(* _extract_result                                                            *)

LastAt(s, t) == SelectLastInSeq(s, LAMBDA x : x.at <= t)
ValueAt(s, t, else) == IF LastAt(s, t) = 0 THEN else ELSE s[LastAt(s, t)].val

\* _position_history_from_fills: the running sum of the signed fills
HistoryUnsigned(fs) ==
  [i \in DOMAIN fs |-> [at |-> fs[i].at, val |-> i]]
History(fs) ==
  [i \in DOMAIN fs |-> [at |-> fs[i].at, val |-> Total([j \in 1..i |-> fs[j].qty])]]

\* compute_funding_pnl: each event at the position last reached at or before it
Contributions(fs, rs) ==
  [i \in DOMAIN rs |-> [at |-> rs[i].at,
                        val |-> -ValueAt(History(fs), rs[i].at, 0) * rs[i].rate]]
SumUpTo(cs, t) == Total([i \in DOMAIN cs |-> IF cs[i].at <= t THEN cs[i].val ELSE 0])
FundingPnl(fs, rs) == SumUpTo(Contributions(fs, rs), Slots)

\* _resample_equity_to_bars: from the first row of the report to the last
\* before the last row, a point every Grid slots, each the last row until then
GridOf(acc) == {t \in acc[1].at..Last(acc).at : (t - acc[1].at) % Grid = 0}
Curve(acc) ==
  IF Last(acc).at = acc[1].at THEN {[at |-> acc[1].at, val |-> ValueAt(acc, Slots, Capital)]}
  ELSE {[at |-> t, val |-> ValueAt(acc, t, Capital)] : t \in GridOf(acc)}

\* equity_with_funding
WithFunding(curve, cs) == {[c EXCEPT !.val = @ + SumUpTo(cs, c.at)] : c \in curve}
EndOf(curve) == (CHOOSE c \in curve : \A d \in curve : d.at <= c.at).val

\* The coin's result: the price part is what is left of the terminal equity
\* when all of the funding is taken away.
Extract ==
  LET curve == WithFunding(Curve(account), Contributions(orders, rates))
      total == EndOf(curve) - Capital
  IN [curve |-> curve, total |-> total, funding |-> FundingPnl(orders, rates),
      price |-> total - FundingPnl(orders, rates)]

-------------------------------------------------------------------------------
(* run_multi_market, run_single                                               *)

\* The account's first row is the deposit, at the first bar.
BeginCoin == /\ slot = 0 /\ coinsLeft # <<>>
             /\ slot' = 1 /\ account' = <<[at |-> 1, val |-> Capital]>>
             /\ UNCHANGED <<coinsLeft, position, orders, rates, markets, moves>>

\* A position is opened, closed or turned in the slot.
CoinFill(q, px) ==
  /\ slot > 0 /\ moves < MaxMoves /\ moves' = moves + 1
  /\ q # 0 /\ position.qty + q \in -1..1
  /\ LET gain == IF position.qty # 0 THEN position.qty * (px - position.px) ELSE 0
     IN account' = Append(account, [at |-> slot, val |-> Last(account).val + gain])
  /\ position' = IF position.qty + q = 0 THEN Flat ELSE [qty |-> position.qty + q, px |-> px]
  /\ orders' = Append(orders, [at |-> slot, qty |-> q])
  /\ UNCHANGED <<coinsLeft, slot, rates, markets>>
FundingPaid(rate) ==
  /\ slot > 0 /\ moves < MaxMoves /\ moves' = moves + 1
  /\ \A i \in DOMAIN rates : rates[i].at # slot
  /\ rates' = Append(rates, [at |-> slot, rate |-> rate])
  /\ UNCHANGED <<coinsLeft, slot, position, account, orders, markets>>
NextSlot == /\ slot \in 1..(Slots - 1) /\ slot' = slot + 1
            /\ UNCHANGED <<coinsLeft, position, account, orders, rates, markets, moves>>

Cleared == /\ coinsLeft' = Tail(coinsLeft) /\ slot' = 0 /\ position' = Flat
           /\ account' = <<>> /\ orders' = <<>> /\ rates' = <<>> /\ UNCHANGED moves
EndCoin == /\ slot = Slots /\ Cleared /\ markets' = Append(markets, Extract)
\* No bars, or the engine raises: an empty curve, which the portfolio drops.
FailCoin == /\ slot > 0 /\ Cleared /\ UNCHANGED markets

\* _aggregate_portfolio: each curve held at its last value, at the capital
\* before its first; the mean's end, times the number of curves.
HeldAtPoint(curve, t) == LET here == {c \in curve : c.at = t}
                         IN IF here = {} THEN Capital ELSE EndOf(here)
HeldAt(curve, t) == LET past == {c \in curve : c.at <= t}
                    IN IF past = {} THEN Capital ELSE EndOf(past)
PortfolioEnd ==
  LET times == UNION {{c.at : c \in markets[i].curve} : i \in DOMAIN markets}
  IN IF times = {} THEN Capital
     ELSE Total([i \in DOMAIN markets |-> HeldAt(markets[i].curve, Max(times))])

HlNext == \/ BeginCoin \/ NextSlot \/ EndCoin \/ FailCoin
          \/ \E q \in {-2, -1, 1, 2}, px \in HlPrices : CoinFill(q, px)
          \/ \E rate \in {-1, 1} : FundingPaid(rate)
HlSpec == HlInit /\ [][HlNext]_hlVars

-------------------------------------------------------------------------------
CurveRow == [at : Nat, val : Int]
CoinOrder == [at : Nat, qty : Int]
Payment == [at : Nat, rate : Int]
CoinResult == [curve : SUBSET CurveRow, total : Int, funding : Int, price : Int]

HlTypeOK ==
  /\ coinsLeft \in Seq(ToSet(Coins)) /\ slot \in 0..Slots /\ moves \in 0..MaxMoves
  /\ slot > 0 => coinsLeft # <<>>
  /\ position \in [qty : -1..1, px : Int]
  /\ account \in Seq(CurveRow) /\ orders \in Seq(CoinOrder) /\ rates \in Seq(Payment)
  /\ markets \in Seq(CoinResult) /\ Len(markets) + Len(coinsLeft) <= Len(Coins)

\* A coin that ends flat, its last fill on the grid of bars, is split right:
\* the price part is the balance the engine ended with, whatever funding was
\* paid before, between and after the fills, and in whatever slot it fell.
FlatIsExact ==
  slot > 0 /\ position.qty = 0 /\ Last(account).at \in GridOf(account)
    => Extract.price = Last(account).val - Capital

\* The portfolio's profit is the sum of the coins', however early each coin's
\* last fill was.
PortfolioIsSum == PortfolioEnd = Total([i \in DOMAIN markets |-> markets[i].total])

\* Funding, price and portfolio are parts of one balance.
CoinsAddUp == FlatIsExact /\ PortfolioIsSum
===============================================================================
