----------------------------- MODULE Strategies -----------------------------
(***************************************************************************)
(* Strategies that remember a position: eight bar strategies on            *)
(* Hyperliquid, and on Polymarket the tick mean-reversion and the wide-    *)
(* spread fade.  One strategy runs, on one instrument.                     *)
(*                                                                         *)
(* What such a strategy remembers (side) is set when it SENDS an order; no *)
(* fill ever corrects it, and none of them reads its position.             *)
(*                                                                         *)
(* Abstractions.  Of an indicator only its comparison with the price or    *)
(* with a threshold is kept, because the decisions read nothing else: the  *)
(* value of each comparison is free on every bar.  Every order, a close    *)
(* included, is as large as the present price makes it: a number of units, *)
(* 0 when it rounds to nothing, free on every bar and print.  An order is  *)
(* filled in full or not at all.  Tape prices are thousandths, so that     *)
(* rounding to a tick is visible; book prices are ticks.                   *)
(***************************************************************************)
EXTENDS Integers, Sequences

CONSTANTS
  Kinds,      \* the strategies to run
  Window,     \* bars or ticks before the first decision (saturates there)
  HoldCap,    \* max_hold_bars, hold_ticks
  Cooldown,   \* cooldown_bars
  MinSize,    \* the smallest and the largest order: notional / close,
  MaxSize,    \*   rounded to the instrument
  Prints,     \* prices of trade prints, in thousandths
  MaxQuote,   \* the highest quote, in ticks
  MaxInv,     \* max_net_inventory_usdc, in orders
  MaxInFlight, \* bound: orders in flight
  MaxSlips,   \* bound: exits and flips
  MaxUnfilled \* bound: orders that ended unfilled, closes never sent

BarKinds == {"donchian", "bollinger", "funding", "ichimoku", "cloud", "channel",
             "trend", "btceth"}
LongOnlyKinds == {"trend", "btceth"}

ASSUME StrategiesAssumption ==
  /\ Kinds \subseteq BarKinds \union {"tmr", "fade"}
  /\ Window \in Nat \ {0} /\ HoldCap \in Nat \ {0} /\ Cooldown \in Nat \ {0}
  /\ MinSize \in Nat \ {0} /\ MaxSize \in Nat /\ MinSize <= MaxSize
  /\ MaxQuote \in Nat /\ MaxInFlight \in Nat /\ MaxSlips \in Nat /\ MaxUnfilled \in Nat
  /\ MaxInv \in Nat \ {0} /\ Prints \subseteq 1..999

VARIABLES
  kind,     \* the strategy that runs
  short,    \* allow_short, not long_only
  early,    \* exit_on_midline_reentry, flatten_on_inside_cloud
  up,       \* is the strategy running?
  side,     \* _position_side, _side, _open_side
  hold,     \* _held_bars, _hold_remaining
  out,      \* _bars_since_exit, up to Cooldown
  seen,     \* length of the price history, up to Window
  region,   \* _prev_region
  touch,    \* _best_bid, _best_ask
  inv,      \* _net_inventory_usdc, in orders
  open,     \* orders in flight: their units, signed, and limits on the tape
  pos,      \* history: the units bought less those sold, with those in
            \* flight: the position, when nothing is
  slips,    \* history: exits and flips sent
  unfilled  \* history: orders that ended unfilled and closes never sent
            \* (not kept for the fade, which remembers fills)

beliefVars == <<kind, short, early, up, side, hold, out, seen, region, touch,
                inv, open, pos, slips, unfilled>>
dealt == <<open, pos, slips, unfilled>>
conf == <<kind, short, early>>

Sign(s) == CASE s = "LONG" -> 1 [] s = "SHORT" -> -1 [] s = "FLAT" -> 0
Capped(n, m) == IF n > m THEN m ELSE n
Amounts == MinSize..MaxSize

\* An order goes out; nobody waits for its fill.
Submit(units, px) ==
  /\ Len(open) < MaxInFlight
  /\ open' = Append(open, [units |-> units, px |-> px])
  /\ pos' = pos + units
-----------------------------------------------------------------------------
(* Bars: the decision, the order, the memory *)

\* The units a decision sends, as multiples of the bar's size.
Multiple(act) ==
  CASE act = "ENTER_LONG" -> 1 [] act = "ENTER_SHORT" -> -1
    [] act = "FLIP_LONG" -> 2  [] act = "FLIP_SHORT" -> -2
    [] act = "EXIT" -> -Sign(side) [] act = "HOLD" -> 0

After(act) ==
  CASE act \in {"ENTER_LONG", "FLIP_LONG"} -> "LONG"
    [] act \in {"ENTER_SHORT", "FLIP_SHORT"} -> "SHORT"
    [] act = "EXIT" -> "FLAT" [] act = "HOLD" -> side

\* The market order goes out, as large as this bar makes it, and the side
\* is set.
Send(act, size) ==
  /\ side' = After(act)
  /\ IF act = "HOLD" THEN UNCHANGED dealt
     ELSE /\ Submit(Multiple(act) * size, 0)
          /\ slips' = IF side = "FLAT" THEN slips ELSE slips + 1
          /\ slips' <= MaxSlips
          /\ UNCHANGED unfilled

\* A bar that decides nothing: too little history, no size, no spread.
Pass == UNCHANGED <<side, hold, dealt>>

Decide(acts, size) ==
  /\ up /\ kind \in BarKinds
  /\ seen' = Capped(seen + 1, Window)
  /\ \E act \in acts :
       IF seen' < Window \/ size = 0 THEN Pass
         ELSE /\ Send(act, size)
              /\ hold' = IF side = "FLAT" \/ After(act) = "FLAT" THEN 0
                         ELSE Capped(hold + 1, HoldCap)
  /\ UNCHANGED <<up, conf, touch, inv>>

\* The table four strategies share: enter on a break, flip on the opposite
\* one where shorts are allowed, else leave on the strategy's own signal.
Policy(above, below, leaveLong, leaveShort) ==
  CASE side = "FLAT"  /\ above -> "ENTER_LONG"
    [] side = "FLAT"  /\ ~above /\ short /\ below -> "ENTER_SHORT"
    [] side = "LONG"  /\ short /\ below -> "FLIP_SHORT"
    [] side = "LONG"  /\ ~(short /\ below) /\ leaveLong -> "EXIT"
    [] side = "SHORT" /\ above -> "FLIP_LONG"
    [] side = "SHORT" /\ ~above /\ leaveShort -> "EXIT"
    [] OTHER -> "HOLD"
-----------------------------------------------------------------------------
(* hl_donchian.py.  The close is above, in or below the channel. *)

\* A short is left only by a flip.
Donchian(size) ==
  \E c \in {"above", "in", "below"} :
    LET ready == side # "FLAT" \/ Capped(out + 1, Cooldown) >= Cooldown
        act   == IF ready THEN Policy(c = "above", c = "below", c = "below", FALSE)
                          ELSE "HOLD"
    IN  /\ kind = "donchian"
        /\ Decide({act}, size)
        /\ out' = IF side = "LONG" /\ side' = "FLAT" THEN 0 ELSE Capped(out + 1, Cooldown)
        /\ UNCHANGED region

(* hl_lunaowl_pricechannel.py *)

\* The close against the rails 1 and 3 and the midpoint 2.
ChannelAction(c) ==
  LET inside == early /\ c \in 1..3
  IN  Policy(c > 3, c < 1, inside /\ c < 2, inside /\ c > 2)

Channel(size) ==
  /\ kind = "channel"
  /\ \E c \in 0..4 : Decide({ChannelAction(c)}, size)
  /\ UNCHANGED <<out, region>>

(* hl_supertrend_cloud.py *)

\* Mutant: a flip sends the size of an entry.
CloudActionSingle(curr) ==
  LET act == Policy(region # "above" /\ curr = "above", region # "below" /\ curr = "below",
                    early /\ curr = "inside", early /\ curr = "inside")
  IN  IF act = "FLIP_SHORT" THEN "ENTER_SHORT" ELSE IF act = "FLIP_LONG" THEN "ENTER_LONG" ELSE act

\* Where the close lies between two SuperTrend lines.
Regions == {"above", "inside", "below"}

\* decide_cloud_action: only the crossing counts, never the region.
CloudAction(curr) ==
  IF region = "none" THEN "HOLD"
  ELSE Policy(region # "above" /\ curr = "above", region # "below" /\ curr = "below",
              early /\ curr = "inside", early /\ curr = "inside")

\* A bar too small to trade still uses up the crossing.
Cloud(size) ==
  /\ kind = "cloud"
  /\ \E curr \in Regions :
       /\ Decide({CloudAction(curr)}, size)
       /\ region' = IF seen' < Window THEN region ELSE curr
  /\ UNCHANGED out

(* hl_ichimoku_3h.py *)

\* Signs of: close against the cloud, tenkan against kijun, close against
\* kijun, close against the lagging reference, rsi against its threshold.
\* One span of the cloud is the mean of tenkan and kijun.
Snapshots ==
  {r \in [cloud : -1..1, tk : -1..1, ck : -1..1, chikou : -1..1, rsi : -1..1, vol : BOOLEAN] :
     /\ r.cloud = 1 /\ r.tk >= 0 => r.ck = 1
     /\ r.cloud = -1 /\ r.tk =< 0 => r.ck = -1}

IchimokuAction(r) ==
  Policy(r.vol /\ r.cloud = 1  /\ r.tk = 1  /\ r.chikou = 1  /\ r.rsi = 1,
         r.vol /\ r.cloud = -1 /\ r.tk = -1 /\ r.chikou = -1 /\ r.rsi = -1,
         r.ck = -1 \/ r.cloud # 1 \/ r.rsi # 1,
         r.ck = 1 \/ r.cloud # -1 \/ r.rsi # -1)

Ichimoku(size) ==
  /\ kind = "ichimoku"
  /\ Decide({IchimokuAction(r) : r \in Snapshots}, size)
  /\ UNCHANGED <<out, region>>

(* hl_trend_following_long_only.py, hl_btc_eth_long_v1.py *)

Crossover(pl, pr, cl, cr)  == pl <= pr /\ cl > cr
Crossunder(pl, pr, cl, cr) == pl >= pr /\ cl < cr

\* The trend of the bar before is computed anew from the window, so it need
\* not be the one that bar acted on: every pair of states may be seen.
TrendAction(prev, curr) ==
  CASE side = "FLAT" /\ Crossover(prev, 0, curr, 0) -> "ENTER_LONG"
    [] side = "LONG" /\ Crossunder(prev, 0, curr, 0) -> "EXIT"
    [] OTHER -> "HOLD"

Trend(size) ==
  /\ kind = "trend"
  /\ \E prev, curr \in {-1, 1} : Decide({TrendAction(prev, curr)}, size)
  /\ UNCHANGED <<out, region>>

\* Enter when every filter agrees; leave on the stop or when the sign of
\* EMA - SMA goes down.
BtcEthAction(ready, stopped, prev, curr) ==
  CASE side = "FLAT" /\ ready -> "ENTER_LONG"
    [] side = "LONG" /\ (stopped \/ Crossunder(prev, 0, curr, 0)) -> "EXIT"
    [] OTHER -> "HOLD"

BtcEth(size) ==
  /\ kind = "btceth"
  /\ \E ready, stopped \in BOOLEAN, prev, curr \in -1..1 :
       Decide({BtcEthAction(ready, stopped, prev, curr)}, size)
  /\ UNCHANGED <<out, region>>

(* hl_bollinger_mr.py, hl_funding_carry.py *)

\* _held_bars is counted before it is compared.
Stale == hold + 1 >= HoldCap

\* z against the entry bands (2, -2) and the exit bands (1, -1); a bar
\* without spread is not looked at and not counted.
Bollinger(size) ==
  /\ kind = "bollinger"
  /\ \E z \in -2..2 :
       Decide({CASE side = "FLAT" /\ z = -2 -> "ENTER_LONG"
                 [] side = "FLAT" /\ short /\ z = 2 -> "ENTER_SHORT"
                 [] side = "LONG" /\ (z >= -1 \/ Stale) -> "EXIT"
                 [] side = "SHORT" /\ (z <= 1 \/ Stale) -> "EXIT"
                 [] OTHER -> "HOLD"}, size)
  /\ UNCHANGED <<out, region>>

\* The rate against its entry and exit thresholds, as above; calm is the
\* volatility filter, adverse the stop loss.
Funding(size) ==
  /\ kind = "funding"
  /\ \E rate \in -2..2, calm, adverse \in BOOLEAN :
       Decide({CASE side = "FLAT" /\ calm /\ rate = 2 -> "ENTER_SHORT"
                 [] side = "FLAT" /\ calm /\ rate = -2 -> "ENTER_LONG"
                 [] side = "SHORT" /\ (rate <= 1 \/ Stale \/ adverse) -> "EXIT"
                 [] side = "LONG" /\ (rate >= -1 \/ Stale \/ adverse) -> "EXIT"
                 [] OTHER -> "HOLD"}, size)
  /\ UNCHANGED <<out, region>>
-----------------------------------------------------------------------------
(* The tape: limit orders with IOC, in flight until they fill or end *)

\* An order in flight fills, or is rejected or cancelled.  Only the fade
\* listens, and counts what it bought.
Filled(k) ==
  /\ k \in DOMAIN open
  /\ inv' = IF kind = "fade" THEN inv + 1 ELSE inv
  /\ open' = [j \in 1..(Len(open) - 1) |-> open[IF j < k THEN j ELSE j + 1]]
  /\ UNCHANGED <<conf, up, side, hold, out, seen, region, touch, pos, slips, unfilled>>

OrderEnds(k) ==
  /\ k \in DOMAIN open
  /\ open' = [j \in 1..(Len(open) - 1) |-> open[IF j < k THEN j ELSE j + 1]]
  /\ pos' = pos - open[k].units
  /\ unfilled' = IF kind = "fade" THEN unfilled ELSE unfilled + 1
  /\ unfilled' <= MaxUnfilled
  /\ UNCHANGED <<conf, up, side, hold, out, seen, region, touch, inv, slips>>

(* tick_mean_revert.py *)

\* round(price, 2), in thousandths, and whether it is a price at all.
RoundTick(p) == ((p + 5) \div 10) * 10
Tradable(p)  == RoundTick(p) \in 1..999

\* _close_position forgets the side first; a print that rounds to 0 or 1
\* then sends nothing.
ClosePosition(p, size) ==
  /\ side' = "FLAT" /\ hold' = 0
  /\ IF Tradable(p)
       THEN /\ Submit(-Sign(side) * size, RoundTick(p))
            /\ slips' = slips + 1 /\ slips' <= MaxSlips /\ UNCHANGED unfilled
       ELSE /\ unfilled' = unfilled + 1 /\ unfilled' <= MaxUnfilled
            /\ UNCHANGED <<open, pos, slips>>

\* Mutant: the side is set before the price is looked at.
EnterBelieves(s, p, size) ==
  /\ side' = s /\ hold' = HoldCap
  /\ IF Tradable(p)
       THEN Submit(Sign(s) * size, RoundTick(p)) /\ UNCHANGED <<slips, unfilled>>
       ELSE UNCHANGED dealt

Enter(s, p, size) ==
  IF Tradable(p)
    THEN /\ Submit(Sign(s) * size, RoundTick(p)) /\ side' = s /\ hold' = HoldCap
         /\ UNCHANGED <<slips, unfilled>>
    ELSE UNCHANGED <<side, hold, dealt>>

\* on_trade_tick: the hold counts down on every print, whatever became of
\* the entry; dev is the print against the mean of a full window.
TradeTick(p, dev, size) ==
  /\ up /\ kind = "tmr"
  /\ seen' = Capped(seen + 1, Window)
  /\ \/ /\ side # "FLAT" /\ hold > 1
        /\ hold' = hold - 1 /\ UNCHANGED <<side, dealt>>
     \/ /\ side # "FLAT" /\ hold <= 1
        /\ ClosePosition(p, size)
     \/ /\ side = "FLAT" /\ (seen < Window \/ dev = "near")
        /\ UNCHANGED <<side, hold, dealt>>
     \/ /\ side = "FLAT" /\ seen = Window /\ dev # "near"
        /\ Enter(IF dev = "low" THEN "LONG" ELSE "SHORT", p, size)
  /\ UNCHANGED <<conf, up, out, region, touch, inv>>

(* wide_spread_fade.py *)

\* _fade: a tick inside the side that retreated more, between the quotes.
FadePrice(t, bid, ask) ==
  IF (IF ask > t.ask THEN ask - t.ask ELSE 0) >= (IF t.bid > bid THEN t.bid - bid ELSE 0)
    THEN ask - 1 ELSE bid + 1

\* Mutant: the cap is not looked at.
FadeAllowedAlways == TRUE

\* The cap is checked against fills; orders in flight do not count.
FadeAllowed == inv < MaxInv

\* on_order_book_deltas: a side the message does not quote keeps its old
\* price; wide is the spread against its minimum and its median.
BookDeltas(nb, na, wide) ==
  LET bid == IF nb = 0 THEN touch.bid ELSE nb
      ask == IF na = 0 THEN touch.ask ELSE na
      was == [bid |-> IF touch.bid = 0 THEN bid ELSE touch.bid,
              ask |-> IF touch.ask = 0 THEN ask ELSE touch.ask]
      known == bid # 0 /\ ask # 0
      px == FadePrice(was, bid, ask)
  IN  /\ up /\ kind = "fade"
      /\ touch' = IF known THEN [bid |-> bid, ask |-> ask] ELSE touch
      /\ seen' = IF known /\ bid < ask THEN Capped(seen + 1, Window) ELSE seen
      /\ IF known /\ bid < ask /\ seen' = Window /\ wide /\ FadeAllowed /\ ask - bid >= 2
           THEN Submit(1, px) ELSE UNCHANGED <<open, pos>>
      /\ UNCHANGED <<conf, up, side, hold, out, region, inv, slips, unfilled>>
-----------------------------------------------------------------------------
\* on_stop: bar strategies have what the venue says they hold closed, the
\* tape strategies have what is in flight cancelled.  Neither looks at what
\* it remembers; pos is not kept beyond the stop.
Stop ==
  /\ up /\ up' = FALSE
  /\ UNCHANGED <<conf, side, hold, out, seen, region, touch, inv, dealt>>

BeliefInit ==
  /\ kind \in Kinds /\ early \in BOOLEAN
  /\ short \in (IF kind \in LongOnlyKinds THEN {FALSE}
                ELSE IF kind \in {"funding", "tmr"} THEN {TRUE} ELSE BOOLEAN)
  /\ up = TRUE /\ side = "FLAT" /\ hold = 0 /\ out = Cooldown /\ seen = 0
  /\ region = "none" /\ touch = [bid |-> 0, ask |-> 0] /\ inv = 0 /\ open = <<>>
  /\ pos = 0 /\ slips = 0 /\ unfilled = 0

Bar(size) ==
  \/ Donchian(size) \/ Channel(size) \/ Cloud(size) \/ Ichimoku(size)
  \/ Trend(size) \/ BtcEth(size) \/ Bollinger(size) \/ Funding(size)

BeliefNext ==
  \/ \E size \in {0} \union Amounts : Bar(size)
  \/ \E p \in Prints, dev \in {"low", "near", "high"}, size \in Amounts :
       TradeTick(p, dev, size)
  \/ \E nb, na \in 0..MaxQuote, wide \in BOOLEAN : BookDeltas(nb, na, wide)
  \/ \E k \in 1..MaxInFlight : Filled(k) \/ OrderEnds(k)
  \/ Stop

BeliefSpec == BeliefInit /\ [][BeliefNext]_beliefVars
-----------------------------------------------------------------------------
(* Properties *)

BeliefTypeOK ==
  /\ kind \in Kinds /\ short \in BOOLEAN /\ early \in BOOLEAN
  /\ up \in BOOLEAN
  /\ side \in {"FLAT", "LONG", "SHORT"} /\ hold \in 0..HoldCap
  /\ out \in 0..Cooldown /\ seen \in 0..Window
  /\ region \in Regions \union {"none"}
  /\ touch \in [bid : 0..MaxQuote, ask : 0..MaxQuote]
  /\ inv \in Nat /\ open \in Seq([units : -(2 * MaxSize)..2 * MaxSize, px : Int])
  /\ pos \in Int /\ slips \in Nat /\ unfilled \in Nat

\* How far a position may have drifted from what is remembered: a close
\* differs from its entry by the spread of sizes, an order that ended
\* unfilled is at most a flip, of two sizes.
Drift == slips * (MaxSize - MinSize) + unfilled * (2 * MaxSize)

\* A strategy that remembers a side holds one order's size of it, and one
\* that remembers none holds nothing, but for the drift: what its position
\* is, or will be when all in flight fills, after any run of entries, exits
\* and flips of any sizes, with orders that end unfilled among them.
BeliefIsClose ==
  kind # "fade" => \E s \in Amounts : pos - Sign(side) * s \in -Drift..Drift

\* The inventory cap looks at fills only, so orders in flight overrun it,
\* but by no more than their number.
FadeOvershoot == kind = "fade" => inv + Len(open) <= MaxInv - 1 + MaxInFlight
=============================================================================
