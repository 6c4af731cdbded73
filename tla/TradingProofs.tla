----------------------------- MODULE TradingProofs -----------------------------
(* What a trading process keeps, for any values of the constants: the         *)
(* strategies that remember a position, the order the kill switch's halt      *)
(* takes effect in, and the subscriptions of the book feed. Each part has     *)
(* its own inductive invariant and its own theorems, and none uses            *)
(* another's. At the end they are put together with the arbitrage legs and    *)
(* the live orders: a run of the whole (module Trading) is a run of each      *)
(* component, so it keeps what each of them keeps.                            *)
(*                                                                            *)
(* Strategies.  What is remembered and the position move together because a   *)
(* decision only names an action that fits the side: an entry from flat, a    *)
(* flip from the other side; a close differs from its entry by no more than   *)
(* the spread of sizes.  The fade overruns its cap by no more than the   *)
(* orders in flight, because it submits below the cap of fills.               *)
(*                                                                            *)
(* HaltPath.  No runner is past its KillSwitch under a flag that was there    *)
(* before it, and a trigger that reached the venue leaves a flag to the next  *)
(* process.  The invariant adds what a trigger knows between the file and the *)
(* cancel-all, and how the flag's counter orders the switches already built.  *)
(*                                                                            *)
(* Feed.  After any interleaving of subscriptions, connections and drops the  *)
(* venue has every token in scope once it has read what was sent.  The        *)
(* invariant says of the messages on their way what ScopeIsComplete says when *)
(* there are none: the last one names every token asked for, because there is *)
(* one list that only grows.                                                  *)
EXTENDS Trading, BinaryArbProofs, LiveExecProofs, SequenceTheorems, TLAPS

-------------------------------------------------------------------------------
(* Strategies *)

\* An action that makes sense on the side remembered: an entry from flat, a
\* flip from the other side.
Fits(act) ==
  /\ act \in {"ENTER_LONG", "ENTER_SHORT", "FLIP_LONG", "FLIP_SHORT", "EXIT", "HOLD"}
  /\ act \in {"ENTER_LONG", "ENTER_SHORT"} => side = "FLAT"
  /\ act = "FLIP_LONG" => side = "SHORT"
  /\ act = "FLIP_SHORT" => side = "LONG"

BeliefInv == BeliefTypeOK /\ BeliefIsClose /\ FadeOvershoot

Ticket == [units : -(2 * MaxSize)..2 * MaxSize, px : Int]

\* A position that differs by at most d from one order's size of side sd.
Near(n, sd, d) == \E s \in Amounts : n - Sign(sd) * s \in -d..d

Spread == MaxSize - MinSize

-------------------------------------------------------------------------------
\* What the arithmetic needs of the assumption.
LEMMA Bounds ==
  /\ Window \in Nat /\ Window > 0 /\ HoldCap \in Nat /\ HoldCap > 0
  /\ Cooldown \in Nat /\ Cooldown > 0 /\ MaxQuote \in Nat /\ MaxInFlight \in Nat
  /\ MaxInv \in Nat /\ MaxInv > 0
  /\ MinSize \in Nat /\ MinSize > 0 /\ MaxSize \in Nat /\ MinSize <= MaxSize
  BY StrategiesAssumption

LEMMA Signs == Sign("FLAT") = 0 /\ Sign("LONG") = 1 /\ Sign("SHORT") = -1
  BY DEF Sign

\* What an order that was sent does to the distance from the side: an entry
\* nothing, an exit and a flip the spread of sizes.
LEMMA EntryIsNear ==
  ASSUME NEW n \in Int, NEW d \in Nat, NEW size \in Amounts, Near(n, "FLAT", d)
  PROVE  Near(n + size, "LONG", d) /\ Near(n - size, "SHORT", d)
<1>1. n \in -d..d
  BY Bounds, Signs DEF Near, Amounts
<1>2. size \in Int /\ Sign("LONG") * size = size /\ Sign("SHORT") * size = -size
  BY Bounds, Signs DEF Amounts
<1> DEFINE l == n + size
           r == n - size
           a == Sign("LONG") * size
           b == Sign("SHORT") * size
<1>5. l - a = n /\ r - b = n
  <2> HIDE DEF a, b
  <2>1. a = size /\ b = -size
    BY <1>2 DEF a, b
  <2> QED BY <1>2, <2>1
<1>3. l - Sign("LONG") * size \in -d..d /\ r - Sign("SHORT") * size \in -d..d
  <2> HIDE DEF l, r, a, b
  <2>1. l - a \in -d..d /\ r - b \in -d..d
    BY <1>1, <1>5
  <2> QED BY <2>1 DEF a, b
<1> HIDE DEF l, r
<1>4. Near(l, "LONG", d) /\ Near(r, "SHORT", d)
  BY <1>3 DEF Near
<1> QED BY <1>4 DEF l, r

LEMMA ExitIsNear ==
  ASSUME NEW n \in Int, NEW d \in Nat, NEW size \in Amounts
  PROVE  /\ Near(n, "LONG", d) => Near(n - size, "FLAT", d + Spread)
         /\ Near(n, "SHORT", d) => Near(n + size, "FLAT", d + Spread)
<1>1. \A m \in Int : m \in -(d + Spread)..(d + Spread) => Near(m, "FLAT", d + Spread)
  BY Bounds, Signs DEF Near, Amounts, Spread
<1>2. ASSUME Near(n, "LONG", d) PROVE n - size \in -(d + Spread)..(d + Spread)
  BY <1>2, Bounds, Signs DEF Near, Amounts, Spread
<1>3. ASSUME Near(n, "SHORT", d) PROVE n + size \in -(d + Spread)..(d + Spread)
  BY <1>3, Bounds, Signs DEF Near, Amounts, Spread
<1>4. n - size \in Int /\ n + size \in Int
  BY Bounds DEF Amounts
<1> QED BY <1>1, <1>2, <1>3, <1>4

LEMMA FlipIsNear ==
  ASSUME NEW n \in Int, NEW d \in Nat, NEW size \in Amounts
  PROVE  /\ Near(n, "LONG", d) => Near(n - 2 * size, "SHORT", d + Spread)
         /\ Near(n, "SHORT", d) => Near(n + 2 * size, "LONG", d + Spread)
<1>1. ASSUME Near(n, "LONG", d) PROVE Near(n - 2 * size, "SHORT", d + Spread)
  <2>1. n - 2 * size + size \in -(d + Spread)..(d + Spread)
    BY <1>1, Bounds, Signs DEF Near, Amounts, Spread
  <2>2. n - 2 * size - Sign("SHORT") * size = n - 2 * size + size
    BY Bounds, Signs DEF Amounts
  <2> QED BY <2>1, <2>2 DEF Near
<1>2. ASSUME Near(n, "SHORT", d) PROVE Near(n + 2 * size, "LONG", d + Spread)
  <2>1. n + 2 * size - size \in -(d + Spread)..(d + Spread)
    BY <1>2, Bounds, Signs DEF Near, Amounts, Spread
  <2>2. n + 2 * size - Sign("LONG") * size = n + 2 * size - size
    BY Bounds, Signs DEF Amounts
  <2> DEFINE l == n + 2 * size
  <2>3. l - Sign("LONG") * size \in -(d + Spread)..(d + Spread)
    <3> DEFINE top == d + Spread
               x == n + 2 * size - size
    <3>1. l - Sign("LONG") * size = x
      <4> DEFINE p == Sign("LONG") * size
      <4>1. p = size
        BY Bounds, Signs DEF Amounts
      <4>2. size \in Int
        BY Bounds DEF Amounts
      <4> HIDE DEF p
      <4>3. l - p = x
        BY <4>1, <4>2
      <4> QED BY <4>3 DEF p
    <3>4. x \in -top..top
      BY <2>1
    <3> HIDE DEF x, top, l
    <3>2. l - Sign("LONG") * size \in -top..top
      BY <3>1, <3>4
    <3> QED BY <3>2 DEF top
  <2> HIDE DEF l
  <2>4. Near(l, "LONG", d + Spread)
    BY <2>3 DEF Near
  <2> QED BY <2>4 DEF l
<1> QED BY <1>1, <1>2

\* An order that is not filled takes at most a flip's size off, and a side
\* forgotten without an order at most one size.
LEMMA UnfilledIsNear ==
  ASSUME NEW n \in Int, NEW d \in Nat, NEW sd \in {"FLAT", "LONG", "SHORT"},
         NEW u \in -(2 * MaxSize)..2 * MaxSize, Near(n, sd, d)
  PROVE  Near(n - u, sd, d + 2 * MaxSize) /\ Near(n, "FLAT", d + 2 * MaxSize)
<1>1. PICK s \in Amounts : n - Sign(sd) * s \in -d..d
  BY DEF Near
<1>2. s \in Int /\ 0 < s /\ s <= MaxSize
  BY Bounds DEF Amounts
<1>3. Sign(sd) * s \in -MaxSize..MaxSize
  BY <1>2, Bounds, Signs
<1> DEFINE w == Sign(sd) * s
<1> HIDE DEF w
<1>4. /\ n - u - w \in -(d + 2 * MaxSize)..(d + 2 * MaxSize)
      /\ n \in -(d + 2 * MaxSize)..(d + 2 * MaxSize)
  BY <1>1, <1>3, Bounds DEF w
<1>5. n - Sign("FLAT") * s = n
  BY <1>2, Signs
<1> QED BY <1>4, <1>5 DEF Near, w

\* The drift grows with each exit or flip and each order not filled.
LEMMA DriftGrows ==
  ASSUME slips \in Nat, unfilled \in Nat
  PROVE  /\ Drift \in Nat /\ Spread \in Nat
         /\ (slips' = slips + 1 /\ unfilled' = unfilled) => Drift' = Drift + Spread
         /\ (slips' = slips /\ unfilled' = unfilled + 1) => Drift' = Drift + 2 * MaxSize
         /\ (slips' = slips /\ unfilled' = unfilled) => Drift' = Drift
<1>1. Spread \in Nat
  BY Bounds DEF Spread
<1>2. \A a, b \in Nat : (a + 1) * b = a * b + b /\ a * b \in Nat
  OBVIOUS
<1>3. 2 * MaxSize \in Nat
  BY Bounds
<1> DEFINE x == slips * Spread
           y == unfilled * (2 * MaxSize)
<1>4. Drift = x + y /\ x \in Nat /\ y \in Nat
  BY <1>1, <1>2, <1>3 DEF Drift, Spread
<1>5. Drift' = slips' * Spread + unfilled' * (2 * MaxSize)
  BY DEF Drift, Spread
<1>6. slips' = slips + 1 => slips' * Spread = x + Spread
  BY <1>1, <1>2
<1>7. unfilled' = unfilled + 1 => unfilled' * (2 * MaxSize) = y + 2 * MaxSize
  BY <1>2, <1>3
<1>8. /\ slips' = slips => slips' * Spread = x
      /\ unfilled' = unfilled => unfilled' * (2 * MaxSize) = y
  OBVIOUS
<1> DEFINE x1 == slips' * Spread
           y1 == unfilled' * (2 * MaxSize)
<1> HIDE DEF x, y, x1, y1
<1> QED BY <1>1, <1>3, <1>4, <1>5, <1>6, <1>7, <1>8 DEF x1, y1

\* A counter that saturates at m stays within it.
LEMMA CappedIn == ASSUME NEW m \in Nat, NEW n \in 0..m PROVE Capped(n + 1, m) \in 0..m
  BY DEF Capped

\* The table the breakout strategies share only names actions that fit.
LEMMA PolicyFits ==
  ASSUME NEW above \in BOOLEAN, NEW below \in BOOLEAN, NEW leaveLong \in BOOLEAN,
         NEW leaveShort \in BOOLEAN, side \in {"FLAT", "LONG", "SHORT"}, short \in BOOLEAN
  PROVE  Fits(Policy(above, below, leaveLong, leaveShort))
<1>1. CASE side = "FLAT" BY <1>1 DEF Policy, Fits
<1>2. CASE side = "LONG" BY <1>2 DEF Policy, Fits
<1>3. CASE side = "SHORT" BY <1>3 DEF Policy, Fits
<1> QED BY <1>1, <1>2, <1>3

\* An order sent joins those in flight, below their bound.
LEMMA SubmitKeeps ==
  ASSUME BeliefTypeOK, NEW units \in -(2 * MaxSize)..2 * MaxSize, NEW px \in Int,
         Submit(units, px)
  PROVE  /\ open' \in Seq(Ticket) /\ Len(open') = Len(open) + 1 /\ Len(open) < MaxInFlight
         /\ pos' = pos + units
<1>1. open \in Seq(Ticket) /\ [units |-> units, px |-> px] \in Ticket
  BY DEF BeliefTypeOK, Ticket
<1> QED BY <1>1 DEF Submit

\* What a decision keeps of the types, and how near the side stays.
Kept == /\ side' \in {"FLAT", "LONG", "SHORT"} /\ open' \in Seq(Ticket) /\ pos' \in Int
        /\ slips' \in Nat /\ unfilled' \in Nat /\ Near(pos', side', Drift')

\* An order goes out with the side: the position moves as the side does, but
\* for the spread of sizes.
LEMMA SendKeeps ==
  ASSUME BeliefTypeOK, Near(pos, side, Drift), NEW act, Fits(act), NEW size \in Amounts,
         Send(act, size)
  PROVE  Kept
<1>1. /\ pos \in Int /\ slips \in Nat /\ unfilled \in Nat /\ open \in Seq(Ticket)
      /\ side \in {"FLAT", "LONG", "SHORT"}
  BY DEF BeliefTypeOK, Ticket
<1>2. size \in Int /\ 0 < size /\ size <= MaxSize /\ MaxSize \in Nat
  BY Bounds DEF Amounts
<1>3. CASE act = "HOLD"
  <2>1. UNCHANGED <<side, open, pos, slips, unfilled>>
    BY <1>3 DEF Send, After, dealt
  <2> QED BY <1>1, <2>1, DriftGrows DEF Kept
<1>4. ASSUME act # "HOLD", NEW u \in -(2 * MaxSize)..2 * MaxSize, u = Multiple(act) * size
      PROVE  /\ open' \in Seq(Ticket) /\ pos' = pos + u /\ unfilled' = unfilled
             /\ slips' = IF side = "FLAT" THEN slips ELSE slips + 1
             /\ side' = After(act)
    BY <1>4, SubmitKeeps DEF Send
<1>5. Drift \in Nat
  BY <1>1, DriftGrows
<1>6. CASE act = "ENTER_LONG"
  <2>1. side = "FLAT" /\ Multiple(act) * size = size /\ After(act) = "LONG"
    BY <1>2, <1>6 DEF Fits, Multiple, After
  <2>2. size \in -(2 * MaxSize)..2 * MaxSize
    BY <1>2
  <2>3. open' \in Seq(Ticket) /\ pos' = pos + size /\ side' = "LONG"
        /\ slips' = slips /\ unfilled' = unfilled
    BY <1>4, <1>6, <2>1, <2>2
  <2> QED BY <1>1, <1>2, <1>5, <2>1, <2>3, EntryIsNear, DriftGrows DEF Kept
<1>7. CASE act = "ENTER_SHORT"
  <2>1. side = "FLAT" /\ Multiple(act) * size = -size /\ After(act) = "SHORT"
    BY <1>2, <1>7 DEF Fits, Multiple, After
  <2>2. -size \in -(2 * MaxSize)..2 * MaxSize
    BY <1>2
  <2>3. open' \in Seq(Ticket) /\ pos' = pos - size /\ side' = "SHORT"
        /\ slips' = slips /\ unfilled' = unfilled
    BY <1>1, <1>2, <1>4, <1>7, <2>1, <2>2
  <2> QED BY <1>1, <1>2, <1>5, <2>1, <2>3, EntryIsNear, DriftGrows DEF Kept
<1>8. CASE act = "FLIP_LONG"
  <2>1. side = "SHORT" /\ Multiple(act) * size = 2 * size /\ After(act) = "LONG"
    BY <1>2, <1>8 DEF Fits, Multiple, After
  <2>2. 2 * size \in -(2 * MaxSize)..2 * MaxSize
    BY <1>2
  <2>3. open' \in Seq(Ticket) /\ pos' = pos + 2 * size /\ side' = "LONG"
        /\ slips' = slips + 1 /\ unfilled' = unfilled
    BY <1>4, <1>8, <2>1, <2>2
  <2> QED BY <1>1, <1>2, <1>5, <2>1, <2>3, FlipIsNear, DriftGrows DEF Kept
<1>9. CASE act = "FLIP_SHORT"
  <2>1. side = "LONG" /\ Multiple(act) * size = -(2 * size) /\ After(act) = "SHORT"
    BY <1>2, <1>9 DEF Fits, Multiple, After
  <2>2. -(2 * size) \in -(2 * MaxSize)..2 * MaxSize
    BY <1>2
  <2>3. open' \in Seq(Ticket) /\ pos' = pos - 2 * size /\ side' = "SHORT"
        /\ slips' = slips + 1 /\ unfilled' = unfilled
    BY <1>1, <1>2, <1>4, <1>9, <2>1, <2>2
  <2> QED BY <1>1, <1>2, <1>5, <2>1, <2>3, FlipIsNear, DriftGrows DEF Kept
<1>10. CASE act = "EXIT" /\ side = "FLAT"
  <2>1. Multiple(act) * size = 0 /\ After(act) = "FLAT"
    BY <1>2, <1>10, Signs DEF Multiple, After
  <2>2. 0 \in -(2 * MaxSize)..2 * MaxSize
    BY <1>2
  <2>3. open' \in Seq(Ticket) /\ pos' = pos /\ side' = "FLAT"
        /\ slips' = slips /\ unfilled' = unfilled
    BY <1>1, <1>4, <1>10, <2>1, <2>2
  <2> QED BY <1>1, <1>10, <2>3, DriftGrows DEF Kept
<1>11. CASE act = "EXIT" /\ side = "LONG"
  <2>1. Multiple(act) * size = -size /\ After(act) = "FLAT"
    BY <1>2, <1>11, Signs DEF Multiple, After
  <2>2. -size \in -(2 * MaxSize)..2 * MaxSize
    BY <1>2
  <2>3. open' \in Seq(Ticket) /\ pos' = pos - size /\ side' = "FLAT"
        /\ slips' = slips + 1 /\ unfilled' = unfilled
    BY <1>1, <1>2, <1>4, <1>11, <2>1, <2>2
  <2> QED BY <1>1, <1>2, <1>5, <1>11, <2>3, ExitIsNear, DriftGrows DEF Kept
<1>12. CASE act = "EXIT" /\ side = "SHORT"
  <2>1. Multiple(act) * size = size /\ After(act) = "FLAT"
    BY <1>2, <1>12, Signs DEF Multiple, After
  <2>2. size \in -(2 * MaxSize)..2 * MaxSize
    BY <1>2
  <2>3. open' \in Seq(Ticket) /\ pos' = pos + size /\ side' = "FLAT"
        /\ slips' = slips + 1 /\ unfilled' = unfilled
    BY <1>4, <1>12, <2>1, <2>2
  <2> QED BY <1>1, <1>2, <1>5, <1>12, <2>3, ExitIsNear, DriftGrows DEF Kept
<1> QED BY <1>1, <1>3, <1>6, <1>7, <1>8, <1>9, <1>10, <1>11, <1>12 DEF Fits

\* A bar whose actions fit keeps everything but the strategy's own counters.
LEMMA DecideKeeps ==
  ASSUME BeliefInv, NEW acts, \A act \in acts : Fits(act), NEW size \in {0} \union Amounts,
         Decide(acts, size), out' \in 0..Cooldown, region' \in Regions \union {"none"}
  PROVE  BeliefInv'
<1> USE Bounds
<1>1. /\ kind \in BarKinds /\ UNCHANGED <<up, kind, short, early, touch, inv>>
      /\ kind # "fade" /\ seen' = Capped(seen + 1, Window)
  BY DEF Decide, conf, BarKinds
<1>2. seen' \in 0..Window
  BY <1>1, CappedIn DEF BeliefInv, BeliefTypeOK
<1>3. hold' \in 0..HoldCap /\ Kept
  <2>1. PICK act \in acts : IF seen' < Window \/ size = 0 THEN Pass
               ELSE /\ Send(act, size)
                    /\ hold' = IF side = "FLAT" \/ After(act) = "FLAT" THEN 0
                               ELSE Capped(hold + 1, HoldCap)
    BY DEF Decide
  <2>0. /\ Near(pos, side, Drift) /\ BeliefTypeOK
        /\ pos \in Int /\ slips \in Nat /\ unfilled \in Nat /\ open \in Seq(Ticket)
        /\ side \in {"FLAT", "LONG", "SHORT"} /\ hold \in 0..HoldCap
    BY <1>1 DEF BeliefInv, BeliefTypeOK, BeliefIsClose, Near, Ticket
  <2>2. CASE seen' < Window \/ size = 0
    <3>1. UNCHANGED <<side, hold, open, pos, slips, unfilled>>
      BY <2>1, <2>2 DEF Pass, dealt
    <3> QED BY <2>0, <3>1, DriftGrows DEF Kept
  <2>3. CASE ~(seen' < Window \/ size = 0)
    <3>1. Kept
      BY <2>0, <2>1, <2>3, SendKeeps
    <3>2. hold' \in 0..HoldCap
      <4>1. hold \in Nat /\ Capped(hold + 1, HoldCap) \in 0..HoldCap
        <5>1. hold \in 0..HoldCap /\ HoldCap \in Nat BY <2>0
        <5>2. Capped(hold + 1, HoldCap) \in 0..HoldCap BY <5>1, CappedIn
        <5> QED BY <5>1, <5>2
      <4>2. hold' = IF side = "FLAT" \/ After(act) = "FLAT" THEN 0
                               ELSE Capped(hold + 1, HoldCap)
        BY <2>1, <2>3
      <4> QED BY <4>1, <4>2
    <3> QED BY <3>1, <3>2
  <2> QED BY <2>2, <2>3
<1>4. BeliefTypeOK'
  BY <1>1, <1>2, <1>3 DEF BeliefInv, BeliefTypeOK, Kept, Ticket
<1>5. FadeOvershoot' /\ BeliefIsClose'
  BY <1>1, <1>3 DEF FadeOvershoot, BeliefIsClose, Kept, Near
<1> QED BY <1>3, <1>4, <1>5 DEF BeliefInv

\* Every bar strategy decides only actions that fit.
LEMMA BarKeeps == ASSUME BeliefInv, NEW size \in {0} \union Amounts, Bar(size) PROVE BeliefInv'
<1>0. /\ side \in {"FLAT", "LONG", "SHORT"} /\ short \in BOOLEAN /\ early \in BOOLEAN
      /\ out \in 0..Cooldown /\ region \in Regions \union {"none"}
  BY DEF BeliefInv, BeliefTypeOK
<1>10. Cooldown \in Nat BY Bounds
<1>9. Fits("HOLD") BY DEF Fits
<1>1. CASE Donchian(size)
  <2>1. PICK c \in {"above", "in", "below"} :
          LET ready == side # "FLAT" \/ Capped(out + 1, Cooldown) >= Cooldown
              act   == IF ready THEN Policy(c = "above", c = "below", c = "below", FALSE)
                                ELSE "HOLD"
          IN  /\ Decide({act}, size)
              /\ out' = IF side = "LONG" /\ side' = "FLAT" THEN 0 ELSE Capped(out + 1, Cooldown)
              /\ region' = region
    BY <1>1, Zenon DEF Donchian
  <2>2. out' \in 0..Cooldown
    <3>1. Capped(out + 1, Cooldown) \in 0..Cooldown BY <1>0, <1>10, CappedIn
    <3>2. out' = IF side = "LONG" /\ side' = "FLAT" THEN 0 ELSE Capped(out + 1, Cooldown)
      BY <2>1, Zenon
    <3>3. 0 \in 0..Cooldown BY <1>10
    <3> QED BY <3>1, <3>2, <3>3, Zenon
  <2>3. Fits(Policy(c = "above", c = "below", c = "below", FALSE))
    BY <1>0, PolicyFits
  <2>4. PICK act : Fits(act) /\ Decide({act}, size)
    <3> DEFINE p == Policy(c = "above", c = "below", c = "below", FALSE)
               ready == side # "FLAT" \/ Capped(out + 1, Cooldown) >= Cooldown
               a == IF ready THEN p ELSE "HOLD"
    <3>1. Decide({a}, size) BY <2>1, Zenon
    <3>2. Fits(p) BY <2>3
    <3> HIDE DEF p, ready
    <3>3. Fits(a) BY <3>2, <1>9, Zenon
    <3> QED BY <3>1, <3>3, Zenon
  <2>5. region' \in Regions \union {"none"} BY <2>1, <1>0
  <2> QED BY <2>2, <2>4, <2>5, DecideKeeps
<1>2. CASE Channel(size)
  <2>1. PICK c \in 0..4 : Decide({ChannelAction(c)}, size) /\ UNCHANGED <<out, region>>
    BY <1>2 DEF Channel
  <2>2. Fits(ChannelAction(c))
    <3> DEFINE inside == early /\ c \in 1..3
    <3>1. Fits(Policy(c > 3, c < 1, inside /\ c < 2, inside /\ c > 2))
      <4>1. CASE side = "FLAT" BY <4>1 DEF Policy, Fits
      <4>2. CASE side = "LONG" BY <4>2 DEF Policy, Fits
      <4>3. CASE side = "SHORT" BY <4>3 DEF Policy, Fits
      <4> QED BY <4>1, <4>2, <4>3, <1>0
    <3> QED BY <3>1 DEF ChannelAction
  <2> QED BY <2>1, <2>2, <1>0, DecideKeeps
<1>3. CASE Cloud(size)
  <2>1. PICK curr \in Regions :
          /\ Decide({CloudAction(curr)}, size)
          /\ region' = IF seen' < Window THEN region ELSE curr
    BY <1>3 DEF Cloud
  <2>2. Fits(CloudAction(curr))
    <3>1. Fits(Policy(region # "above" /\ curr = "above", region # "below" /\ curr = "below",
                      early /\ curr = "inside", early /\ curr = "inside"))
      BY <1>0, PolicyFits
    <3> QED BY <3>1, <1>9 DEF CloudAction
  <2>3. out' = out /\ region' \in Regions \union {"none"}
    BY <1>0, <1>3, <2>1 DEF Cloud
  <2> QED BY <2>1, <2>2, <2>3, <1>0, DecideKeeps
<1>4. CASE Ichimoku(size)
  <2>1. Decide({IchimokuAction(r) : r \in Snapshots}, size) /\ UNCHANGED <<out, region>>
    BY <1>4 DEF Ichimoku
  <2>2. ASSUME NEW r \in Snapshots PROVE Fits(IchimokuAction(r))
    <3>1. r.vol \in BOOLEAN BY DEF Snapshots
    <3> QED BY <3>1, <1>0, PolicyFits DEF IchimokuAction
  <2> QED BY <2>1, <2>2, <1>0, DecideKeeps
<1>5. CASE Trend(size)
  <2>1. PICK prev \in {-1, 1}, curr \in {-1, 1} :
          Decide({TrendAction(prev, curr)}, size) /\ UNCHANGED <<out, region>>
    BY <1>5 DEF Trend
  <2>2. Fits(TrendAction(prev, curr))
    BY <1>0 DEF TrendAction, Fits
  <2> QED BY <2>1, <2>2, <1>0, DecideKeeps
<1>6. CASE BtcEth(size)
  <2>0. UNCHANGED <<out, region>> BY <1>6 DEF BtcEth
  <2>1. PICK ready, stopped \in BOOLEAN, prev, curr \in -1..1 :
          Decide({BtcEthAction(ready, stopped, prev, curr)}, size)
    BY <1>6, Zenon DEF BtcEth
  <2>2. Fits(BtcEthAction(ready, stopped, prev, curr))
    BY <1>0 DEF BtcEthAction, Fits
  <2> QED BY <2>0, <2>1, <2>2, <1>0, DecideKeeps
<1>7. CASE Bollinger(size)
  <2>1. PICK z \in -2..2 :
       Decide({CASE side = "FLAT" /\ z = -2 -> "ENTER_LONG"
                 [] side = "FLAT" /\ short /\ z = 2 -> "ENTER_SHORT"
                 [] side = "LONG" /\ (z >= -1 \/ Stale) -> "EXIT"
                 [] side = "SHORT" /\ (z <= 1 \/ Stale) -> "EXIT"
                 [] OTHER -> "HOLD"}, size) /\ UNCHANGED <<out, region>>
    BY <1>7 DEF Bollinger
  <2>2. Fits(CASE side = "FLAT" /\ z = -2 -> "ENTER_LONG"
                 [] side = "FLAT" /\ short /\ z = 2 -> "ENTER_SHORT"
                 [] side = "LONG" /\ (z >= -1 \/ Stale) -> "EXIT"
                 [] side = "SHORT" /\ (z <= 1 \/ Stale) -> "EXIT"
                 [] OTHER -> "HOLD")
    BY <1>0 DEF Fits
  <2>3. \E act : Fits(act) /\ Decide({act}, size)
    BY <2>1, <2>2
  <2> QED BY <2>1, <2>3, <1>0, DecideKeeps
<1>8. CASE Funding(size)
  <2>0. UNCHANGED <<out, region>> BY <1>8 DEF Funding
  <2>1. PICK rate \in -2..2, calm, adverse \in BOOLEAN :
       Decide({CASE side = "FLAT" /\ calm /\ rate = 2 -> "ENTER_SHORT"
                 [] side = "FLAT" /\ calm /\ rate = -2 -> "ENTER_LONG"
                 [] side = "SHORT" /\ (rate <= 1 \/ Stale \/ adverse) -> "EXIT"
                 [] side = "LONG" /\ (rate >= -1 \/ Stale \/ adverse) -> "EXIT"
                 [] OTHER -> "HOLD"}, size)
    BY <1>8, Zenon DEF Funding
  <2>2. Fits(CASE side = "FLAT" /\ calm /\ rate = 2 -> "ENTER_SHORT"
                 [] side = "FLAT" /\ calm /\ rate = -2 -> "ENTER_LONG"
                 [] side = "SHORT" /\ (rate <= 1 \/ Stale \/ adverse) -> "EXIT"
                 [] side = "LONG" /\ (rate >= -1 \/ Stale \/ adverse) -> "EXIT"
                 [] OTHER -> "HOLD")
    BY <1>0 DEF Fits
  <2>3. \E act : Fits(act) /\ Decide({act}, size)
    BY <2>1, <2>2
  <2> QED BY <2>0, <2>3, <1>0, DecideKeeps
<1> QED BY <1>1, <1>2, <1>3, <1>4, <1>5, <1>6, <1>7, <1>8 DEF Bar

\* An order that ends leaves the others in flight.
LEMMA EndedLeaves ==
  ASSUME BeliefTypeOK, NEW k \in DOMAIN open,
         open' = [j \in 1..(Len(open) - 1) |-> open[IF j < k THEN j ELSE j + 1]]
  PROVE  open' \in Seq(Ticket) /\ Len(open') = Len(open) - 1
<1>1. open \in Seq(Ticket) /\ Len(open) \in Nat /\ DOMAIN open = 1..Len(open)
  BY DEF BeliefTypeOK, Ticket
<1>2. Len(open) - 1 \in Nat BY <1>1
<1>3. \A j \in 1..(Len(open) - 1) : open[IF j < k THEN j ELSE j + 1] \in Ticket
  BY <1>1
<1>4. open' \in [1..(Len(open) - 1) -> Ticket]
  BY <1>3
<1> QED BY <1>2, <1>4

\* A print moves the position with the side, but for the spread of sizes and
\* for a close that has no price.
LEMMA TradeTickKeeps ==
  ASSUME BeliefInv, NEW p \in Prints, NEW dev \in {"low", "near", "high"},
         NEW size \in Amounts, TradeTick(p, dev, size)
  PROVE  BeliefInv'
<1> USE Bounds
<1>1. /\ kind = "tmr" /\ kind # "fade" /\ UNCHANGED <<kind, short, early, up, out, region, touch, inv>>
      /\ seen' = Capped(seen + 1, Window)
  BY DEF TradeTick, conf
<1>2. seen' \in 0..Window
  BY <1>1, CappedIn DEF BeliefInv, BeliefTypeOK
<1>3. /\ side \in {"FLAT", "LONG", "SHORT"} /\ hold \in 0..HoldCap /\ pos \in Int
      /\ slips \in Nat /\ unfilled \in Nat /\ open \in Seq(Ticket)
      /\ Near(pos, side, Drift) /\ BeliefTypeOK
  BY <1>1 DEF BeliefInv, BeliefTypeOK, BeliefIsClose, Near, Ticket
<1>4. RoundTick(p) \in Int
  <2>1. p \in Int BY StrategiesAssumption
  <2> QED BY <2>1 DEF RoundTick
<1>5. size \in Int /\ 0 < size /\ size <= MaxSize
      /\ size \in -(2 * MaxSize)..2 * MaxSize /\ -size \in -(2 * MaxSize)..2 * MaxSize
  BY DEF Amounts
<1>6. Drift \in Nat
  BY <1>3, DriftGrows
<1>7. ASSUME UNCHANGED <<side, open, pos, slips, unfilled>> PROVE Kept
  BY <1>3, <1>7, DriftGrows DEF Kept
<1>8. Kept /\ hold' \in 0..HoldCap
  <2>1. CASE side # "FLAT" /\ hold > 1 /\ hold' = hold - 1 /\ UNCHANGED <<side, dealt>>
    BY <2>1, <1>3, <1>7 DEF dealt
  <2>2. CASE side # "FLAT" /\ ClosePosition(p, size)
    <3>1. side' = "FLAT" /\ hold' = 0
      BY <2>2 DEF ClosePosition
    <3>2. CASE Tradable(p)
      <4>1. Submit(-Sign(side) * size, RoundTick(p)) /\ slips' = slips + 1 /\ unfilled' = unfilled
        BY <2>2, <3>2 DEF ClosePosition
      <4>2. CASE side = "LONG"
        <5>1. -Sign(side) * size = -size
          BY <1>5, <4>2, Signs
        <5>2. open' \in Seq(Ticket) /\ pos' = pos - size
          BY <1>3, <1>4, <1>5, <4>1, <5>1, SubmitKeeps
        <5> QED BY <1>3, <1>5, <1>6, <3>1, <4>1, <4>2, <5>2, ExitIsNear, DriftGrows DEF Kept
      <4>3. CASE side = "SHORT"
        <5>1. -Sign(side) * size = size
          BY <1>5, <4>3, Signs
        <5>2. open' \in Seq(Ticket) /\ pos' = pos + size
          BY <1>3, <1>4, <1>5, <4>1, <5>1, SubmitKeeps
        <5> QED BY <1>3, <1>5, <1>6, <3>1, <4>1, <4>3, <5>2, ExitIsNear, DriftGrows DEF Kept
      <4> QED BY <1>3, <2>2, <4>2, <4>3
    <3>3. CASE ~Tradable(p)
      <4>1. unfilled' = unfilled + 1 /\ UNCHANGED <<open, pos, slips>>
        BY <2>2, <3>3 DEF ClosePosition
      <4>2. Near(pos, "FLAT", Drift + 2 * MaxSize)
        BY <1>3, <1>5, <1>6, UnfilledIsNear
      <4> QED BY <1>3, <3>1, <4>1, <4>2, DriftGrows DEF Kept
    <3> QED BY <3>1, <3>2, <3>3
  <2>3. CASE UNCHANGED <<side, hold, dealt>>
    BY <2>3, <1>3, <1>7 DEF dealt
  <2>4. CASE side = "FLAT" /\ Enter(IF dev = "low" THEN "LONG" ELSE "SHORT", p, size)
    <3>1. PICK s \in {"LONG", "SHORT"} : Enter(s, p, size)
      BY <2>4
    <3>2. CASE Tradable(p)
      <4>1. Submit(Sign(s) * size, RoundTick(p)) /\ side' = s /\ hold' = HoldCap
            /\ slips' = slips /\ unfilled' = unfilled
        BY <3>1, <3>2 DEF Enter
      <4>2. CASE s = "LONG"
        <5>1. Sign(s) * size = size
          BY <1>5, <4>2, Signs
        <5>2. open' \in Seq(Ticket) /\ pos' = pos + size
          BY <1>3, <1>4, <1>5, <4>1, <5>1, SubmitKeeps
        <5> QED BY <1>3, <1>5, <1>6, <2>4, <4>1, <4>2, <5>2, EntryIsNear, DriftGrows DEF Kept
      <4>3. CASE s = "SHORT"
        <5>1. Sign(s) * size = -size
          BY <1>5, <4>3, Signs
        <5>2. open' \in Seq(Ticket) /\ pos' = pos - size
          BY <1>3, <1>4, <1>5, <4>1, <5>1, SubmitKeeps
        <5> QED BY <1>3, <1>5, <1>6, <2>4, <4>1, <4>3, <5>2, EntryIsNear, DriftGrows DEF Kept
      <4> QED BY <4>2, <4>3
    <3>3. CASE ~Tradable(p)
      <4>1. UNCHANGED <<side, hold, dealt>>
        BY <3>1, <3>3 DEF Enter
      <4> QED BY <4>1, <1>3, <1>7 DEF dealt
    <3> QED BY <3>2, <3>3
  <2> QED BY <2>1, <2>2, <2>3, <2>4 DEF TradeTick
<1>9. BeliefTypeOK'
  BY <1>1, <1>2, <1>8 DEF BeliefInv, BeliefTypeOK, Kept, Ticket
<1>10. BeliefIsClose' /\ FadeOvershoot'
  BY <1>1, <1>8 DEF BeliefIsClose, FadeOvershoot, Kept, Near
<1> QED BY <1>9, <1>10 DEF BeliefInv

\* A book keeps the cap: an order goes out below the cap and below the bound
\* on orders in flight, so the two together overrun it by no more than that.
LEMMA BookDeltasKeeps ==
  ASSUME BeliefInv, NEW nb \in 0..MaxQuote, NEW na \in 0..MaxQuote, NEW wide \in BOOLEAN,
         BookDeltas(nb, na, wide)
  PROVE  BeliefInv'
<1> USE Bounds
<1> DEFINE bid == IF nb = 0 THEN touch.bid ELSE nb
           ask == IF na = 0 THEN touch.ask ELSE na
           was == [bid |-> IF touch.bid = 0 THEN bid ELSE touch.bid,
                   ask |-> IF touch.ask = 0 THEN ask ELSE touch.ask]
           px == FadePrice(was, bid, ask)
<1>1. /\ kind = "fade" /\ UNCHANGED <<kind, short, early, up, side, hold, out, region, inv, slips, unfilled>>
      /\ touch' \in {touch, [bid |-> bid, ask |-> ask]}
      /\ seen' \in {seen, Capped(seen + 1, Window)}
      /\ (Submit(1, px) /\ FadeAllowed) \/ UNCHANGED <<open, pos>>
  BY DEF BookDeltas, conf
<1>2. /\ touch.bid \in 0..MaxQuote /\ touch.ask \in 0..MaxQuote /\ seen \in 0..Window
      /\ inv \in Nat /\ open \in Seq(Ticket) /\ pos \in Int /\ BeliefTypeOK
      /\ touch \in [bid : 0..MaxQuote, ask : 0..MaxQuote]
      /\ inv + Len(open) <= MaxInv - 1 + MaxInFlight
  BY <1>1 DEF BeliefInv, BeliefTypeOK, FadeOvershoot, Ticket
<1>3. bid \in 0..MaxQuote /\ ask \in 0..MaxQuote
  BY <1>2
<1>4. px \in Int
  <2>1. was.bid \in Int /\ was.ask \in Int BY <1>2, <1>3
  <2> HIDE DEF bid, ask, was
  <2> QED BY <2>1, <1>3 DEF FadePrice
<1>5. touch' \in [bid : 0..MaxQuote, ask : 0..MaxQuote]
  BY <1>1, <1>2, <1>3
<1>6. seen' \in 0..Window
  <2>1. Window \in Nat /\ seen \in 0..Window BY <1>2
  <2> HIDE DEF bid, ask, was, px
  <2>2. Capped(seen + 1, Window) \in 0..Window
    BY <2>1, CappedIn
  <2> QED BY <2>2, <1>1, <1>2
<1>7. open' \in Seq(Ticket) /\ inv + Len(open') <= MaxInv - 1 + MaxInFlight /\ pos' \in Int
  <2> HIDE DEF px
  <2>1. CASE Submit(1, px) /\ FadeAllowed
    <3>1. /\ open' \in Seq(Ticket) /\ Len(open') = Len(open) + 1 /\ Len(open) < MaxInFlight
          /\ pos' = pos + 1
      <4>1. 1 \in -(2 * MaxSize)..2 * MaxSize
        OBVIOUS
      <4> QED BY <2>1, <1>1, <1>2, <1>4, <4>1, SubmitKeeps
    <3>2. inv < MaxInv BY <2>1 DEF FadeAllowed
    <3>3. Len(open) \in Nat BY <1>2
    <3> QED BY <3>1, <3>2, <3>3, <1>2
  <2>2. CASE UNCHANGED <<open, pos>>
    BY <2>2, <1>2
  <2> QED BY <2>1, <2>2, <1>1
<1>8. BeliefTypeOK'
  BY <1>1, <1>2, <1>5, <1>6, <1>7 DEF BeliefTypeOK, Ticket
<1>9. BeliefIsClose' /\ FadeOvershoot'
  BY <1>1, <1>7 DEF BeliefIsClose, FadeOvershoot
<1> QED BY <1>8, <1>9 DEF BeliefInv

\* A fill moves one order from those in flight to the inventory.
LEMMA FilledKeeps ==
  ASSUME BeliefInv, NEW k \in 1..MaxInFlight, Filled(k) \/ OrderEnds(k) PROVE BeliefInv'
<1> USE Bounds
<1>1. /\ UNCHANGED <<kind, short, early, up, side, hold, out, seen, region, touch, slips>>
      /\ k \in DOMAIN open
      /\ open' = [j \in 1..(Len(open) - 1) |-> open[IF j < k THEN j ELSE j + 1]]
      /\ inv' \in {inv, inv + 1}
      /\ \/ UNCHANGED <<pos, unfilled>>
         \/ /\ pos' = pos - open[k].units
            /\ unfilled' = IF kind = "fade" THEN unfilled ELSE unfilled + 1
  BY DEF Filled, OrderEnds, conf
<1>2. open' \in Seq(Ticket) /\ Len(open') = Len(open) - 1
  BY <1>1, EndedLeaves DEF BeliefInv
<1>3. /\ inv \in Nat /\ Len(open) \in Nat /\ pos \in Int /\ slips \in Nat /\ unfilled \in Nat
      /\ side \in {"FLAT", "LONG", "SHORT"}
      /\ open[k].units \in -(2 * MaxSize)..2 * MaxSize /\ open[k].units \in Int
  <2>1. /\ inv \in Nat /\ open \in Seq(Ticket) /\ pos \in Int /\ slips \in Nat
        /\ unfilled \in Nat /\ side \in {"FLAT", "LONG", "SHORT"}
    BY DEF BeliefInv, BeliefTypeOK, Ticket
  <2>2. open[k] \in Ticket BY <2>1, <1>1
  <2>3. open[k].units \in -(2 * MaxSize)..2 * MaxSize BY <2>2 DEF Ticket
  <2>4. open[k].units \in Int BY <2>3
  <2>5. Len(open) \in Nat BY <2>1
  <2> QED BY <2>1, <2>3, <2>4, <2>5
<1>7. pos' \in Int /\ unfilled' \in Nat /\ inv' \in Nat
  BY <1>1, <1>3
<1>4. BeliefTypeOK'
  <2>1. UNCHANGED <<kind, short, early, up, side, hold, out, seen, region, touch, slips>>
    BY <1>1
  <2>2. open' \in Seq(Ticket) /\ pos' \in Int /\ unfilled' \in Nat /\ inv' \in Nat
    BY <1>2, <1>7
  <2> QED BY <2>1, <2>2 DEF BeliefInv, BeliefTypeOK, Ticket
<1>5. BeliefIsClose'
  <2> SUFFICES ASSUME kind # "fade" PROVE Near(pos', side', Drift')
    BY <1>1 DEF BeliefIsClose, Near
  <2>1. Near(pos, side, Drift) /\ Drift \in Nat
    BY <1>3, DriftGrows DEF BeliefInv, BeliefIsClose, Near
  <2>2. CASE UNCHANGED <<pos, unfilled>>
    BY <1>1, <1>3, <2>1, <2>2, DriftGrows
  <2>3. CASE pos' = pos - open[k].units /\ unfilled' = unfilled + 1
    <3>1. Near(pos - open[k].units, side, Drift + 2 * MaxSize)
      BY <1>3, <2>1, UnfilledIsNear
    <3> QED BY <1>1, <1>3, <2>3, <3>1, DriftGrows
  <2> QED BY <1>1, <2>2, <2>3
<1>6. FadeOvershoot'
  <2>1. kind' = kind /\ inv' + Len(open') <= inv + Len(open) /\ inv' + Len(open') \in Nat
    <3>5. kind' = kind /\ inv' \in {inv, inv + 1}
      BY <1>1
    <3>6. Len(open') = Len(open) - 1
      BY <1>2
    <3>1. kind' = kind /\ inv' \in {inv, inv + 1} /\ Len(open') = Len(open) - 1
      BY <3>5, <3>6
    <3>2. Len(open') \in Nat
      BY <1>2
    <3> DEFINE a == Len(open)
               b == Len(open')
    <3>3. a \in Nat /\ b \in Nat /\ b = a - 1 /\ inv \in Nat
      BY <1>3, <3>1, <3>2
    <3> HIDE DEF a, b
    <3> DEFINE c == inv'
    <3>7. c = inv \/ c = inv + 1
      BY <3>5
    <3> HIDE DEF c
    <3>4. c + b <= inv + a /\ c + b \in Nat
      BY <3>7, <3>3
    <3> QED BY <3>5, <3>4 DEF a, b, c
  <2>2. kind = "fade" => inv + Len(open) <= MaxInv - 1 + MaxInFlight
    BY DEF BeliefInv, FadeOvershoot
  <2> DEFINE a == Len(open)
             b == Len(open')
  <2>3. /\ a \in Nat /\ inv \in Nat /\ inv' + b \in Nat /\ inv' + b <= inv + a
        /\ kind = "fade" => inv + a <= MaxInv - 1 + MaxInFlight
    BY <1>3, <2>1, <2>2
  <2> HIDE DEF a, b
  <2>4. kind' = "fade" => inv' + b <= MaxInv - 1 + MaxInFlight
    BY <2>1, <2>3
  <2> QED BY <2>4 DEF FadeOvershoot, b
<1> QED BY <1>4, <1>5, <1>6 DEF BeliefInv

-------------------------------------------------------------------------------
\* BeliefInv holds when the strategy starts.
LEMMA BeliefStarts == BeliefInit => BeliefInv
<1> SUFFICES ASSUME BeliefInit PROVE BeliefInv
  OBVIOUS
<1> USE Bounds DEF BeliefInit
<1>1. short \in BOOLEAN OBVIOUS
<1>2. open \in Seq([units : -(2 * MaxSize)..2 * MaxSize, px : Int]) /\ Len(open) = 0
  BY EmptySeq
<1>3. touch \in [bid : 0..MaxQuote, ask : 0..MaxQuote] OBVIOUS
<1>4. hold \in 0..HoldCap /\ out \in 0..Cooldown /\ seen \in 0..Window
  OBVIOUS
<1>5. BeliefTypeOK BY <1>1, <1>2, <1>3, <1>4 DEF BeliefTypeOK
<1>6. BeliefIsClose
  <2>1. Drift \in Nat /\ pos - Sign(side) * MinSize = 0 /\ MinSize \in Amounts
    BY DriftGrows, Signs DEF Amounts
  <2> QED BY <2>1 DEF BeliefIsClose
<1>7. FadeOvershoot BY <1>2 DEF FadeOvershoot
<1> QED BY <1>5, <1>6, <1>7 DEF BeliefInv

\* Every step keeps BeliefInv.
LEMMA BeliefStep == BeliefInv /\ [BeliefNext]_beliefVars => BeliefInv'
<1> SUFFICES ASSUME BeliefInv, [BeliefNext]_beliefVars PROVE BeliefInv'
  OBVIOUS
<1>1. CASE \E size \in {0} \union Amounts : Bar(size)
  BY <1>1, BarKeeps
<1>2. CASE \E p \in Prints, dev \in {"low", "near", "high"}, size \in Amounts :
             TradeTick(p, dev, size)
  BY <1>2, TradeTickKeeps
<1>3. CASE \E nb, na \in 0..MaxQuote, wide \in BOOLEAN : BookDeltas(nb, na, wide)
  BY <1>3, BookDeltasKeeps
<1>4. CASE \E k \in 1..MaxInFlight : Filled(k) \/ OrderEnds(k)
  BY <1>4, FilledKeeps
<1>5. CASE Stop
  <2>1. /\ up' = FALSE
        /\ UNCHANGED <<kind, short, early, side, hold, out, seen, region, touch, inv, open, pos,
                       slips, unfilled>>
    BY <1>5 DEF Stop, conf, dealt
  <2> QED BY <2>1 DEF BeliefInv, BeliefTypeOK, BeliefIsClose, Drift, FadeOvershoot, Sign
<1>6. CASE UNCHANGED beliefVars
  BY <1>6 DEF beliefVars, BeliefInv, BeliefTypeOK, BeliefIsClose, Drift, FadeOvershoot, Sign
<1> QED BY <1>1, <1>2, <1>3, <1>4, <1>5, <1>6 DEF BeliefNext

LEMMA BeliefHolds == BeliefSpec => []BeliefInv
  BY BeliefStarts, BeliefStep, PTL DEF BeliefSpec

\* Every variable of a strategy keeps to its type, whatever the bounds.
THEOREM BeliefTyped == BeliefSpec => []BeliefTypeOK
<1>1. BeliefInv => BeliefTypeOK BY DEF BeliefInv
<1> QED BY <1>1, BeliefHolds, PTL

\* After any run of bars and prints, at any sizes and with any orders that end
\* unfilled: the position is one size of the side that is remembered, but for
\* the spread of sizes for each exit or flip and two sizes for each order that
\* was not filled or close that had no price.
THEOREM BeliefStaysClose == BeliefSpec => []BeliefIsClose
<1>1. BeliefInv => BeliefIsClose BY DEF BeliefInv
<1> QED BY <1>1, BeliefHolds, PTL

\* The fade overruns its inventory cap by no more than the orders in flight.
THEOREM FadeOverrunBounded == BeliefSpec => []FadeOvershoot
<1>1. BeliefInv => FadeOvershoot BY DEF BeliefInv
<1> QED BY <1>1, BeliefHolds, PTL

-------------------------------------------------------------------------------
(* Feed *)

\* The last subscription on its way, or else the scope, is complete.
LastIsComplete ==
  socket => IF sends = <<>> THEN scope = wanted ELSE sends[Len(sends)] = wanted

\* A closed socket has nothing on its way and no scope.
ClosedIsEmpty == ~socket => sends = <<>> /\ inbox = <<>> /\ scope = {}

FeedInv == /\ books \in [Tokens -> SUBSET Levels] /\ socket \in BOOLEAN
           /\ wanted \subseteq Tokens /\ scope \subseteq wanted
           /\ sends \in Seq(SUBSET wanted)
           /\ LastIsComplete /\ ClosedIsEmpty

-------------------------------------------------------------------------------
\* FeedInv holds before the node is started.
LEMMA FeedStarts == FeedInit => FeedInv
<1> SUFFICES ASSUME FeedInit PROVE FeedInv
  OBVIOUS
<1>1. books \in [Tokens -> SUBSET Levels] BY DEF FeedInit
<1>2. sends \in Seq(SUBSET wanted) BY DEF FeedInit
<1> QED BY <1>1, <1>2 DEF FeedInit, FeedInv, LastIsComplete, ClosedIsEmpty

\* A connection asks again for everything that was asked for.
LEMMA ConnectKeeps == ASSUME FeedInv, Connect PROVE FeedInv'
<1>1. CASE wanted = {}
  BY <1>1 DEF Connect, FeedInv, LastIsComplete, ClosedIsEmpty
<1>2. CASE wanted # {}
  <2>1. sends' = <<wanted>> /\ Len(sends') = 1 /\ sends'[1] = wanted
    BY <1>2 DEF Connect
  <2>2. sends' \in Seq(SUBSET wanted')
    <3>1. wanted' = wanted /\ wanted \in SUBSET wanted'
      BY DEF Connect
    <3> QED BY <2>1, <3>1
  <2> QED BY <2>1, <2>2 DEF Connect, FeedInv, LastIsComplete, ClosedIsEmpty
<1> QED BY <1>1, <1>2

\* A subscription is appended with every token asked for so far.
LEMMA SubscribeKeeps ==
  ASSUME FeedInv, NEW t \in Tokens, SubscribeMarket(t) PROVE FeedInv'
<1>1. /\ wanted' = wanted \union {t} /\ wanted' \subseteq Tokens /\ scope' \subseteq wanted'
      /\ UNCHANGED <<books, scope, socket, inbox>>
  BY DEF SubscribeMarket, FeedInv
<1>2. sends \in Seq(SUBSET wanted')
  <2>1. sends \in Seq(SUBSET wanted) BY DEF FeedInv
  <2>2. SUBSET wanted \subseteq SUBSET wanted' BY <1>1
  <2> QED BY <2>1, <2>2
<1>3. CASE socket
  <2>1. sends' = Append(sends, wanted')
    BY <1>3 DEF SubscribeMarket
  <2>2. /\ sends' \in Seq(SUBSET wanted') /\ sends' # <<>>
        /\ sends'[Len(sends')] = wanted'
    BY <1>2, <2>1
  <2> QED BY <1>1, <1>3, <2>2 DEF FeedInv, LastIsComplete, ClosedIsEmpty
<1>4. CASE ~socket
  <2>1. sends' = sends BY <1>4 DEF SubscribeMarket
  <2> QED BY <1>1, <1>2, <1>4, <2>1 DEF FeedInv, LastIsComplete, ClosedIsEmpty
<1> QED BY <1>3, <1>4

\* The venue reads the oldest message: the last one stays the last, or it was
\* the last and becomes the scope.
LEMMA VenueSubscribesKeeps == ASSUME FeedInv, VenueSubscribes PROVE FeedInv'
<1>1. /\ sends \in Seq(SUBSET wanted) /\ sends # <<>> /\ socket
      /\ scope' = Head(sends) /\ sends' = Tail(sends)
      /\ UNCHANGED <<books, socket, wanted>>
  BY DEF VenueSubscribes, FeedInv, ClosedIsEmpty
<1>2. Head(sends) \in SUBSET wanted /\ Tail(sends) \in Seq(SUBSET wanted)
  BY <1>1
<1>3. sends[Len(sends)] = wanted
  BY <1>1 DEF FeedInv, LastIsComplete
<1>4. IF Tail(sends) = <<>> THEN Head(sends) = wanted
      ELSE Tail(sends)[Len(Tail(sends))] = wanted
  <2>1. Len(Tail(sends)) = Len(sends) - 1 /\ Len(sends) \in Nat \ {0}
    BY <1>1
  <2>2. CASE Tail(sends) = <<>>
    <3>1. Len(sends) = 1 BY <2>1, <2>2
    <3> QED BY <1>1, <1>3, <2>2, <3>1
  <2>3. CASE Tail(sends) # <<>>
    <3>1. Len(Tail(sends)) # 0 BY <1>2, <2>3, EmptySeq
    <3>2. \A i \in 1..Len(Tail(sends)) : Tail(sends)[i] = sends[i + 1] BY <1>1
    <3> QED BY <1>3, <2>1, <2>3, <3>1, <3>2
  <2> QED BY <2>2, <2>3
<1> QED BY <1>1, <1>2, <1>4 DEF FeedInv, LastIsComplete, ClosedIsEmpty

\* The other steps touch neither the subscription nor what is on its way.
LEMMA VenueChangesKeeps ==
  ASSUME FeedInv, NEW t \in Tokens, NEW l \in Levels, VenueChanges(t, l) PROVE FeedInv'
<1>1. /\ UNCHANGED <<scope, socket, wanted, sends>>
      /\ books' = [books EXCEPT ![t] = IF l \in @ THEN @ \ {l} ELSE @ \union {l}]
      /\ t \notin scope => inbox' = inbox
  BY DEF VenueChanges
<1>2. books' \in [Tokens -> SUBSET Levels]
  BY <1>1 DEF FeedInv
<1>3. ~socket => inbox' = inbox
  BY <1>1 DEF FeedInv, ClosedIsEmpty
<1> QED BY <1>1, <1>2, <1>3 DEF FeedInv, LastIsComplete, ClosedIsEmpty

\* FeedInv is inductive.
LEMMA FeedSteps == FeedInv /\ [FeedNext]_feedVars => FeedInv'
<1> SUFFICES ASSUME FeedInv, [FeedNext]_feedVars PROVE FeedInv'
  OBVIOUS
<1>1. CASE Connect BY <1>1, ConnectKeeps
<1>2. CASE DropSocket
  <2>1. sends' \in Seq(SUBSET wanted') BY <1>2 DEF DropSocket
  <2> QED BY <1>2, <2>1 DEF DropSocket, FeedInv, LastIsComplete, ClosedIsEmpty
<1>3. CASE VenueSubscribes BY <1>3, VenueSubscribesKeeps
<1>4. CASE Handle
  <2>1. /\ UNCHANGED <<books, scope, socket, wanted, sends>> /\ inbox # <<>>
    BY <1>4 DEF Handle
  <2> QED BY <2>1 DEF FeedInv, LastIsComplete, ClosedIsEmpty
<1>5. ASSUME NEW t \in Tokens, SubscribeMarket(t) PROVE FeedInv'
  BY <1>5, SubscribeKeeps
<1>6. ASSUME NEW t \in Tokens, NEW l \in Levels, VenueChanges(t, l) PROVE FeedInv'
  BY <1>6, VenueChangesKeeps
<1>7. CASE UNCHANGED feedVars
  BY <1>7 DEF feedVars, FeedInv, LastIsComplete, ClosedIsEmpty
<1> QED BY <1>1, <1>2, <1>3, <1>4, <1>5, <1>6, <1>7 DEF FeedNext

\* The feed's state keeps its type, and a closed socket carries nothing.
THEOREM FeedTypeCorrect == FeedSpec => []FeedTypeOK
<1>1. FeedInv => FeedTypeOK BY DEF FeedInv, FeedTypeOK, ClosedIsEmpty
<1> QED BY <1>1, FeedStarts, FeedSteps, PTL DEF FeedSpec

\* Whatever subscriptions, connections and drops came before, in any order:
\* when the venue has read every subscription, every token the node asked for
\* is in scope (client.py, subscribe_market: one message that grows).
THEOREM EveryTokenInScope == FeedSpec => []ScopeIsComplete
<1>1. FeedInv => ScopeIsComplete BY DEF FeedInv, LastIsComplete, ScopeIsComplete
<1> QED BY <1>1, FeedStarts, FeedSteps, PTL DEF FeedSpec

-------------------------------------------------------------------------------
(* HaltPath *)

\* A runner that does not run yet has no heartbeat; one that has, and is not
\* over, has missed one answer at most.
WatchInStep ==
  \A r \in Runners : /\ stage[r] # "running" => watch[r] = "off" /\ misses[r] = 0
                     /\ watch[r] \in {"sleeping", "pinging"} => misses[r] <= 1

\* A switch was built at some value of the counter, and before the last one
\* when the flag stands and could be read.
BuiltBefore ==
  \A r \in Runners :
    role[r] \in Checked /\ stage[r] \in {"built", "running"}
      => clear[r] <= halts /\ (flag => clear[r] < halts \/ blind[r])

\* Between the file and the cancel-all a trigger has its flag, or an excuse.
TripIsFlagged ==
  \A r \in Runners : /\ trip[r] = "written" => flag \/ excused
                     /\ trip[r] = "unwritten" => excused

HaltInv == HaltTypeOK /\ WatchInStep /\ BuiltBefore /\ TripIsFlagged /\ HaltOutlivesCrash

USE HaltAssumption

-------------------------------------------------------------------------------
\* HaltInv holds when no process is up.
LEMMA HaltStarts == HaltInit => HaltInv
<1> SUFFICES ASSUME HaltInit PROVE HaltInv
  OBVIOUS
<1>1. HaltTypeOK
  <2>1. flag \in BOOLEAN /\ atVenue \in BOOLEAN /\ excused \in BOOLEAN
    BY Zenon DEF HaltInit
  <2>5. halts \in 0..MaxHalts
    <3>1. halts = 0 BY DEF HaltInit
    <3> QED BY <3>1
  <2>2. /\ role \in [Runners -> RunnerKinds \cup {"none"}]
        /\ stage \in [Runners -> {"down", "armed", "built", "running"}]
        /\ clear \in [Runners -> 0..MaxHalts]
        /\ blind \in [Runners -> BOOLEAN]
    BY DEF HaltInit
  <2>3. /\ trip \in [Runners -> {"no", "memory", "written", "unwritten", "done"}]
        /\ cancelAll \in [Runners -> {"none", "queued", "sent", "failed", "uncalled"}]
        /\ loop \in [Runners -> {"idle", "running", "none"}]
    BY DEF HaltInit
  <2>4. /\ timed \in [Runners -> BOOLEAN]
        /\ watch \in [Runners -> {"off", "sleeping", "pinging", "over"}]
        /\ misses \in [Runners -> 0..2]
    BY DEF HaltInit
  <2> QED BY <2>1, <2>2, <2>3, <2>4, <2>5 DEF HaltTypeOK
<1>2. WatchInStep BY DEF HaltInit, WatchInStep
<1>3. BuiltBefore BY DEF HaltInit, BuiltBefore
<1>4. TripIsFlagged /\ HaltOutlivesCrash
  BY DEF HaltInit, TripIsFlagged, HaltOutlivesCrash
<1> QED BY <1>1, <1>2, <1>3, <1>4 DEF HaltInv

\* The operator's halt: every switch was built before the new value.
LEMMA HaltScriptKeeps == ASSUME HaltInv, HaltScript PROVE HaltInv'
<1>1. /\ halts \in 0..MaxHalts /\ halts < MaxHalts /\ halts' = halts + 1 /\ flag'
      /\ UNCHANGED <<role, stage, clear, blind, trip, cancelAll, loop, timed, watch, misses,
                     atVenue, excused>>
  BY DEF HaltScript, WriteFlag, switch, heart, HaltInv, HaltTypeOK
<1>2. HaltTypeOK'
  BY <1>1 DEF HaltInv, HaltTypeOK, HaltScript, WriteFlag
<1>3. WatchInStep' BY <1>1 DEF HaltInv, WatchInStep
<1>4. BuiltBefore'
  BY <1>1 DEF HaltInv, HaltTypeOK, BuiltBefore
<1>5. TripIsFlagged' /\ HaltOutlivesCrash'
  BY <1>1 DEF HaltInv, TripIsFlagged, HaltOutlivesCrash
<1> QED BY <1>2, <1>3, <1>4, <1>5 DEF HaltInv

\* The reset: a trigger that has not begun its cancel-all is excused.
LEMMA ResetKeeps == ASSUME HaltInv, ResetScript PROVE HaltInv'
<1>1. /\ flag' = FALSE /\ atVenue' = FALSE
      /\ excused' = \E r \in Runners : trip[r] \in {"written", "unwritten"}
      /\ UNCHANGED <<halts, role, stage, clear, blind, trip, cancelAll, loop, timed, watch, misses>>
  BY DEF ResetScript, switch, heart
<1>2. HaltTypeOK'
  BY <1>1 DEF HaltInv, HaltTypeOK
<1>3. WatchInStep' BY <1>1 DEF HaltInv, WatchInStep
<1>4. BuiltBefore' BY <1>1 DEF HaltInv, BuiltBefore
<1>5. TripIsFlagged' /\ HaltOutlivesCrash'
  BY <1>1 DEF HaltInv, TripIsFlagged, HaltOutlivesCrash
<1> QED BY <1>2, <1>3, <1>4, <1>5 DEF HaltInv

\* A process ends, for whatever reason, and leaves the file alone.
LEMMA GoneKeeps ==
  ASSUME HaltInv, NEW r \in Runners, Gone(r), UNCHANGED <<file, atVenue>> PROVE HaltInv'
<1>1. UNCHANGED <<flag, halts, excused, atVenue>> BY DEF file
<1>2. HaltTypeOK'
  BY <1>1 DEF HaltInv, HaltTypeOK, Gone
<1>3. WatchInStep' BY DEF HaltInv, HaltTypeOK, WatchInStep, Gone
<1>4. BuiltBefore' BY <1>1 DEF HaltInv, HaltTypeOK, BuiltBefore, Gone
<1>5. TripIsFlagged' /\ HaltOutlivesCrash'
  BY <1>1 DEF HaltInv, HaltTypeOK, TripIsFlagged, HaltOutlivesCrash, Gone
<1> QED BY <1>2, <1>3, <1>4, <1>5 DEF HaltInv

\* A constructor: the process is up, its switch is not built.
LEMMA ArmedKeeps ==
  ASSUME HaltInv, NEW r \in Runners, NEW k \in RunnerKinds, Armed(r, k) PROVE HaltInv'
<1>1. /\ UNCHANGED <<flag, halts, excused, clear, blind, trip, cancelAll, loop, watch, misses, atVenue>>
      /\ stage[r] = "down" /\ stage' = [stage EXCEPT ![r] = "armed"]
      /\ role' = [role EXCEPT ![r] = k] /\ timed' \in [Runners -> BOOLEAN]
  BY DEF Armed, file, switch, heart, HaltInv, HaltTypeOK
<1>2. HaltTypeOK' BY <1>1 DEF HaltInv, HaltTypeOK
<1>3. WatchInStep' BY <1>1 DEF HaltInv, HaltTypeOK, WatchInStep
<1>4. BuiltBefore' BY <1>1 DEF HaltInv, HaltTypeOK, BuiltBefore
<1>5. TripIsFlagged' /\ HaltOutlivesCrash'
  BY <1>1 DEF HaltInv, TripIsFlagged, HaltOutlivesCrash
<1> QED BY <1>2, <1>3, <1>4, <1>5 DEF HaltInv

\* The switch is built where no flag stands, or none was read.
LEMMA BuildSwitchKeeps == ASSUME HaltInv, NEW r \in Runners, BuildSwitch(r) PROVE HaltInv'
<1>1. PICK refused \in BOOLEAN, unread \in BOOLEAN :
        /\ Built(r, refused, unread)
        /\ role[r] \in Checked /\ flag => refused \/ unread
  <2>1. CASE role[r] \in Checked
    <3>1. PICK stands \in ReadFlag : Built(r, stands, flag /\ ~stands)
      BY <2>1 DEF BuildSwitch
    <3>2. stands \in BOOLEAN /\ (flag /\ ~stands) \in BOOLEAN
      BY DEF ReadFlag, HaltInv, HaltTypeOK
    <3> QED BY <3>1, <3>2
  <2>2. CASE role[r] \notin Checked
    BY <2>2 DEF BuildSwitch
  <2> QED BY <2>1, <2>2
<1>2. CASE refused
  BY <1>1, <1>2, GoneKeeps DEF Built
<1>3. CASE ~refused
  <2>1. /\ stage[r] = "armed" /\ stage' = [stage EXCEPT ![r] = "built"]
        /\ clear' = [clear EXCEPT ![r] = halts]
        /\ blind' = [blind EXCEPT ![r] = unread]
        /\ UNCHANGED <<role, trip, cancelAll, loop, timed, watch, misses, flag, halts,
                       excused, atVenue>>
    BY <1>1, <1>3 DEF Built, heart, file
  <2>2. HaltTypeOK' BY <2>1 DEF HaltInv, HaltTypeOK
  <2>3. WatchInStep' BY <2>1 DEF HaltInv, HaltTypeOK, WatchInStep
  <2>4. BuiltBefore' BY <1>1, <1>3, <2>1 DEF HaltInv, HaltTypeOK, BuiltBefore
  <2>5. TripIsFlagged' /\ HaltOutlivesCrash'
    BY <2>1 DEF HaltInv, TripIsFlagged, HaltOutlivesCrash
  <2> QED BY <2>2, <2>3, <2>4, <2>5 DEF HaltInv
<1> QED BY <1>2, <1>3

\* run(): the loop and the heartbeat of the runner's kind.
LEMMA BeganKeeps ==
  ASSUME HaltInv, NEW r \in Runners, NEW l \in {"idle", "running", "none"},
         NEW w \in {"off", "sleeping"}, Began(r, l, w)
  PROVE  HaltInv'
<1>1. /\ stage[r] = "built" /\ stage' = [stage EXCEPT ![r] = "running"]
      /\ loop' = [loop EXCEPT ![r] = l] /\ watch' = [watch EXCEPT ![r] = w]
      /\ UNCHANGED <<flag, halts, excused, role, clear, blind, trip, cancelAll, timed, misses, atVenue>>
  BY DEF Began, file
<1>2. HaltTypeOK' BY <1>1 DEF HaltInv, HaltTypeOK
<1>3. WatchInStep' BY <1>1 DEF HaltInv, HaltTypeOK, WatchInStep
<1>4. BuiltBefore' BY <1>1 DEF HaltInv, HaltTypeOK, BuiltBefore
<1>5. TripIsFlagged' /\ HaltOutlivesCrash'
  BY <1>1 DEF HaltInv, TripIsFlagged, HaltOutlivesCrash
<1> QED BY <1>2, <1>3, <1>4, <1>5 DEF HaltInv

-------------------------------------------------------------------------------
\* trigger, first part: only this process knows.
LEMMA NodeFailsKeeps == ASSUME HaltInv, NEW r \in Runners, NodeFails(r) PROVE HaltInv'
<1>1. /\ trip' = [trip EXCEPT ![r] = "memory"]
      /\ UNCHANGED <<flag, halts, excused, role, stage, clear, blind, cancelAll, loop, timed,
                     watch, misses, atVenue>>
  BY DEF NodeFails, InMemory, file, heart
<1>2. HaltTypeOK' BY <1>1 DEF HaltInv, HaltTypeOK
<1>3. WatchInStep' /\ BuiltBefore' BY <1>1 DEF HaltInv, WatchInStep, BuiltBefore
<1>4. TripIsFlagged' /\ HaltOutlivesCrash'
  BY <1>1 DEF HaltInv, HaltTypeOK, TripIsFlagged, HaltOutlivesCrash
<1> QED BY <1>2, <1>3, <1>4 DEF HaltInv

\* trigger, second part: the flag is written, or the failure excused.
LEMMA PersistKeeps == ASSUME HaltInv, NEW r \in Runners, Persist(r) PROVE HaltInv'
<1>1. /\ trip[r] = "memory"
      /\ UNCHANGED <<role, stage, clear, blind, cancelAll, loop, timed, watch, misses, atVenue>>
  BY DEF Persist, heart
<1>2. CASE WriteFlag /\ trip' = [trip EXCEPT ![r] = "written"] /\ excused' = excused
  <2>1. HaltTypeOK' BY <1>1, <1>2 DEF HaltInv, HaltTypeOK, WriteFlag
  <2>2. WatchInStep' BY <1>1 DEF HaltInv, WatchInStep
  <2>3. BuiltBefore' BY <1>1, <1>2 DEF HaltInv, HaltTypeOK, BuiltBefore, WriteFlag
  <2>4. TripIsFlagged' /\ HaltOutlivesCrash'
    BY <1>1, <1>2 DEF HaltInv, HaltTypeOK, TripIsFlagged, HaltOutlivesCrash, WriteFlag
  <2> QED BY <2>1, <2>2, <2>3, <2>4 DEF HaltInv
<1>3. CASE /\ trip' = [trip EXCEPT ![r] = "unwritten"] /\ excused' = TRUE
           /\ UNCHANGED <<flag, halts>>
  <2>1. HaltTypeOK' BY <1>1, <1>3 DEF HaltInv, HaltTypeOK
  <2>2. WatchInStep' /\ BuiltBefore' BY <1>1, <1>3 DEF HaltInv, WatchInStep, BuiltBefore
  <2>3. TripIsFlagged' /\ HaltOutlivesCrash'
    BY <1>1, <1>3 DEF HaltInv, HaltTypeOK, TripIsFlagged, HaltOutlivesCrash
  <2> QED BY <2>1, <2>2, <2>3 DEF HaltInv
<1> QED BY <1>2, <1>3 DEF Persist

\* What a cancel-all can come to on each kind of loop.
LEMMA CancelOnType ==
  ASSUME NEW l \in {"idle", "running", "none"}, NEW c \in CancelOn(l)
  PROVE  c \in {"none", "queued", "sent", "failed", "uncalled"}
<1>1. CASE l = "idle" BY <1>1 DEF CancelOn
<1>2. CASE l = "running" BY <1>2 DEF CancelOn
<1>3. CASE l = "none" BY <1>3 DEF CancelOn
<1> QED BY <1>1, <1>2, <1>3

\* trigger, third part: the venue is reached after the file.
LEMMA StartCancelKeeps == ASSUME HaltInv, NEW r \in Runners, StartCancel(r) PROVE HaltInv'
<1>1. /\ trip[r] \in {"written", "unwritten"} /\ trip' = [trip EXCEPT ![r] = "done"]
      /\ atVenue' = TRUE
      /\ UNCHANGED <<flag, halts, excused, role, stage, clear, blind, loop, timed, watch, misses>>
  BY DEF StartCancel, file, heart
<1>2. PICK c \in CancelOn(loop[r]) : cancelAll' = [cancelAll EXCEPT ![r] = c]
  BY DEF StartCancel
<1>3. c \in {"none", "queued", "sent", "failed", "uncalled"}
  BY CancelOnType DEF HaltInv, HaltTypeOK
<1>4. HaltTypeOK' BY <1>1, <1>2, <1>3 DEF HaltInv, HaltTypeOK
<1>5. WatchInStep' /\ BuiltBefore' BY <1>1 DEF HaltInv, WatchInStep, BuiltBefore
<1>6. TripIsFlagged' /\ HaltOutlivesCrash'
  BY <1>1 DEF HaltInv, HaltTypeOK, TripIsFlagged, HaltOutlivesCrash
<1> QED BY <1>4, <1>5, <1>6 DEF HaltInv

\* A queued cancel-all runs.
LEMMA RunCancelKeeps == ASSUME HaltInv, NEW r \in Runners, RunCancel(r) PROVE HaltInv'
<1>1. UNCHANGED <<flag, halts, excused, role, stage, clear, blind, trip, loop, timed, watch,
                  misses, atVenue>>
  BY DEF RunCancel, file, heart
<1>2. HaltTypeOK' BY <1>1 DEF HaltInv, HaltTypeOK, RunCancel
<1>3. WatchInStep' /\ BuiltBefore' /\ TripIsFlagged' /\ HaltOutlivesCrash'
  BY <1>1 DEF HaltInv, WatchInStep, BuiltBefore, TripIsFlagged, HaltOutlivesCrash
<1> QED BY <1>2, <1>3 DEF HaltInv

\* The heartbeat: a ping, an answer, or a miss, the second of which trips.
LEMMA HeartKeeps ==
  ASSUME HaltInv, NEW r \in Runners, Ping(r) \/ Alive(r) \/ Miss(r) PROVE HaltInv'
<1>1. UNCHANGED <<flag, halts, excused, role, stage, clear, blind, cancelAll, loop, timed, atVenue>>
  BY DEF Ping, Alive, Miss, Missed, file, switch
<1>2. watch[r] \in {"sleeping", "pinging"} /\ misses[r] \in 0..1
  BY DEF Ping, Alive, Miss, Missed, HaltInv, HaltTypeOK, WatchInStep
<1>3. CASE Ping(r) \/ Alive(r)
  <2>1. trip' = trip BY <1>3 DEF Ping, Alive, switch
  <2>2. HaltTypeOK' /\ WatchInStep'
    BY <1>1, <1>2, <1>3, <2>1 DEF HaltInv, HaltTypeOK, WatchInStep, Ping, Alive
  <2>3. BuiltBefore' /\ TripIsFlagged' /\ HaltOutlivesCrash'
    BY <1>1, <2>1 DEF HaltInv, BuiltBefore, TripIsFlagged, HaltOutlivesCrash
  <2> QED BY <2>2, <2>3 DEF HaltInv
<1>4. CASE Miss(r)
  <2>1. /\ misses' = [misses EXCEPT ![r] = misses[r] + 1]
        /\ IF misses[r] + 1 >= 2
           THEN watch' = [watch EXCEPT ![r] = "over"] /\ trip' = [trip EXCEPT ![r] = "memory"]
           ELSE watch' = [watch EXCEPT ![r] = "sleeping"] /\ trip' = trip
    BY <1>4 DEF Miss, Missed, InMemory, HaltInv, HaltTypeOK
  <2>2. HaltTypeOK'
    BY <1>1, <1>2, <2>1 DEF HaltInv, HaltTypeOK
  <2>3. WatchInStep'
    BY <1>1, <1>2, <2>1 DEF HaltInv, HaltTypeOK, WatchInStep
  <2>4. BuiltBefore' /\ TripIsFlagged' /\ HaltOutlivesCrash'
    BY <1>1, <2>1 DEF HaltInv, HaltTypeOK, BuiltBefore, TripIsFlagged, HaltOutlivesCrash
  <2> QED BY <2>2, <2>3, <2>4 DEF HaltInv
<1> QED BY <1>3, <1>4

\* HaltInv is inductive.
LEMMA HaltSteps == HaltInv /\ [HaltNext]_haltVars => HaltInv'
<1> SUFFICES ASSUME HaltInv, [HaltNext]_haltVars PROVE HaltInv'
  OBVIOUS
<1>1. CASE HaltScript \/ ResetScript
  BY <1>1, HaltScriptKeeps, ResetKeeps
<1>2. ASSUME NEW r \in Runners,
             ArmLive(r) \/ ArmPaper(r) \/ ArmObserver(r) \/ ArmHl(r) \/ ArmLegacy(r)
      PROVE  HaltInv'
  <2>1. PICK k \in RunnerKinds : Armed(r, k)
    BY <1>2 DEF ArmLive, ArmPaper, ArmObserver, ArmHl, ArmLegacy, RunnerKinds
  <2> QED BY <2>1, ArmedKeeps
<1>3. ASSUME NEW r \in Runners,
             RunLive(r) \/ RunPaper(r) \/ RunObserver(r) \/ RunHl(r) \/ RunLegacy(r)
      PROVE  HaltInv'
  <2>1. PICK l \in {"idle", "running", "none"}, w \in {"off", "sleeping"} : Began(r, l, w)
    BY <1>3 DEF RunLive, RunPaper, RunObserver, RunHl, RunLegacy, AfterPriming
  <2> QED BY <2>1, BeganKeeps
<1>4. ASSUME NEW r \in Runners, Crash(r) \/ TimerStops(r) \/ Interrupt(r) \/ Reraise(r)
      PROVE  HaltInv'
  BY <1>4, GoneKeeps DEF Crash, TimerStops, Interrupt, Reraise
<1>5. ASSUME NEW r \in Runners,
             \/ BuildSwitch(r) \/ NodeFails(r) \/ Persist(r) \/ StartCancel(r)
             \/ RunCancel(r) \/ Ping(r) \/ Alive(r) \/ Miss(r)
      PROVE  HaltInv'
  BY <1>5, BuildSwitchKeeps, NodeFailsKeeps, PersistKeeps, StartCancelKeeps,
     RunCancelKeeps, HeartKeeps
<1>6. CASE UNCHANGED haltVars
  BY <1>6 DEF haltVars, HaltInv, HaltTypeOK, WatchInStep, BuiltBefore, TripIsFlagged,
              HaltOutlivesCrash
<1> QED BY <1>1, <1>2, <1>3, <1>4, <1>5, <1>6 DEF HaltNext, Own

-------------------------------------------------------------------------------
\* The halt's state keeps its type: two missed answers at most, and a cancel-all
\* only in the states its loop allows.
THEOREM HaltTypeCorrect == HaltSpec => []HaltTypeOK
<1>1. HaltInv => HaltTypeOK BY DEF HaltInv
<1> QED BY <1>1, HaltStarts, HaltSteps, PTL DEF HaltSpec

\* For any number of processes and halts: a runner past its KillSwitch under a
\* standing flag was there before the flag, or read_flag gave it none
\* (kill_switch.py: the constructor refuses; run() does not look again).
THEOREM NoneSlipsIn == HaltSpec => []OldRunnersOnly
<1>1. HaltInv => OldRunnersOnly
  BY DEF HaltInv, BuiltBefore, OldRunnersOnly
<1> QED BY <1>1, HaltStarts, HaltSteps, PTL DEF HaltSpec

\* For any number of processes, deaths and resets: once a trigger has begun its
\* cancel-all the flag stands until a reset, unless its write failed or the
\* reset came in between (kill_switch.py: the file before the cancel-all).
THEOREM FlagSurvives == HaltSpec => []HaltOutlivesCrash
<1>1. HaltInv => HaltOutlivesCrash BY DEF HaltInv
<1> QED BY <1>1, HaltStarts, HaltSteps, PTL DEF HaltSpec

-------------------------------------------------------------------------------
(* Trading *)

\* A run of the process is a run of each component: the one that runs takes
\* its own steps, and the others stutter.
LEMMA RunsOfEach ==
  TradingSpec => Spec /\ LiveSpec /\ BeliefSpec /\ HaltSpec /\ FeedSpec
<1>1. TradingInit => Init /\ LiveInit /\ BeliefInit /\ HaltInit /\ FeedInit
  BY DEF TradingInit
<1>2. ASSUME [TradingNext]_tradingVars
      PROVE  /\ [Next]_vars /\ [LiveNext]_liveVars /\ [BeliefNext]_beliefVars
             /\ [HaltNext]_haltVars /\ [FeedNext]_feedVars
  <2>1. CASE Arb BY <2>1 DEF Arb
  <2>2. CASE Live BY <2>2 DEF Live
  <2>3. CASE Belief BY <2>3 DEF Belief
  <2>4. CASE Halt BY <2>4 DEF Halt
  <2>5. CASE Books BY <2>5 DEF Books
  <2>6. CASE UNCHANGED tradingVars BY <2>6 DEF tradingVars
  <2> QED BY <1>2, <2>1, <2>2, <2>3, <2>4, <2>5, <2>6 DEF TradingNext
<1> QED
  BY <1>1, <1>2, PTL DEF TradingSpec, Spec, LiveSpec, BeliefSpec, HaltSpec, FeedSpec

\* In every state of a trading process each component's type predicate holds.
THEOREM TradingTyped == TradingSpec => []TradingTypeOK
  BY RunsOfEach, ArbTypeCorrect, LiveTypes, BeliefTyped, HaltTypeCorrect, FeedTypeCorrect, PTL
     DEF TradingTypeOK

\* What a trading process promises of its orders: each component's safety
\* property, at any moment of a run of the whole.
TradingSafe ==
  /\ SurvivorExplained /\ StuckIsNaked /\ OneAttemptAtATime
  /\ WorkingIsKnown /\ EndedIsGone /\ FillsMatch
  /\ BeliefIsClose /\ FadeOvershoot
  /\ OldRunnersOnly /\ HaltOutlivesCrash /\ ScopeIsComplete

\* The process keeps every one of them: a survivor of an arbitrage is
\* explained, an order that works is known, a match has its fill, a strategy's
\* belief stays close to its position, a halt outlives a crash, a token is in
\* scope, each but for the exceptions its property names.
THEOREM TradingIsSafe == TradingSpec => []TradingSafe
  BY RunsOfEach, NoThirdWay, OnlyNakedStuck, SerialAttempts, WorkingKnown, EndedGone,
     FillsMatched, BeliefStaysClose, FadeOverrunBounded, NoneSlipsIn, FlagSurvives,
     EveryTokenInScope, PTL
     DEF TradingSafe
===============================================================================
