------------------------------ MODULE CapGate -------------------------------
(***************************************************************************)
(* The capital cap of a strategy: PortfolioAllocator.check_order, called   *)
(* by PolymarketExecutionClient._submit_order before an order reaches the  *)
(* venue or the paper engine, and the exposure it reads back from          *)
(* Nautilus' Portfolio, which only fills change.                           *)
(*                                                                         *)
(* Between the gate and the fill an order is open, and no one counts it.   *)
(* The order path is the one of module OrderLife: an accepted order is     *)
(* filled or cancelled at any later time (module PaperFill is the paper    *)
(* path).                                                                  *)
(*                                                                         *)
(* Abstractions.  A quantity is its notional in units of USDC: prices do   *)
(* not move and fills are all or nothing.  The cap is one number for the   *)
(* life of a process: check_order asks the equity provider every time, but *)
(* current_usdc answers from the snapshot that the runner's one refresh    *)
(* took at its start, and nothing in a running node refreshes it again.    *)
(* What the gate reads of the portfolio may fail, and it fails open: see   *)
(* Readings.                                                               *)
(***************************************************************************)
EXTENDS Integers, FiniteSets

CONSTANTS
  Orders,       \* client order ids
  Instruments,  \* instruments of the venue
  Caps,         \* what cap_usdc may resolve to; 0: equity was never read
  MaxQty,       \* the largest order, in units of USDC
  MaxOpen,      \* bound: orders a strategy has queued or open at once
  ReadsMayFail, \* may check_order raise, or read less than the exposure?
  OrderShapes,  \* the orders strategies may send
  NoShape       \* the shape of an order not yet sent

Shapes == [iid : Instruments, side : {"BUY", "SELL"}, qty : 1..MaxQty,
          priced : BOOLEAN]

ASSUME CapAssumption  == Caps \subseteq Nat
ASSUME SizeAssumption == MaxQty \in Nat \ {0} /\ MaxOpen \in Nat \ {0}
ASSUME KindAssumption == OrderShapes \subseteq Shapes /\ NoShape \notin Shapes
ASSUME ReadAssumption == ReadsMayFail \in BOOLEAN
ASSUME FewOrders      == IsFiniteSet(Orders) /\ IsFiniteSet(Instruments)

VARIABLES
  cap,       \* cap_usdc of the strategy
  shape,      \* shape[o]: what the strategy asked for
  status,    \* status[o]: how far o is
  net,       \* net[i]: Portfolio.net_position of i, in USDC
  exposure,  \* sum of Portfolio.net_exposures of the venue
  outrun     \* history: the ways an accepted order went past the gate

capVars == <<cap, shape, status, net, exposure, outrun>>

OrderStatuses == {"unsent", "queued", "rejected", "accepted", "filled", "canceled"}
Ways     == {"raced", "flipped", "unpriced", "unread"}

Abs(n) == IF n < 0 THEN -n ELSE n

In(s)    == {o \in Orders : status[o] = s}
Long(i)  == net[i] > 0
-----------------------------------------------------------------------------
(* check_order *)

\* The order reduces a long position, as far as the gate looks.
Closing(o) == shape[o].side = "SELL" /\ Long(shape[o].iid)

\* What one call may see: the venue's exposure and whether the instrument is
\* long.  Without a portfolio, when net_exposures raises or knows nothing, or
\* for money that is not USDC, the exposure it sees is zero or too small; a
\* net_position it cannot read is not long.
Readings(o) ==
  LET exact == [exposure |-> exposure, long |-> Long(shape[o].iid)]
  IN  IF ReadsMayFail THEN [exposure : 0..exposure, long : {FALSE, exact.long}]
                      ELSE {exact}

\* Mutant: a SELL is never capped.
PassesAnySell(o, seen, long) ==
  \/ ~shape[o].priced
  \/ shape[o].side = "SELL"
  \/ cap > 0 /\ seen + shape[o].qty <= cap

\* Mutant: the order itself is not added to the exposure.
PassesBefore(o, seen, long) ==
  \/ ~shape[o].priced
  \/ shape[o].side = "SELL" /\ long
  \/ cap > 0 /\ seen <= cap

\* Accepted without a look at the price-less, then the closing SELL, then
\* whatever keeps the exposure seen plus this order within the cap.
Passes(o, seen, long) ==
  \/ ~shape[o].priced
  \/ shape[o].side = "SELL" /\ long
  \/ cap > 0 /\ seen + shape[o].qty <= cap

\* The order passes when everything can be read.
ChecksOut(o) == Passes(o, exposure, Long(shape[o].iid))

\* The ways an accepted order may push the strategy past its cap: another
\* order is open, it sells more than the long position it closes or another
\* SELL may sell that first, its notional is unknown, or it would not have
\* passed had check_order read what the strategy holds.
SellOpen(i) == \E p \in In("accepted") : shape[p].iid = i /\ shape[p].side = "SELL"
Flips(o) == /\ Closing(o)
            /\ shape[o].qty > net[shape[o].iid] \/ SellOpen(shape[o].iid)
WaysPast(o) ==
     (IF In("accepted") # {} THEN {"raced"} ELSE {})
  \union (IF Flips(o) THEN {"flipped"} ELSE {})
  \union (IF ~shape[o].priced THEN {"unpriced"} ELSE {})
  \union (IF ~ChecksOut(o) THEN {"unread"} ELSE {})
-----------------------------------------------------------------------------
(* The order path *)

QueueOrder(o, k) ==
  /\ status[o] = "unsent"
  /\ Cardinality(In("queued") \union In("accepted")) < MaxOpen
  /\ shape' = [shape EXCEPT ![o] = k]
  /\ status' = [status EXCEPT ![o] = "queued"]
  /\ UNCHANGED <<cap, net, exposure, outrun>>

\* _submit_order: rejected with a portfolio_alloc_breach event, or handed on;
\* "failing open" when check_order raises.
CheckOrder(o) ==
  /\ status[o] = "queued"
  /\ \E r \in Readings(o), raised \in {FALSE, ReadsMayFail} :
       IF raised \/ Passes(o, r.exposure, r.long)
         THEN /\ status' = [status EXCEPT ![o] = "accepted"]
              /\ outrun' = outrun \union WaysPast(o)
         ELSE /\ status' = [status EXCEPT ![o] = "rejected"]
              /\ UNCHANGED outrun
  /\ UNCHANGED <<cap, shape, net, exposure>>

Signed(k) == IF k.side = "BUY" THEN k.qty ELSE -k.qty

\* OrderFilled: Portfolio moves the position and with it the exposure.
FillOpen(o) ==
  LET i == shape[o].iid
      n == net[i] + Signed(shape[o])
  IN  /\ status[o] = "accepted"
      /\ status' = [status EXCEPT ![o] = "filled"]
      /\ net' = [net EXCEPT ![i] = n]
      /\ exposure' = exposure - Abs(net[i]) + Abs(n)
      /\ UNCHANGED <<cap, shape, outrun>>

CancelOpen(o) ==
  /\ status[o] = "accepted"
  /\ status' = [status EXCEPT ![o] = "canceled"]
  /\ UNCHANGED <<cap, shape, net, exposure, outrun>>

CapInit ==
  /\ cap \in Caps
  /\ shape = [o \in Orders |-> NoShape]
  /\ status = [o \in Orders |-> "unsent"]
  /\ net = [i \in Instruments |-> 0]
  /\ exposure = 0
  /\ outrun = {}

CapNext ==
  \E o \in Orders :
    \/ \E k \in OrderShapes : QueueOrder(o, k)
    \/ CheckOrder(o)
    \/ FillOpen(o)
    \/ CancelOpen(o)

CapSpec == CapInit /\ [][CapNext]_capVars
-----------------------------------------------------------------------------
(* Properties *)

CapTypeOK ==
  /\ cap \in Caps
  /\ shape \in [Orders -> Shapes \union {NoShape}]
  /\ status \in [Orders -> OrderStatuses]
  /\ \A o \in Orders : status[o] # "unsent" => shape[o] # NoShape
  /\ net \in [Instruments -> Int]
  /\ exposure \in Int
  /\ outrun \subseteq Ways

\* README, Safety: "PortfolioAllocator rejects any order that would push the
\* strategy past its allocation": what is deployed stays within the cap.
ExposureWithinCap == exposure <= cap

\* There are four ways past the gate and no fifth: as long as no order was
\* checked while another was open, no closing SELL could outgrow the long
\* position, every order had a price, and none passed only because the gate
\* could not read the portfolio, the cap holds after every fill.
CapHoldsUnlessOutrun == outrun = {} => ExposureWithinCap

\* How far orders that race each other can get: a strategy whose SELLs cannot
\* flip a long position, not even two of them together, and that keeps MaxOpen
\* orders open never deploys more than MaxOpen times its cap.
OvershootBounded ==
  outrun \subseteq {"raced"} => exposure <= MaxOpen * cap
=============================================================================
