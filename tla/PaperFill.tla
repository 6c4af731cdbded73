----------------------------- MODULE PaperFill ------------------------------
(***************************************************************************)
(* Paper trading: the path of an order from the strategy's submit to its   *)
(* last event when no venue is behind it.                                  *)
(*                                                                         *)
(*   strategy --submit/cancel--> Nautilus command queue                    *)
(*            --_submit_order/_cancel_order--> paper execution client      *)
(*            --register_pending/cancel_pending--> fill engine             *)
(*   data client --OrderBookDeltas/TradeTick--> fill engine --> _sweep     *)
(*                                                                         *)
(* The fill engine is one piece of code kept twice, for Polymarket and for *)
(* Hyperliquid.  Two things differ between the venues and are constants:   *)
(* whether a book message starts by clearing the book (FeedClears) and the *)
(* orders strategies send (OrderSpecs).                                    *)
(*                                                                         *)
(* Abstractions.  Prices are ticks 1..MaxPrice, NoPrice is Python's None.  *)
(* Quantities are left out: fills are all or nothing.  The engine compares *)
(* only _book_seq with an order's submitted_book_seq, so the model keeps   *)
(* the difference, age, up to the IOC limit.  Of the levels of a message   *)
(* only the best of each side can move the touch, so a message is its best *)
(* bid and its best ask.                                                   *)
(***************************************************************************)
EXTENDS Integers, Sequences, FiniteSets

CONSTANTS
  Orders,             \* client order ids
  Instruments,        \* instrument ids
  PreRegistered,      \* instruments the runner registers before the start
  MaxPrice,           \* the highest price, in ticks
  OrderSpecs,         \* the orders strategies may send
  IocMaxBookUpdates,  \* PolymarketPaperFillConfig.ioc_max_book_updates
  FeedClears,         \* does a book message begin with a CLEAR delta?
  MaxLost,            \* bound on the closing events that cannot be made
  NoSpec              \* the specification of an order not yet sent

NoPrice  == 0
Prices   == 1..MaxPrice
Quotes   == 0..MaxPrice
Sides    == {"BUY", "SELL"}
SpecType == [iid : Instruments, side : Sides, px : Quotes, ioc : BOOLEAN]

ASSUME PriceAssumption == MaxPrice \in Nat \ {0}
ASSUME SpecAssumption  == /\ OrderSpecs \subseteq SpecType
                          /\ NoSpec \notin SpecType
ASSUME IocAssumption   == IocMaxBookUpdates \in Nat /\ MaxLost \in Nat
ASSUME FeedAssumption  == /\ FeedClears \in BOOLEAN
                          /\ PreRegistered \subseteq Instruments

VARIABLES
  phase,       \* of the trading node: "created", "running", "stopped"
  spec,        \* spec[o]: what the strategy asked for
  cmds,        \* Nautilus' command queue, handled in order
  events,      \* events[o]: events published about o, oldest first
  pending,     \* keys of _pending
  age,         \* age[o]: book updates of o's instrument since it registered
  touch,       \* _touches
  subscribed,  \* _subscribed
  lost,        \* orders closed by an event that could not be made
  book,        \* best bid and ask of the last book message, per instrument
  fillPx       \* fillPx[o]: last_px of o's OrderFilled

vars == <<phase, spec, cmds, events, pending, age, touch, subscribed, lost,
          book, fillPx>>
engine == <<pending, age, touch, subscribed, lost, book, fillPx>>

NoTouch == [bid |-> NoPrice, ask |-> NoPrice]
Touches == [bid : Quotes, ask : Quotes]
Cmds    == [op : {"submit", "cancel"}, o : Orders]

Rejected == <<"submitted", "rejected">>
Accepted == <<"submitted", "accepted">>
Filled   == <<"submitted", "accepted", "filled">>
Canceled == <<"submitted", "accepted", "canceled">>
Closed   == {Rejected, Filled, Canceled}
-----------------------------------------------------------------------------
(* The book and the sweep *)

\* max(1, self._cfg.ioc_max_book_updates)
IocTtl == IF IocMaxBookUpdates < 1 THEN 1 ELSE IocMaxBookUpdates

RaiseBid(bid, px) == IF bid = NoPrice \/ px > bid THEN px ELSE bid

LowerAsk(ask, px) == IF px # NoPrice /\ (ask = NoPrice \/ px < ask) THEN px ELSE ask

\* Mutant: the engine ignores CLEAR.
BookTouchNoClear(t, bid, ask) ==
  [bid |-> RaiseBid(t.bid, bid), ask |-> LowerAsk(t.ask, ask)]

\* The touch after a book message: CLEAR, where the venue's data client
\* sends one, then the levels, which only ever improve a side.
BookTouch(t, bid, ask) ==
  LET start == IF FeedClears THEN NoTouch ELSE t
  IN  [bid |-> RaiseBid(start.bid, bid), ask |-> LowerAsk(start.ask, ask)]

\* The touch after a trade print: the aggressor tells which side it hits,
\* an unknown aggressor is taken as both.
TickTouch(t, px, aggressor) ==
  [bid |-> IF aggressor = "BUYER"  THEN t.bid ELSE RaiseBid(t.bid, px),
   ask |-> IF aggressor = "SELLER" THEN t.ask ELSE LowerAsk(t.ask, px)]

\* Mutant: a limit equal to the touch does not cross.
CrossesStrict(o, t) ==
  /\ spec[o].px # NoPrice
  /\ \/ spec[o].side = "BUY"  /\ t.ask # NoPrice /\ t.ask < spec[o].px
     \/ spec[o].side = "SELL" /\ t.bid # NoPrice /\ t.bid > spec[o].px

\* The limit of o crosses the touch; an order without a price is skipped.
Crosses(o, t) ==
  /\ spec[o].px # NoPrice
  /\ \/ spec[o].side = "BUY"  /\ t.ask # NoPrice /\ t.ask <= spec[o].px
     \/ spec[o].side = "SELL" /\ t.bid # NoPrice /\ t.bid >= spec[o].px

PendingOn(i) == {o \in pending : spec[o].iid = i}

FilledBy(i, t) == {o \in PendingOn(i) : t # NoTouch /\ Crosses(o, t)}

\* Mutant: one book update too many.
ExpiredByLate(i, t) ==
  {o \in PendingOn(i) \ FilledBy(i, t) :
     t # NoTouch /\ spec[o].px # NoPrice /\ spec[o].ioc /\ age[o] >= IocTtl}

\* IOC orders whose limit on book updates the current update reaches.
ExpiredBy(i, t) ==
  {o \in PendingOn(i) \ FilledBy(i, t) :
     /\ t # NoTouch
     /\ spec[o].px # NoPrice
     /\ spec[o].ioc
     /\ age[o] + 1 >= IocTtl}

TouchPx(o, t) == IF spec[o].side = "BUY" THEN t.ask ELSE t.bid

\* _emit_fill and _emit_cancel catch every error of making the event: the
\* order leaves _pending all the same, and nothing is published about it.
Emit(filled, canceled) ==
  \E bad \in SUBSET (filled \union canceled) :
    /\ Cardinality(lost \union bad) <= MaxLost
    /\ lost' = lost \union bad
    /\ events' = [o \in Orders |->
                    IF o \in filled \ bad   THEN Append(events[o], "filled")   ELSE
                    IF o \in canceled \ bad THEN Append(events[o], "canceled")
                                            ELSE events[o]]

\* One delivery for instrument i that moves its touch to t: the update is
\* counted, then every pending order of i is filled, expired or kept.
Deliver(i, t) ==
  LET hit  == FilledBy(i, t)
      late == ExpiredBy(i, t)
  IN  /\ touch'   = [touch EXCEPT ![i] = t]
      /\ pending' = pending \ (hit \union late)
      /\ Emit(hit, late)
      /\ fillPx'  = [o \in Orders |-> IF o \in hit \ lost' THEN TouchPx(o, t) ELSE fillPx[o]]
      /\ age'     = [o \in Orders |->
                       IF o \in PendingOn(i) \ (hit \union late) /\ age[o] < IocTtl
                         THEN age[o] + 1 ELSE age[o]]
      /\ UNCHANGED <<phase, spec, cmds, subscribed>>
-----------------------------------------------------------------------------
(* Market data.  Only a running actor receives what it subscribed to. *)

\* A book message that has at least one level (the data clients publish no
\* other), with bid < ask as on any venue.
OnOrderBookDeltas(i, bid, ask) ==
  /\ phase = "running" /\ i \in subscribed
  /\ <<bid, ask>> # <<NoPrice, NoPrice>>
  /\ bid # NoPrice /\ ask # NoPrice => bid < ask
  /\ Deliver(i, BookTouch(touch[i], bid, ask))
  /\ book' = [book EXCEPT ![i] = [bid |-> bid, ask |-> ask]]

OnTradeTick(i, px, aggressor) ==
  /\ phase = "running" /\ i \in subscribed
  /\ Deliver(i, TickTouch(touch[i], px, aggressor))
  /\ UNCHANGED book
-----------------------------------------------------------------------------
(* The strategy's calls.  Nautilus puts them on a queue. *)

SubmitOrder(o, s) ==
  /\ phase = "running"
  /\ spec[o] = NoSpec
  /\ spec' = [spec EXCEPT ![o] = s]
  /\ cmds' = Append(cmds, [op |-> "submit", o |-> o])
  /\ UNCHANGED <<phase, events, engine>>

\* Nautilus drops a cancel of an order that is closed.  Bound: at most one
\* cancel of an order is queued at a time.
CancelOrder(o) ==
  LET cmd == [op |-> "cancel", o |-> o]
  IN  /\ phase = "running"
      /\ spec[o] # NoSpec
      /\ events[o] \notin Closed
      /\ \A k \in DOMAIN cmds : cmds[k] # cmd
      /\ cmds' = Append(cmds, cmd)
      /\ UNCHANGED <<phase, spec, events, engine>>
-----------------------------------------------------------------------------
(* The paper execution client.  Neither handler awaits, so each is a step. *)

NextCmd(op, o) == cmds # <<>> /\ Head(cmds) = [op |-> op, o |-> o]

\* Mutant: only the instruments registered before the start are subscribed.
RegisterPendingQuiet(o) ==
  /\ pending' = pending \union {o}
  /\ age' = [age EXCEPT ![o] = 0]
  /\ UNCHANGED subscribed

\* register_pending; a running engine subscribes to a new instrument.
RegisterPending(o) ==
  /\ pending' = pending \union {o}
  /\ age' = [age EXCEPT ![o] = 0]
  /\ subscribed' = IF phase = "running"
                     THEN subscribed \union {spec[o].iid} ELSE subscribed

\* _submit_order: submitted, then the allocator's verdict ok, then accepted
\* and handed to the fill engine, or rejected.
HandleSubmit(o, ok) ==
  /\ NextCmd("submit", o)
  /\ cmds' = Tail(cmds)
  /\ IF ok
       THEN /\ events' = [events EXCEPT ![o] = Accepted]
            /\ RegisterPending(o)
       ELSE /\ events' = [events EXCEPT ![o] = Rejected]
            /\ UNCHANGED <<pending, age, subscribed>>
  /\ UNCHANGED <<phase, spec, touch, lost, book, fillPx>>

\* Mutant: the cancel is confirmed whether or not the order is held.
HandleCancelBlind(o) ==
  /\ NextCmd("cancel", o)
  /\ cmds' = Tail(cmds)
  /\ pending' = pending \ {o}
  /\ events' = [events EXCEPT ![o] = Append(@, "canceled")]
  /\ UNCHANGED <<phase, spec, age, touch, subscribed, lost, book, fillPx>>

\* Mutant: the cancelled order stays in _pending.
HandleCancelKeep(o) ==
  /\ NextCmd("cancel", o)
  /\ cmds' = Tail(cmds)
  /\ events' = IF o \in pending
                 THEN [events EXCEPT ![o] = Append(@, "canceled")] ELSE events
  /\ UNCHANGED <<phase, spec, pending, age, touch, subscribed, lost, book, fillPx>>

\* _cancel_order: cancel_pending, silent about an order it does not hold.
HandleCancel(o) ==
  /\ NextCmd("cancel", o)
  /\ cmds' = Tail(cmds)
  /\ pending' = pending \ {o}
  /\ Emit({}, pending \intersect {o})
  /\ UNCHANGED <<phase, spec, age, touch, subscribed, book, fillPx>>
-----------------------------------------------------------------------------
(* The node starts and stops its actors and strategies. *)

Start ==
  /\ phase = "created"
  /\ phase' = "running"
  /\ subscribed' = PreRegistered
  /\ UNCHANGED <<spec, cmds, events, pending, age, touch, lost, book, fillPx>>

\* Mutant: the stop forgets the pending orders without cancelling them.
StopSilent ==
  /\ phase = "running"
  /\ phase' = "stopped"
  /\ pending' = {}
  /\ UNCHANGED <<spec, cmds, events, age, touch, subscribed, lost, book, fillPx>>

\* on_stop cancels every pending order.  Commands already queued are still
\* handled; the paper _cancel_all_orders the strategies send does nothing.
Stop ==
  /\ phase = "running"
  /\ phase' = "stopped"
  /\ pending' = {}
  /\ Emit({}, pending)
  /\ UNCHANGED <<spec, cmds, age, touch, subscribed, book, fillPx>>
-----------------------------------------------------------------------------
Init ==
  /\ phase = "created"
  /\ spec = [o \in Orders |-> NoSpec]
  /\ cmds = <<>>
  /\ events = [o \in Orders |-> <<>>]
  /\ pending = {}
  /\ age = [o \in Orders |-> 0]
  /\ touch = [i \in Instruments |-> NoTouch]
  /\ subscribed = {}
  /\ lost = {}
  /\ book = [i \in Instruments |-> NoTouch]
  /\ fillPx = [o \in Orders |-> NoPrice]

Book(i)    == \E bid, ask \in Quotes : OnOrderBookDeltas(i, bid, ask)
Tick(i)    == \E px \in Prices, ag \in {"BUYER", "SELLER", "NO_AGGRESSOR"} :
                 OnTradeTick(i, px, ag)
Command(o) == HandleCancel(o) \/ \E ok \in BOOLEAN : HandleSubmit(o, ok)

Next ==
  \/ Start
  \/ Stop
  \/ \E o \in Orders, s \in OrderSpecs : SubmitOrder(o, s)
  \/ \E o \in Orders : CancelOrder(o)
  \/ \E o \in Orders : Command(o)
  \/ \E i \in Instruments : Book(i)
  \/ \E i \in Instruments : Tick(i)

Spec == Init /\ [][Next]_vars

\* The event loop drains the queue, and a subscribed market keeps sending
\* book messages while the node runs.
Fairness ==
  /\ WF_vars(\E o \in Orders : Command(o))
  /\ \A i \in Instruments : WF_vars(Book(i))

FairSpec == Spec /\ Fairness
-----------------------------------------------------------------------------
(* Properties *)

TypeOK ==
  /\ phase \in {"created", "running", "stopped"}
  /\ spec \in [Orders -> SpecType \union {NoSpec}]
  /\ cmds \in Seq(Cmds)
  /\ events \in [Orders -> {<<>>, Accepted} \union Closed]
  /\ pending \subseteq Orders
  /\ age \in [Orders -> 0..IocTtl]
  /\ touch \in [Instruments -> Touches]
  /\ subscribed \subseteq Instruments
  /\ lost \subseteq Orders
  /\ book \in [Instruments -> Touches]
  /\ fillPx \in [Orders -> Quotes]

\* An order whose last event is OrderAccepted is held by the engine, or its
\* closing event could not be made, never both: submits, cancels, sweeps and
\* the stop lose no order in any other way and hold none they have closed.
PendingIsAccepted ==
  /\ pending \union lost = {o \in Orders : events[o] = Accepted}
  /\ pending \intersect lost = {}

\* An order still pending after a delivery does not cross the touch that
\* delivery left: a sweep never skips an order it should fill.
NoMarketablePending ==
  \A o \in pending :
    LET t == touch[spec[o].iid]
    IN  age[o] > 0 /\ spec[o].px # NoPrice =>
          IF spec[o].side = "BUY"
            THEN t.ask = NoPrice \/ t.ask > spec[o].px
            ELSE t.bid < spec[o].px

\* "IOC orders fill at the first opportunity or get an OrderCanceled event
\* on the next book update" (of ioc_max_book_updates of them): no IOC order
\* is still pending when the updates it may wait for have been delivered.
IocResolved == \A o \in pending : spec[o].ioc => age[o] < IocTtl

\* An order filled by a book message is filled at that message's price, not
\* at a quote of an earlier message that the new one no longer shows.
FillsAtTheBook ==
  [][\A o \in Orders :
       LET i == spec[o].iid
       IN  /\ events[o] = Accepted /\ events'[o] = Filled
           /\ book'[i] # book[i]
           => fillPx'[o] = TouchPx(o, book'[i])]_vars

\* Seen through its events, the paper path is the order life that module
\* OrderLife promises, whatever submits, cancels, sweeps and stop do.
Life == INSTANCE OrderLife WITH Orders <- Orders, events <- events
ImplementsOrderLife == Life!Spec

\* A node that keeps running closes every IOC order it accepted, unless the
\* event that would close it cannot be made (then nothing tries again): again
\* and again there is a moment at which no IOC order waits.
IocEventuallyClosed ==
  []<>(\/ phase = "stopped"
       \/ \A o \in Orders : ~(events[o] = Accepted /\ spec[o].ioc /\ o \notin lost))
=============================================================================
