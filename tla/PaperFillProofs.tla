-------------------------- MODULE PaperFillProofs ---------------------------
(***************************************************************************)
(* Proofs about PaperFill, for any orders, instruments, prices, order      *)
(* kinds and either venue's feed.                                          *)
(***************************************************************************)
EXTENDS PaperFill, SequenceTheorems, TLAPS

USE PriceAssumption, SpecAssumption, IocAssumption, FeedAssumption
-----------------------------------------------------------------------------
(* The inductive invariant *)

\* The queue: a command is about an order that was sent, a submit is about
\* an order nothing was published about, and no order is submitted twice.
QueueInv ==
  /\ \A k \in DOMAIN cmds :
       /\ spec[cmds[k].o] # NoSpec
       /\ cmds[k].op = "submit" => events[cmds[k].o] = <<>>
  /\ \A j, k \in DOMAIN cmds :
       cmds[j] = cmds[k] /\ cmds[j].op = "submit" => j = k

\* An order is one a strategy may send, and nothing is published about it
\* before it is sent.
SentInv == \A o \in Orders : /\ spec[o] \in OrderSpecs \union {NoSpec}
                             /\ events[o] # <<>> => spec[o] # NoSpec

\* A priced IOC order is pending for fewer updates than it may wait.
IocBudget ==
  \A o \in pending : spec[o].ioc /\ spec[o].px # NoPrice => age[o] < IocTtl

\* NoMarketablePending in the sweep's own terms.
Swept == \A o \in pending : age[o] > 0 => ~Crosses(o, touch[spec[o].iid])

IInv ==
  /\ TypeOK
  /\ QueueInv
  /\ SentInv
  /\ PendingIsAccepted
  /\ Swept
  /\ IocBudget
-----------------------------------------------------------------------------
(* Facts about lives, the IOC limit and touches *)

LEMMA IocTtlPos == IocTtl \in Nat /\ IocTtl >= 1
  BY DEF IocTtl

\* Every command is about an order.
LEMMA CmdsAbout ==
  ASSUME cmds \in Seq(Cmds)
  PROVE  \A k \in DOMAIN cmds : cmds[k] \in Cmds /\ cmds[k].o \in Orders
<1> TAKE k \in DOMAIN cmds
<1>1. cmds[k] \in Cmds
  BY ElementOfSeq, LenProperties
<1> QED BY <1>1 DEF Cmds

\* A fill closes an accepted order.
LEMMA FillCloses == Append(Accepted, "filled") = Filled
<1> DEFINE S == {"submitted", "accepted", "filled"}
           u == Append(Accepted, "filled")
<1>1. Filled \in Seq(S) /\ Len(Filled) = 3
  BY DEF Filled
<1>2. u \in Seq(S) /\ Len(u) = 3
  BY DEF Accepted
<1>3. \A k \in 1..3 : u[k] = Filled[k]
  BY DEF Accepted, Filled
<1> HIDE DEF u, S
<1> SUFFICES u = Filled BY DEF u
<1> QED BY <1>1, <1>2, <1>3, SeqEqual

\* A cancel closes an accepted order.
LEMMA CancelCloses == Append(Accepted, "canceled") = Canceled
<1> DEFINE S == {"submitted", "accepted", "canceled"}
           u == Append(Accepted, "canceled")
<1>1. Canceled \in Seq(S) /\ Len(Canceled) = 3
  BY DEF Canceled
<1>2. u \in Seq(S) /\ Len(u) = 3
  BY DEF Accepted
<1>3. \A k \in 1..3 : u[k] = Canceled[k]
  BY DEF Accepted, Canceled
<1> HIDE DEF u, S
<1> SUFFICES u = Canceled BY DEF u
<1> QED BY <1>1, <1>2, <1>3, SeqEqual

\* The lives are told apart.
LEMMA LivesDiffer ==
  /\ Filled # Accepted /\ Canceled # Accepted /\ Rejected # Accepted
  /\ Accepted # <<>> /\ <<>> \notin Closed /\ Accepted \notin Closed
  BY DEF Accepted, Filled, Canceled, Rejected, Closed

\* A book message leaves a touch, and leaves it known on some side.
LEMMA BookTouchKnown ==
  ASSUME NEW t \in Touches, NEW bid \in Quotes, NEW ask \in Quotes,
         <<bid, ask>> # <<NoPrice, NoPrice>>
  PROVE  BookTouch(t, bid, ask) \in Touches \ {NoTouch}
<1>1. \A x, y \in Quotes : RaiseBid(x, y) \in Quotes /\ LowerAsk(x, y) \in Quotes
  BY DEF RaiseBid, LowerAsk, Quotes
<1>2. \A x, y \in Quotes : y # NoPrice => RaiseBid(x, y) # NoPrice /\ LowerAsk(x, y) # NoPrice
  BY DEF RaiseBid, LowerAsk, Quotes, NoPrice
<1> DEFINE start == IF FeedClears THEN NoTouch ELSE t
<1>3. start.bid \in Quotes /\ start.ask \in Quotes
  BY DEF NoTouch, Touches, Quotes, NoPrice
<1>4. BookTouch(t, bid, ask) =
        [bid |-> RaiseBid(start.bid, bid), ask |-> LowerAsk(start.ask, ask)]
  BY DEF BookTouch
<1>5. bid # NoPrice \/ ask # NoPrice
  OBVIOUS
<1> HIDE DEF start
<1>6. BookTouch(t, bid, ask) \in Touches
  BY <1>1, <1>3, <1>4 DEF Touches
<1>7. BookTouch(t, bid, ask).bid # NoPrice \/ BookTouch(t, bid, ask).ask # NoPrice
  BY <1>2, <1>3, <1>4, <1>5
<1> QED BY <1>6, <1>7 DEF NoTouch

\* So does a trade print.
LEMMA TickTouchKnown ==
  ASSUME NEW t \in Touches, NEW px \in Prices, NEW ag
  PROVE  TickTouch(t, px, ag) \in Touches \ {NoTouch}
<1>1. t.bid \in Quotes /\ t.ask \in Quotes /\ px \in Quotes /\ px # NoPrice
  BY DEF Touches, Quotes, Prices, NoPrice
<1>2. /\ RaiseBid(t.bid, px) \in Quotes \ {NoPrice}
      /\ LowerAsk(t.ask, px) \in Quotes \ {NoPrice}
  BY <1>1 DEF RaiseBid, LowerAsk, Quotes, NoPrice
<1> QED BY <1>1, <1>2 DEF TickTouch, Touches, NoTouch
-----------------------------------------------------------------------------
(* What closing orders preserves, whether or not their events can be made *)

\* Each order that is closed gets its event or is lost, no other changes.
LEMMA EmitEach ==
  ASSUME IInv, NEW filled \in SUBSET pending, NEW canceled \in SUBSET pending,
         filled \intersect canceled = {}, Emit(filled, canceled)
  PROVE  /\ DOMAIN events' = Orders
         /\ lost \subseteq lost' /\ lost' \subseteq lost \union filled \union canceled
         /\ \A o \in Orders :
              \/ o \in filled /\ o \notin lost' /\ events'[o] = Filled
              \/ o \in canceled /\ o \notin lost' /\ events'[o] = Canceled
              \/ o \in lost' /\ o \in filled \union canceled /\ events'[o] = events[o]
              \/ o \notin filled \union canceled /\ events'[o] = events[o]
<1>1. PICK bad \in SUBSET (filled \union canceled) :
           /\ lost' = lost \union bad
           /\ events' = [o \in Orders |->
                IF o \in filled \ bad   THEN Append(events[o], "filled")   ELSE
                IF o \in canceled \ bad THEN Append(events[o], "canceled")
                                        ELSE events[o]]
  BY DEF Emit
<1>2. \A o \in pending : o \in Orders /\ events[o] = Accepted /\ o \notin lost
  BY DEF IInv, TypeOK, PendingIsAccepted
<1>3. \A o \in filled \ bad : events'[o] = Filled
  <2> TAKE o \in filled \ bad
  <2>1. o \in Orders /\ events[o] = Accepted
    BY <1>2
  <2>2. events'[o] = Append(events[o], "filled")
    BY <1>1, <2>1
  <2> QED BY <2>1, <2>2, FillCloses
<1>4. \A o \in canceled \ bad : events'[o] = Canceled
  <2> TAKE o \in canceled \ bad
  <2>1. o \in Orders /\ events[o] = Accepted /\ o \notin filled
    BY <1>2
  <2>2. events'[o] = Append(events[o], "canceled")
    BY <1>1, <2>1
  <2> QED BY <2>1, <2>2, CancelCloses
<1>5. \A o \in Orders : o \notin (filled \union canceled) \ bad => events'[o] = events[o]
  BY <1>1
<1>6. \A o \in filled \union canceled : o \in lost' <=> o \in bad
  BY <1>1, <1>2
<1>7. /\ DOMAIN events' = Orders
      /\ lost \subseteq lost' /\ lost' \subseteq lost \union filled \union canceled
  BY <1>1
<1>8. ASSUME NEW o \in Orders
      PROVE  \/ o \in filled /\ o \notin lost' /\ events'[o] = Filled
             \/ o \in canceled /\ o \notin lost' /\ events'[o] = Canceled
             \/ o \in lost' /\ o \in filled \union canceled /\ events'[o] = events[o]
             \/ o \notin filled \union canceled /\ events'[o] = events[o]
  <2>1. CASE o \in bad
    BY <1>1, <1>5, <1>6, <2>1
  <2>2. CASE o \in filled \ bad
    BY <1>3, <1>6, <2>2
  <2>3. CASE o \in canceled \ bad
    BY <1>4, <1>6, <2>3
  <2>4. CASE o \notin filled \union canceled
    BY <1>5, <2>4
  <2> QED BY <2>1, <2>2, <2>3, <2>4
<1> QED BY <1>7, <1>8

LEMMA EmitInv ==
  ASSUME IInv, NEW filled \in SUBSET pending, NEW canceled \in SUBSET pending,
         filled \intersect canceled = {}, Emit(filled, canceled),
         pending' = pending \ (filled \union canceled)
  PROVE  /\ events' \in [Orders -> {<<>>, Accepted} \union Closed]
         /\ lost' \subseteq Orders /\ PendingIsAccepted'
         /\ \A o \in Orders : events[o] = <<>> <=> events'[o] = <<>>
<1>1. /\ DOMAIN events' = Orders
      /\ lost \subseteq lost' /\ lost' \subseteq lost \union filled \union canceled
      /\ \A o \in Orders :
           \/ o \in filled /\ o \notin lost' /\ events'[o] = Filled
           \/ o \in canceled /\ o \notin lost' /\ events'[o] = Canceled
           \/ o \in lost' /\ o \in filled \union canceled /\ events'[o] = events[o]
           \/ o \notin filled \union canceled /\ events'[o] = events[o]
  BY EmitEach
<1>2. \A o \in pending : o \in Orders /\ events[o] = Accepted /\ o \notin lost
  BY DEF IInv, TypeOK, PendingIsAccepted
<1>3. \A o \in Orders : events'[o] \in {<<>>, Accepted} \union Closed
  BY <1>1 DEF IInv, TypeOK, Closed
<1>4. lost' \subseteq Orders
  BY <1>1, <1>2 DEF IInv, TypeOK
<1>5. \A o \in Orders : events'[o] = Accepted <=> o \in pending' \union lost'
  <2> TAKE o \in Orders
  <2>1. events[o] = Accepted <=> o \in pending \union lost
    BY DEF IInv, PendingIsAccepted
  <2> QED BY <1>1, <1>2, <2>1, LivesDiffer
<1>6. pending' \intersect lost' = {}
  BY <1>1, <1>2
<1>7. \A o \in Orders : events[o] = <<>> <=> events'[o] = <<>>
  BY <1>1, <1>2, LivesDiffer DEF Closed
<1>8. events' \in [Orders -> {<<>>, Accepted} \union Closed]
  <2>1. events' = [o \in Orders |-> events'[o]]
    BY DEF Emit
  <2> QED BY <1>3, <2>1
<1>9. PendingIsAccepted'
  BY <1>2, <1>4, <1>5, <1>6 DEF PendingIsAccepted
<1> QED BY <1>4, <1>7, <1>8, <1>9
-----------------------------------------------------------------------------
(* What a delivery preserves *)

LEMMA DeliverInv ==
  ASSUME IInv, NEW i \in Instruments, NEW t \in Touches \ {NoTouch},
         Deliver(i, t), book' \in [Instruments -> Touches]
  PROVE  IInv'
<1> DEFINE hit == FilledBy(i, t)
           late == ExpiredBy(i, t)
<1> USE DEF IInv
<1>1. /\ hit \subseteq pending /\ late \subseteq pending
      /\ hit \subseteq Orders /\ late \subseteq Orders /\ hit \intersect late = {}
  BY DEF FilledBy, ExpiredBy, PendingOn, TypeOK
<1>2. /\ touch' = [touch EXCEPT ![i] = t]
      /\ pending' = pending \ (hit \union late)
      /\ UNCHANGED <<phase, spec, cmds, subscribed>>
  BY DEF Deliver
<1>3. /\ events' \in [Orders -> {<<>>, Accepted} \union Closed]
      /\ lost' \subseteq Orders /\ PendingIsAccepted'
      /\ \A o \in Orders : events[o] = <<>> <=> events'[o] = <<>>
  <2>1. Emit(hit, late)
    BY DEF Deliver
  <2> HIDE DEF hit, late
  <2> QED BY <1>1, <1>2, <2>1, EmitInv
<1>4. \A o \in Orders : o \in pending => spec[o] \in SpecType
  BY LivesDiffer DEF SentInv, PendingIsAccepted, TypeOK
<1>5. \A o \in Orders : /\ age'[o] \in 0..IocTtl
                        /\ o \notin PendingOn(i) => age'[o] = age[o]
                        /\ age'[o] = age[o] \/ age'[o] = age[o] + 1
  BY IocTtlPos DEF Deliver, TypeOK
<1>6. TypeOK'
  <2>1. fillPx' \in [Orders -> Quotes]
    BY DEF Deliver, TypeOK, TouchPx, Touches
  <2>3. age' \in [Orders -> 0..IocTtl]
    BY <1>5 DEF Deliver
  <2> QED BY <1>1, <1>2, <1>3, <2>1, <2>3 DEF TypeOK
<1>7. QueueInv'
  <2>2. \A k \in DOMAIN cmds : cmds[k].o \in Orders
    BY CmdsAbout DEF TypeOK
  <2> QED BY <1>2, <1>3, <2>2 DEF QueueInv
<1>8. SentInv'
  BY <1>2, <1>3 DEF SentInv
<1>10. Swept'
  <2> SUFFICES ASSUME NEW o \in pending', age'[o] > 0
               PROVE  ~Crosses(o, touch[spec[o].iid])'
    BY DEF Swept
  <2>1. o \in Orders /\ o \in pending /\ o \notin hit /\ spec[o] \in SpecType
    BY <1>2, <1>4 DEF TypeOK
  <2>2. CASE spec[o].iid = i
    <3>1. touch'[spec'[o].iid] = t
      BY <1>2, <2>2 DEF TypeOK
    <3>2. ~Crosses(o, t)
      BY <2>1, <2>2 DEF FilledBy, PendingOn
    <3> QED BY <1>2, <3>1, <3>2 DEF Crosses
  <2>3. CASE spec[o].iid # i
    <3>1. touch'[spec'[o].iid] = touch[spec[o].iid]
      BY <1>2, <2>1, <2>3 DEF TypeOK, SpecType
    <3>2. age[o] > 0
      BY <1>5, <2>1, <2>3 DEF PendingOn
    <3>3. ~Crosses(o, touch[spec[o].iid])
      BY <2>1, <3>2 DEF Swept
    <3> QED BY <1>2, <3>1, <3>3 DEF Crosses
  <2> QED BY <2>2, <2>3
<1>11. IocBudget'
  <2> SUFFICES ASSUME NEW o \in pending', spec[o].ioc, spec[o].px # NoPrice
               PROVE  age'[o] < IocTtl
    BY <1>2 DEF IocBudget
  <2>1. o \in Orders /\ o \in pending /\ o \notin hit /\ o \notin late
    BY <1>2 DEF TypeOK
  <2>2. age[o] < IocTtl /\ age[o] \in Nat
    BY <2>1 DEF IocBudget, TypeOK
  <2>3. CASE o \in PendingOn(i)
    BY <1>5, <2>1, <2>2, <2>3, IocTtlPos DEF ExpiredBy
  <2>4. CASE o \notin PendingOn(i)
    BY <1>5, <2>1, <2>2, <2>4
  <2> QED BY <2>3, <2>4
<1> QED BY <1>3, <1>6, <1>7, <1>8, <1>10, <1>11
-----------------------------------------------------------------------------
(* Queue facts *)

\* What appending a command leaves and adds.
LEMMA AppendCmd ==
  ASSUME cmds \in Seq(Cmds), NEW c \in Cmds, cmds' = Append(cmds, c)
  PROVE  /\ cmds' \in Seq(Cmds)
         /\ DOMAIN cmds' = 1..(Len(cmds) + 1)
         /\ DOMAIN cmds = 1..Len(cmds)
         /\ \A k \in DOMAIN cmds : cmds'[k] = cmds[k]
         /\ cmds'[Len(cmds) + 1] = c
  OBVIOUS

\* What handling the command at the head leaves.
LEMMA TailCmd ==
  ASSUME cmds \in Seq(Cmds), cmds # <<>>, cmds' = Tail(cmds)
  PROVE  /\ cmds' \in Seq(Cmds)
         /\ Head(cmds) = cmds[1] /\ 1 \in DOMAIN cmds
         /\ \A k \in DOMAIN cmds' : /\ k + 1 \in DOMAIN cmds
                                     /\ cmds'[k] = cmds[k + 1]
                                     /\ k + 1 # 1 /\ k \in Nat
<1>1. Len(cmds) \in Nat \ {0} /\ DOMAIN cmds = 1..Len(cmds)
  BY EmptySeq, LenProperties
<1>2. cmds' \in Seq(Cmds) /\ Len(cmds') = Len(cmds) - 1
  BY HeadTailProperties
<1>3. DOMAIN cmds' = 1..(Len(cmds) - 1)
  BY <1>2, LenProperties
<1>4. \A k \in DOMAIN cmds' : cmds'[k] = cmds[k + 1]
  BY <1>2, <1>3, HeadTailProperties
<1>5. Head(cmds) = cmds[1]
  OBVIOUS
<1> QED BY <1>1, <1>2, <1>3, <1>4, <1>5
-----------------------------------------------------------------------------
(* The invariant is inductive *)

LEMMA InitInv == Init => IInv
<1> SUFFICES ASSUME Init PROVE IInv
  OBVIOUS
<1> USE DEF Init
<1>1. TypeOK
  BY IocTtlPos DEF TypeOK, NoTouch, Touches, Quotes, NoPrice
<1>2. QueueInv
  BY DEF QueueInv
<1>3. PendingIsAccepted
  BY LivesDiffer DEF PendingIsAccepted
<1> QED BY <1>1, <1>2, <1>3 DEF IInv, SentInv, Swept, IocBudget

LEMMA SubmitInv ==
  ASSUME IInv, NEW o \in Orders, NEW s \in OrderSpecs, SubmitOrder(o, s)
  PROVE  IInv'
<1> DEFINE c == [op |-> "submit", o |-> o]
<1> USE DEF IInv, SubmitOrder, engine
<1>1. c \in Cmds /\ cmds \in Seq(Cmds) /\ cmds' = Append(cmds, c)
  BY DEF Cmds, TypeOK
<1>2. \A x \in Orders : x # o => spec'[x] = spec[x]
  BY DEF TypeOK
<1>3. spec'[o] = s /\ s \in SpecType /\ s # NoSpec /\ events[o] = <<>> /\ o \notin pending
  BY LivesDiffer DEF TypeOK, SentInv, PendingIsAccepted
<1>4. \A k \in DOMAIN cmds : cmds[k].o \in Orders /\ cmds[k].o # o
  BY <1>1, CmdsAbout DEF QueueInv
<1>5. TypeOK'
  BY <1>1, <1>3, AppendCmd DEF TypeOK
<1>6. QueueInv'
  <2>1. DOMAIN cmds' = 1..(Len(cmds) + 1) /\ DOMAIN cmds = 1..Len(cmds)
        /\ Len(cmds) \in Nat
    BY <1>1, AppendCmd
  <2>2. \A k \in DOMAIN cmds' : \/ k \in DOMAIN cmds /\ cmds'[k] = cmds[k]
                                \/ k = Len(cmds) + 1 /\ cmds'[k] = c
    BY <1>1, <2>1, AppendCmd
  <2>3. \A k \in DOMAIN cmds' : cmds'[k].o = o <=> k = Len(cmds) + 1
    BY <1>4, <2>1, <2>2
  <2>4. \A k \in DOMAIN cmds' : /\ spec'[cmds'[k].o] # NoSpec
                                /\ cmds'[k].op = "submit" => events'[cmds'[k].o] = <<>>
    BY <1>2, <1>3, <1>4, <2>2 DEF QueueInv
  <2>5. \A j, k \in DOMAIN cmds' :
          cmds'[j] = cmds'[k] /\ cmds'[j].op = "submit" => j = k
    BY <2>2, <2>3 DEF QueueInv
  <2> QED BY <2>4, <2>5 DEF QueueInv
<1>7. SentInv'
  BY <1>2, <1>3 DEF SentInv
<1>8. PendingIsAccepted' /\ pending' = pending
  BY DEF PendingIsAccepted
<1>9. \A x \in pending : spec'[x] = spec[x] /\ x \in Orders
  BY <1>2, <1>3 DEF TypeOK
<1>10. Swept' /\ IocBudget'
  BY <1>9 DEF Swept, IocBudget, Crosses
<1> QED BY <1>5, <1>6, <1>7, <1>8, <1>10

LEMMA CancelInv ==
  ASSUME IInv, NEW o \in Orders, CancelOrder(o)
  PROVE  IInv'
<1> DEFINE c == [op |-> "cancel", o |-> o]
<1> USE DEF IInv, CancelOrder, engine
<1>1. c \in Cmds /\ cmds \in Seq(Cmds) /\ cmds' = Append(cmds, c)
  BY DEF Cmds, TypeOK
<1>2. TypeOK'
  BY <1>1, AppendCmd DEF TypeOK
<1>3. QueueInv'
  <2>1. \A k \in DOMAIN cmds' : \/ k \in DOMAIN cmds /\ cmds'[k] = cmds[k]
                                \/ cmds'[k] = c
    BY <1>1, AppendCmd
  <2>2. \A k \in DOMAIN cmds' : /\ spec'[cmds'[k].o] # NoSpec
                                /\ cmds'[k].op = "submit" => events'[cmds'[k].o] = <<>>
    BY <2>1 DEF QueueInv
  <2>3. \A k \in DOMAIN cmds' : cmds'[k].op = "submit" =>
                                   k \in DOMAIN cmds /\ cmds'[k] = cmds[k]
    BY <2>1
  <2>4. \A j, k \in DOMAIN cmds' :
          cmds'[j] = cmds'[k] /\ cmds'[j].op = "submit" => j = k
    BY <2>3 DEF QueueInv
  <2> QED BY <2>2, <2>4 DEF QueueInv
<1> QED BY <1>2, <1>3 DEF SentInv, PendingIsAccepted, Swept, IocBudget, Crosses

\* After the head is handled the rest of the queue is as good as it was, if
\* only orders that were being handled or were accepted got an event.
LEMMA TailQueueInv ==
  ASSUME IInv, NEW o \in Orders, NEW op \in {"submit", "cancel"},
         NextCmd(op, o), cmds' = Tail(cmds), spec' = spec,
         \A x \in Orders : events[x] = <<>> /\ (x # o \/ op = "cancel") =>
                           events'[x] = <<>>
  PROVE  QueueInv' /\ cmds' \in Seq(Cmds)
<1> USE DEF IInv
<1>1. cmds \in Seq(Cmds) /\ cmds # <<>> /\ Head(cmds) = [op |-> op, o |-> o]
  BY DEF NextCmd, TypeOK
<1>2. /\ cmds' \in Seq(Cmds) /\ cmds[1] = [op |-> op, o |-> o] /\ 1 \in DOMAIN cmds
      /\ \A k \in DOMAIN cmds' : /\ k + 1 \in DOMAIN cmds
                                  /\ cmds'[k] = cmds[k + 1]
                                  /\ k + 1 # 1 /\ k \in Nat
  BY <1>1, TailCmd
<1>3. \A k \in DOMAIN cmds' : cmds'[k] \in Cmds
  BY <1>1, <1>2, CmdsAbout
<1>4. \A k \in DOMAIN cmds' : spec'[cmds'[k].o] # NoSpec
  BY <1>2 DEF QueueInv
<1>5. ASSUME NEW k \in DOMAIN cmds', cmds'[k].op = "submit"
      PROVE  events'[cmds'[k].o] = <<>>
  <2>1. events[cmds'[k].o] = <<>> /\ cmds'[k].o \in Orders
    BY <1>2, <1>3, <1>5 DEF QueueInv, Cmds
  <2>2. CASE op = "submit"
    <3>1. cmds'[k] # cmds[1]
      BY <1>2, <1>5 DEF QueueInv
    <3>2. cmds'[k].o # o
      BY <1>2, <1>3, <1>5, <2>2, <3>1 DEF Cmds
    <3> QED BY <2>1, <3>2
  <2>3. CASE op = "cancel"
    BY <2>1, <2>3
  <2> QED BY <2>2, <2>3
<1>6. \A j, k \in DOMAIN cmds' :
        cmds'[j] = cmds'[k] /\ cmds'[j].op = "submit" => j = k
  <2> TAKE j, k \in DOMAIN cmds'
  <2> HAVE cmds'[j] = cmds'[k] /\ cmds'[j].op = "submit"
  <2>1. j + 1 = k + 1
    BY <1>2 DEF QueueInv
  <2> QED BY <1>2, <2>1
<1> QED BY <1>2, <1>4, <1>5, <1>6 DEF QueueInv
LEMMA HandleSubmitInv ==
  ASSUME IInv, NEW o \in Orders, NEW ok \in BOOLEAN, HandleSubmit(o, ok)
  PROVE  IInv'
<1> USE DEF IInv
<1>1. NextCmd("submit", o) /\ cmds' = Tail(cmds)
      /\ UNCHANGED <<phase, spec, touch, lost, book, fillPx>>
  BY DEF HandleSubmit
<1>2. events[o] = <<>> /\ spec[o] # NoSpec
  <2>1. cmds[1] = [op |-> "submit", o |-> o] /\ 1 \in DOMAIN cmds
    BY <1>1, TailCmd DEF NextCmd, TypeOK
  <2> QED BY <2>1 DEF QueueInv
<1>3. /\ o \notin pending
      /\ spec[o] \in SpecType
  BY <1>2, LivesDiffer DEF PendingIsAccepted, TypeOK
<1>4. \A x \in Orders : x # o => events'[x] = events[x]
  BY DEF HandleSubmit, TypeOK
<1>5. QueueInv' /\ cmds' \in Seq(Cmds)
  BY <1>1, <1>4, TailQueueInv
<1>6. CASE ok
  <2>1. /\ events' = [events EXCEPT ![o] = Accepted]
        /\ pending' = pending \union {o}
        /\ age' = [age EXCEPT ![o] = 0]
        /\ subscribed' \subseteq subscribed \union {spec[o].iid}
    BY <1>6 DEF HandleSubmit, RegisterPending
  <2>2. \A x \in Orders : age'[x] = IF x = o THEN 0 ELSE age[x]
    BY <2>1 DEF TypeOK
  <2>3. TypeOK'
    <3>1. age' \in [Orders -> 0..IocTtl]
      BY <2>1, IocTtlPos DEF TypeOK
    <3>2. subscribed' \subseteq Instruments
      BY <2>1, <1>3 DEF TypeOK, SpecType
    <3> QED BY <1>1, <1>5, <2>1, <3>1, <3>2 DEF TypeOK
  <2>4. PendingIsAccepted'
    <3>1. o \notin lost /\ lost' = lost
      BY <1>1, <1>2, LivesDiffer DEF PendingIsAccepted
    <3>2. \A x \in Orders : events'[x] = Accepted <=> x = o \/ events[x] = Accepted
      BY <2>1 DEF TypeOK
    <3> QED BY <2>1, <3>1, <3>2 DEF PendingIsAccepted
  <2>5. SentInv'
    BY <1>1, <1>2, <1>4 DEF SentInv
  <2>6. Swept'
    <3>1. \A x \in pending' : age'[x] > 0 => x \in pending /\ age[x] > 0
      BY <2>1, <2>2 DEF TypeOK
    <3>2. \A x \in pending : age[x] > 0 => ~Crosses(x, touch[spec[x].iid])
      BY DEF Swept
    <3> QED BY <1>1, <3>1, <3>2 DEF Swept, Crosses
  <2>7. IocBudget'
    BY <1>1, <2>1, <2>2, IocTtlPos DEF IocBudget, TypeOK
  <2> QED BY <1>5, <2>3, <2>4, <2>5, <2>6, <2>7
<1>7. CASE ~ok
  <2>1. /\ events' = [events EXCEPT ![o] = Rejected]
        /\ UNCHANGED <<pending, age, subscribed>>
    BY <1>7 DEF HandleSubmit
  <2>2. TypeOK'
    BY <1>1, <1>5, <2>1 DEF TypeOK, Closed
  <2>3. PendingIsAccepted'
    <3>1. \A x \in Orders : events'[x] = Accepted <=> events[x] = Accepted
      BY <1>2, <2>1, LivesDiffer DEF TypeOK
    <3> QED BY <1>1, <2>1, <3>1 DEF PendingIsAccepted
  <2>4. SentInv'
    BY <1>1, <1>2, <1>4 DEF SentInv
  <2> QED BY <1>1, <1>5, <2>1, <2>2, <2>3, <2>4
          DEF Swept, IocBudget, Crosses
<1> QED BY <1>6, <1>7

LEMMA HandleCancelInv ==
  ASSUME IInv, NEW o \in Orders, HandleCancel(o)
  PROVE  IInv'
<1> USE DEF IInv
<1>1. /\ NextCmd("cancel", o) /\ cmds' = Tail(cmds)
      /\ pending' = pending \ {o}
      /\ UNCHANGED <<phase, spec, age, touch, subscribed, book, fillPx>>
  BY DEF HandleCancel
<1>2. /\ events' \in [Orders -> {<<>>, Accepted} \union Closed]
      /\ lost' \subseteq Orders /\ PendingIsAccepted'
      /\ \A x \in Orders : events[x] = <<>> <=> events'[x] = <<>>
  <2> DEFINE gone == pending \intersect {o}
  <2>1. Emit({}, gone)
    BY DEF HandleCancel
  <2>2. gone \in SUBSET pending /\ pending' = pending \ ({} \union gone)
    BY <1>1
  <2> DEFINE none == {}
  <2>3. none \in SUBSET pending /\ none \intersect gone = {} /\ Emit(none, gone)
        /\ pending' = pending \ (none \union gone)
    BY <2>1, <2>2
  <2> HIDE DEF gone, none
  <2> QED BY <2>2, <2>3, EmitInv
<1>3. QueueInv' /\ cmds' \in Seq(Cmds)
  BY <1>1, <1>2, TailQueueInv
<1>5. TypeOK'
  BY <1>1, <1>2, <1>3 DEF TypeOK
<1>6. SentInv'
  BY <1>1, <1>2 DEF SentInv
<1>7. Swept' /\ IocBudget'
  BY <1>1 DEF Swept, IocBudget, Crosses
<1> QED BY <1>2, <1>3, <1>5, <1>6, <1>7

LEMMA StopInv == ASSUME IInv, Stop PROVE IInv'
<1> USE DEF IInv
<1>1. /\ phase' = "stopped" /\ pending' = {}
      /\ UNCHANGED <<spec, cmds, age, touch, subscribed, book, fillPx>>
  BY DEF Stop
<1>2. /\ events' \in [Orders -> {<<>>, Accepted} \union Closed]
      /\ lost' \subseteq Orders /\ PendingIsAccepted'
      /\ \A x \in Orders : events[x] = <<>> <=> events'[x] = <<>>
  <2> DEFINE none == {}
  <2>1. none \in SUBSET pending /\ none \intersect pending = {} /\ Emit(none, pending)
        /\ pending' = pending \ (none \union pending)
    BY <1>1 DEF Stop
  <2> HIDE DEF none
  <2> QED BY <2>1, EmitInv
<1>3. TypeOK'
  BY <1>1, <1>2 DEF TypeOK
<1>4. QueueInv'
  BY <1>1, <1>2, CmdsAbout DEF QueueInv, TypeOK
<1>5. SentInv'
  BY <1>1, <1>2 DEF SentInv
<1> QED BY <1>1, <1>2, <1>3, <1>4, <1>5 DEF Swept, IocBudget

LEMMA StartInv == ASSUME IInv, Start PROVE IInv'
  BY DEF IInv, Start, TypeOK, QueueInv, SentInv, PendingIsAccepted,
         Swept, IocBudget, Crosses

\* Market data: whatever a book message or a trade print says.
LEMMA DataInv ==
  ASSUME IInv, NEW i \in Instruments, Book(i) \/ Tick(i)
  PROVE  IInv'
<1>0. touch[i] \in Touches /\ book \in [Instruments -> Touches]
  BY DEF IInv, TypeOK
<1>1. CASE Book(i)
  <2>1. PICK bid, ask \in Quotes : OnOrderBookDeltas(i, bid, ask)
    BY <1>1 DEF Book
  <2>2. BookTouch(touch[i], bid, ask) \in Touches \ {NoTouch}
    BY <1>0, <2>1, BookTouchKnown DEF OnOrderBookDeltas
  <2>3. book' \in [Instruments -> Touches]
    BY <1>0, <2>1 DEF OnOrderBookDeltas, Touches
  <2> QED BY <2>1, <2>2, <2>3, DeliverInv DEF OnOrderBookDeltas
<1>2. CASE Tick(i)
  <2>1. PICK px \in Prices, ag \in {"BUYER", "SELLER", "NO_AGGRESSOR"} :
               OnTradeTick(i, px, ag)
    BY <1>2 DEF Tick
  <2>2. TickTouch(touch[i], px, ag) \in Touches \ {NoTouch}
    BY <1>0, TickTouchKnown
  <2> QED BY <1>0, <2>1, <2>2, DeliverInv DEF OnTradeTick
<1> QED BY <1>1, <1>2

LEMMA NextInv == IInv /\ [Next]_vars => IInv'
<1> SUFFICES ASSUME IInv, [Next]_vars PROVE IInv'
  OBVIOUS
<1>1. CASE Start
  BY <1>1, StartInv
<1>2. CASE Stop
  BY <1>2, StopInv
<1>3. ASSUME NEW o \in Orders, NEW s \in OrderSpecs, SubmitOrder(o, s)
      PROVE  IInv'
  BY <1>3, SubmitInv
<1>4. ASSUME NEW o \in Orders, CancelOrder(o) PROVE IInv'
  BY <1>4, CancelInv
<1>5. ASSUME NEW o \in Orders, Command(o) PROVE IInv'
  BY <1>5, HandleSubmitInv, HandleCancelInv DEF Command
<1>6. ASSUME NEW i \in Instruments, Book(i) \/ Tick(i) PROVE IInv'
  BY <1>6, DataInv
<1>7. CASE UNCHANGED vars
  BY <1>7 DEF vars, IInv, TypeOK, QueueInv, SentInv, PendingIsAccepted,
              Swept, IocBudget, Crosses
<1> QED BY <1>1, <1>2, <1>3, <1>4, <1>5, <1>6, <1>7 DEF Next

LEMMA Inductive == Spec => []IInv
  BY InitInv, NextInv, PTL DEF Spec
-----------------------------------------------------------------------------
(* Theorems *)

\* Every state of a paper node has its type; in particular what is published
\* about an order is always one of the five lives of the paper path.
THEOREM TypeCorrect == Spec => []TypeOK
  BY Inductive, PTL DEF IInv

\* The engine loses an order only with the event it cannot make, and never
\* keeps one it has closed.
THEOREM HeldUnlessLost == Spec => []PendingIsAccepted
  BY Inductive, PTL DEF IInv

\* No delivery leaves an order of its instrument unfilled that its touch
\* crosses, on either venue's feed.
THEOREM SweepComplete == Spec => []NoMarketablePending
<1>1. IInv => NoMarketablePending
  <2> SUFFICES ASSUME IInv, NEW o \in pending, age[o] > 0, spec[o].px # NoPrice
               PROVE  LET t == touch[spec[o].iid]
                      IN  IF spec[o].side = "BUY"
                            THEN t.ask = NoPrice \/ t.ask > spec[o].px
                            ELSE t.bid < spec[o].px
    BY DEF NoMarketablePending
  <2>1. spec[o] \in SpecType
    BY LivesDiffer DEF IInv, TypeOK, SentInv, PendingIsAccepted
  <2>2. touch[spec[o].iid] \in Touches
    BY <2>1 DEF IInv, TypeOK, SpecType
  <2>3. /\ spec[o].px \in Nat /\ spec[o].px > 0
        /\ spec[o].side \in {"BUY", "SELL"}
        /\ touch[spec[o].iid].bid \in Nat /\ touch[spec[o].iid].ask \in Nat
    BY <2>1, <2>2 DEF SpecType, Touches, Quotes, Sides, NoPrice
  <2>4. ~Crosses(o, touch[spec[o].iid])
    BY DEF IInv, Swept
  <2> QED BY <2>3, <2>4 DEF Crosses, NoPrice
<1> QED BY <1>1, Inductive, PTL

\* If strategies price their IOC orders, an IOC order never outlives the
\* book updates it may wait for.
THEOREM IocOnTime ==
  ASSUME \A s \in OrderSpecs : s.ioc => s.px # NoPrice
  PROVE  Spec => []IocResolved
<1>1. IInv => IocResolved
  BY LivesDiffer DEF IInv, IocBudget, IocResolved, SentInv, PendingIsAccepted
<1> QED BY <1>1, Inductive, PTL

\* Where the feed clears the book, a book message that changes the book
\* fills orders at its own prices only.
THEOREM FillsAtTheBookIfCleared ==
  ASSUME FeedClears
  PROVE  Spec => FillsAtTheBook
<1> DEFINE A == \A o \in Orders :
                  LET i == spec[o].iid
                  IN  /\ events[o] = Accepted /\ events'[o] = Filled
                      /\ book'[i] # book[i]
                      => fillPx'[o] = TouchPx(o, book'[i])
<1>1. IInv /\ [Next]_vars => [A]_vars
  <2> SUFFICES ASSUME IInv, Next, NEW o \in Orders,
                      events[o] = Accepted, events'[o] = Filled,
                      book'[spec[o].iid] # book[spec[o].iid]
               PROVE  fillPx'[o] = TouchPx(o, book'[spec[o].iid])
    OBVIOUS
  <2>1. PICK i \in Instruments : Book(i)
    BY DEF Next, Start, Stop, SubmitOrder, CancelOrder, Command, HandleCancel,
           HandleSubmit, Tick, OnTradeTick, engine
  <2>2. PICK bid, ask \in Quotes : OnOrderBookDeltas(i, bid, ask)
    BY <2>1 DEF Book
  <2> DEFINE t == [bid |-> bid, ask |-> ask]
  <2>3. BookTouch(touch[i], bid, ask) = t
    BY DEF BookTouch, RaiseBid, LowerAsk, NoTouch, Quotes, NoPrice
  <2>4. Deliver(i, t) /\ book' = [book EXCEPT ![i] = t]
    BY <2>2, <2>3 DEF OnOrderBookDeltas
  <2>5. spec[o].iid = i /\ book'[i] = t
    BY <2>4 DEF IInv, TypeOK
  <2>6. o \in FilledBy(i, t) /\ o \notin lost'
    <3> DEFINE hit == FilledBy(i, t)
               late == ExpiredBy(i, t)
    <3>1. /\ hit \in SUBSET pending /\ late \in SUBSET pending
          /\ hit \intersect late = {} /\ Emit(hit, late)
      BY <2>4 DEF FilledBy, ExpiredBy, PendingOn, Deliver
    <3>2. Filled # Canceled
      BY DEF Filled, Canceled
    <3> HIDE DEF hit, late
    <3>3. o \in hit /\ o \notin lost'
      BY <3>1, <3>2, EmitEach, LivesDiffer
    <3> QED BY <3>3 DEF hit
  <2>7. fillPx'[o] = TouchPx(o, t)
    BY <2>4, <2>6 DEF Deliver
  <2> QED BY <2>5, <2>7
<1> QED BY <1>1, Inductive, PTL DEF Spec, FillsAtTheBook
-----------------------------------------------------------------------------
(* The paper path implements OrderLife *)

\* The two modules name the same lives.
LEMMA SameLives ==
  Life!Lives = {<<>>, <<"submitted">>, Accepted} \union Closed
  BY DEF Life!Lives, Life!Closed, Life!Accepted, Life!Rejected, Life!Filled,
         Life!Canceled, Accepted, Closed, Rejected, Filled, Canceled

\* A step gives an order its first events, closes it, or leaves it alone.
LEMMA EventsGrow ==
  ASSUME IInv, Next, NEW o \in Orders
  PROVE  \/ events'[o] = events[o]
         \/ events[o] = <<>>
         \/ events[o] = Accepted /\ events'[o] \in {Filled, Canceled}
<1> USE DEF IInv
<1>0. ASSUME NEW filled \in SUBSET pending, NEW canceled \in SUBSET pending,
             filled \intersect canceled = {}, Emit(filled, canceled)
      PROVE  \/ events'[o] = events[o]
             \/ events[o] = Accepted /\ events'[o] \in {Filled, Canceled}
  <2>1. \/ o \in filled \union canceled /\ events'[o] \in {Filled, Canceled}
        \/ events'[o] = events[o]
    BY <1>0, EmitEach
  <2> QED BY <2>1 DEF PendingIsAccepted
<1>1. ASSUME NEW i \in Instruments, NEW t, Deliver(i, t)
      PROVE  \/ events'[o] = events[o]
             \/ events[o] = Accepted /\ events'[o] \in {Filled, Canceled}
  <2>1. FilledBy(i, t) \subseteq pending /\ ExpiredBy(i, t) \subseteq pending
        /\ FilledBy(i, t) \intersect ExpiredBy(i, t) = {} /\ Emit(FilledBy(i, t), ExpiredBy(i, t))
    BY <1>1 DEF FilledBy, ExpiredBy, PendingOn, Deliver
  <2> QED BY <2>1, <1>0
<1>2. ASSUME NEW i \in Instruments, Book(i) \/ Tick(i)
      PROVE  \/ events'[o] = events[o]
             \/ events[o] = Accepted /\ events'[o] \in {Filled, Canceled}
  BY <1>1, <1>2 DEF Book, Tick, OnOrderBookDeltas, OnTradeTick
<1>3. ASSUME NEW x \in Orders, NEW ok \in BOOLEAN, HandleSubmit(x, ok)
      PROVE  events'[o] = events[o] \/ events[o] = <<>>
  <2>1. cmds[1] = [op |-> "submit", o |-> x] /\ 1 \in DOMAIN cmds
    BY <1>3, TailCmd DEF HandleSubmit, NextCmd, TypeOK
  <2>2. events[x] = <<>>
    BY <2>1 DEF QueueInv
  <2> QED BY <1>3, <2>2 DEF HandleSubmit, TypeOK
<1>4. ASSUME NEW x \in Orders, HandleCancel(x)
      PROVE  \/ events'[o] = events[o]
             \/ events[o] = Accepted /\ events'[o] \in {Filled, Canceled}
  <2>1. pending \intersect {x} \in SUBSET pending /\ Emit({}, pending \intersect {x})
    BY <1>4 DEF HandleCancel
  <2> QED BY <2>1, <1>0
<1>5. CASE Stop
  <2>1. Emit({}, pending)
    BY <1>5 DEF Stop
  <2> QED BY <2>1, <1>0
<1> QED BY <1>2, <1>3, <1>4, <1>5
        DEF Next, Start, SubmitOrder, CancelOrder, Command, engine

\* Every behaviour of the paper path, seen through its events, is one of the
\* abstract order life: an order is accepted or rejected once, and closed once.
THEOREM Refines == Spec => ImplementsOrderLife
<1>1. Init => Life!Init
  BY DEF Init, Life!Init
<1>2. IInv /\ IInv' /\ [Next]_vars => [Life!Publish]_events
  <2> SUFFICES ASSUME IInv, IInv', Next PROVE Life!Publish
    BY DEF vars
  <2>1. events \in [Orders -> Life!Lives] /\ events' \in [Orders -> Life!Lives]
    BY SameLives DEF IInv, TypeOK
  <2>2. \A o \in Orders : Life!GoesOn(events[o], events'[o])
    BY <2>1, EventsGrow DEF Life!GoesOn, Life!Accepted, Life!Filled,
       Life!Canceled, Accepted, Filled, Canceled
  <2> QED BY <2>1, <2>2 DEF Life!Publish
<1> QED BY <1>1, <1>2, Inductive, PTL DEF Spec, ImplementsOrderLife, Life!Spec
=============================================================================
