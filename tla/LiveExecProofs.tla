--------------------------- MODULE LiveExecProofs ---------------------------
(***************************************************************************)
(* The client and the venue, for any number of orders, with and without a  *)
(* user channel.                                                           *)
(*                                                                         *)
(* The requests in flight, the client's map and the venue's orders         *)
(* determine what the client may have lost and what it may have reported   *)
(* as ended (EndInv). The fills published of an order and the messages on  *)
(* their way that will publish one are counted together (LiveFillInv).     *)
(* Without the user channel every order is on one of nine courses, each a  *)
(* history and how far its two requests are (ShippedInv).                  *)
(***************************************************************************)
EXTENDS LiveExec, FiniteSetTheorems, SequenceTheorems, TLAPS

Evs == {"submitted", "accepted", "rejected", "filled", "canceled"}
Lost == {"lostReply", "blindCancel"}

-----------------------------------------------------------------------------
(* Counting in sequences *)

\* The places of s that hold an element of T.
Hits(s, T) == {k \in DOMAIN s : s[k] \in T}
One(e, T) == IF e \in T THEN 1 ELSE 0

\* They are finite in number.
LEMMA HitsFinite ==
  ASSUME NEW S, NEW s \in Seq(S), NEW T
  PROVE  IsFiniteSet(Hits(s, T)) /\ Cardinality(Hits(s, T)) \in Nat
<1>1. IsFiniteSet(1..Len(s))
  BY FS_Interval
<1>2. Hits(s, T) \subseteq 1..Len(s)
  BY DEF Hits
<1> QED BY <1>1, <1>2, FS_Subset, FS_CardinalityType

\* A new last element adds itself.
LEMMA CountAppend ==
  ASSUME NEW S, NEW s \in Seq(S), NEW e \in S, NEW T
  PROVE  Cardinality(Hits(Append(s, e), T)) = Cardinality(Hits(s, T)) + One(e, T)
<1>1. IsFiniteSet(Hits(s, T)) /\ Cardinality(Hits(s, T)) \in Nat
  BY HitsFinite
<1>2. CASE e \in T
  <2>1. Hits(Append(s, e), T) = Hits(s, T) \union {Len(s) + 1}
    BY <1>2 DEF Hits
  <2>2. Len(s) + 1 \notin Hits(s, T)
    BY DEF Hits
  <2>3. Cardinality(Hits(s, T) \union {Len(s) + 1}) = Cardinality(Hits(s, T)) + 1
    BY <1>1, <2>2, FS_AddElement
  <2> QED BY <1>2, <2>1, <2>3 DEF One
<1>3. CASE e \notin T
  <2>1. Hits(Append(s, e), T) = Hits(s, T)
    BY <1>3 DEF Hits
  <2> QED BY <1>1, <1>3, <2>1 DEF One
<1> QED BY <1>2, <1>3

\* The first element takes itself away.
LEMMA CountTail ==
  ASSUME NEW S, NEW s \in Seq(S), s # <<>>, NEW T
  PROVE  Cardinality(Hits(s, T)) = Cardinality(Hits(Tail(s), T)) + One(Head(s), T)
<1> DEFINE H == Hits(Tail(s), T)
           Up == {k + 1 : k \in H}
           f == [k \in H |-> k + 1]
<1>1. Tail(s) \in Seq(S) /\ Len(Tail(s)) = Len(s) - 1 /\ Len(s) \in Nat \ {0}
  OBVIOUS
<1>2. IsFiniteSet(H) /\ Cardinality(H) \in Nat
  BY <1>1, HitsFinite
<1>3. H \subseteq 1..(Len(s) - 1)
  BY <1>1 DEF Hits
<1>4. f \in Bijection(H, Up)
  <2>1. f \in [H -> Up]
    OBVIOUS
  <2>2. \A a, b \in H : f[a] = f[b] => a = b
    BY <1>3
  <2>3. \A u \in Up : \E a \in H : f[a] = u
    OBVIOUS
  <2> HIDE DEF f, Up, H
  <2> QED BY <2>1, <2>2, <2>3, Zenon DEF Bijection, Injection, Surjection, IsInjective
<1>5. IsFiniteSet(Up) /\ Cardinality(Up) = Cardinality(H)
  BY <1>2, <1>4, FS_Bijection DEF ExistsBijection
<1>6. \A k \in 1..(Len(s) - 1) : Tail(s)[k] = s[k + 1]
  OBVIOUS
<1>7. Hits(s, T) = Up \union (IF Head(s) \in T THEN {1} ELSE {})
  <2>1. \A k \in 1..Len(s) : k # 1 => (s[k] \in T <=> k \in Up)
    <3> SUFFICES ASSUME NEW k \in 1..Len(s), k # 1 PROVE s[k] \in T <=> k \in Up
      OBVIOUS
    <3>1. k - 1 \in 1..(Len(s) - 1) /\ Tail(s)[k - 1] = s[k]
      BY <1>1, <1>6
    <3>2. k - 1 \in H <=> s[k] \in T
      BY <1>1, <3>1 DEF Hits
    <3>3. k \in Up <=> k - 1 \in H
      BY <1>3, <3>1
    <3> QED BY <3>2, <3>3
  <2>2. 1 \notin Up /\ Up \subseteq 1..Len(s)
    BY <1>1, <1>3
  <2>3. Head(s) = s[1]
    OBVIOUS
  <2>4. Hits(s, T) = {k \in 1..Len(s) : s[k] \in T} /\ 1 \in 1..Len(s)
    BY <1>1 DEF Hits
  <2>5. CASE Head(s) \in T
    <3>1. \A k \in 1..Len(s) : k \in Hits(s, T) <=> k \in Up \/ k = 1
      BY <2>1, <2>3, <2>4, <2>5
    <3> HIDE DEF Up
    <3> QED BY <2>2, <2>4, <2>5, <3>1
  <2>6. CASE Head(s) \notin T
    <3>1. \A k \in 1..Len(s) : k \in Hits(s, T) <=> k \in Up
      BY <2>1, <2>2, <2>3, <2>4, <2>6
    <3> HIDE DEF Up
    <3> QED BY <2>2, <2>4, <2>6, <3>1
  <2> QED BY <2>5, <2>6
<1>8. 1 \notin Up
  BY <1>3
<1> HIDE DEF Up, H
<1>9. CASE Head(s) \in T
  <2>1. Cardinality(Up \union {1}) = Cardinality(Up) + 1
    BY <1>5, <1>8, FS_AddElement
  <2> QED BY <1>2, <1>5, <1>7, <1>9, <2>1 DEF One, H
<1>10. CASE Head(s) \notin T
  BY <1>2, <1>5, <1>7, <1>10 DEF One, H
<1> QED BY <1>9, <1>10
-----------------------------------------------------------------------------
(* Types, and what a step publishes *)

\* Publishing e about o adds e to what the strategy has of o, and nothing else.
LEMMA Published ==
  ASSUME LiveTypeOK, NEW o \in LiveOrders, NEW e \in Evs, Publish(o, e)
  PROVE  /\ events' \in [LiveOrders -> Seq(Evs)]
         /\ events'[o] = Append(events[o], e)
         /\ \A p \in LiveOrders : p # o => events'[p] = events[p]
         /\ \A p \in LiveOrders : events'[p] = <<>> => events[p] = <<>> /\ p # o
         /\ \A p \in LiveOrders, x \in Evs :
              Has(p, x)' <=> Has(p, x) \/ (p = o /\ x = e)
<1>1. events \in [LiveOrders -> Seq(Evs)] /\ events[o] \in Seq(Evs)
  BY DEF LiveTypeOK, Evs
<1>2. /\ events'[o] = Append(events[o], e)
      /\ \A p \in LiveOrders : p # o => events'[p] = events[p]
      /\ events' \in [LiveOrders -> Seq(Evs)]
  BY <1>1 DEF Publish
<1>3. \A p \in LiveOrders : events'[p] = <<>> => events[p] = <<>> /\ p # o
  BY <1>1, <1>2
<1>4. \A x \in Evs : Has(o, x)' <=> Has(o, x) \/ x = e
  <2> DEFINE s == events[o]
  <2>1. /\ Len(s) \in Nat /\ DOMAIN s = 1..Len(s)
        /\ DOMAIN Append(s, e) = 1..(Len(s) + 1)
        /\ Append(s, e)[Len(s) + 1] = e
        /\ \A k \in 1..Len(s) : Append(s, e)[k] = s[k]
    BY <1>1
  <2> HIDE DEF s
  <2>2. \A x \in Evs : (\E k \in DOMAIN Append(s, e) : Append(s, e)[k] = x)
                         <=> (\E k \in DOMAIN s : s[k] = x) \/ x = e
    BY <2>1
  <2> QED BY <1>2, <2>2 DEF Has, s
<1>5. \A p \in LiveOrders, x \in Evs : p # o => (Has(p, x)' <=> Has(p, x))
  BY <1>2 DEF Has
<1> QED BY <1>2, <1>3, <1>4, <1>5

\* A delivered message publishes one event about its own order, or nothing:
\* then it loses at most its own order, and does if it is a trade.
LEMMA Delivered ==
  ASSUME LiveTypeOK, Deliver
  PROVE  /\ ws # <<>> /\ Head(ws) \in Msgs /\ ws' = Tail(ws)
         /\ UNCHANGED <<post, delete, known, clob>>
         /\ losses' = losses \/ Misses(Head(ws).o, "early") \/ Misses(Head(ws).o, "unread")
         /\ \/ /\ events' = events
               /\ Head(ws).kind = "TRADE" => \/ Misses(Head(ws).o, "early")
                                             \/ Misses(Head(ws).o, "unread")
            \/ /\ Head(ws).o \in known
               /\ Head(ws).kind \in Status \union {"TRADE"}
               /\ EventOf(Head(ws).kind) # <<>>
               /\ Head(EventOf(Head(ws).kind)) \in Evs
               /\ Publish(Head(ws).o, Head(EventOf(Head(ws).kind)))
<1> DEFINE m == Head(ws)
<1>1. ws # <<>> /\ m \in Msgs /\ ws' = Tail(ws)
  BY DEF LiveTypeOK, Deliver
<1>2. m.o \in LiveOrders /\ m.kind \in Status \union {"TRADE"}
  BY <1>1 DEF Msgs
<1>3. EventOf(m.kind) = <<>> \/ \E e \in Evs : EventOf(m.kind) = <<e>>
  BY <1>2 DEF EventOf, Evs, Status
<1>4. events[m.o] \in Seq(Evs) /\ events \in [LiveOrders -> Seq(Evs)]
  BY <1>2 DEF LiveTypeOK, Evs
<1>5. /\ UNCHANGED <<post, delete, known, clob>>
      /\ losses' = losses \/ Misses(m.o, "early") \/ Misses(m.o, "unread")
  BY DEF Deliver, Unnamed, Unread
<1>6. ASSUME m.o \in known, events' = [events EXCEPT ![m.o] = @ \o EventOf(m.kind)]
      PROVE  \/ events' = events /\ m.kind # "TRADE"
             \/ /\ EventOf(m.kind) # <<>>
                /\ Head(EventOf(m.kind)) \in Evs
                /\ Publish(m.o, Head(EventOf(m.kind)))
  <2>1. CASE EventOf(m.kind) = <<>>
    <3>1. events[m.o] \o <<>> = events[m.o]
      BY <1>4
    <3>2. events' = events
      BY <1>4, <1>6, <2>1, <3>1
    <3>3. <<"filled">> # <<>>
      OBVIOUS
    <3>4. m.kind # "TRADE"
      BY <2>1, <3>3 DEF EventOf
    <3> QED BY <3>2, <3>4
  <2>2. ASSUME NEW e \in Evs, EventOf(m.kind) = <<e>>
        PROVE  Publish(m.o, e) /\ EventOf(m.kind) # <<>> /\ Head(EventOf(m.kind)) = e
    <3>1. events[m.o] \o <<e>> = Append(events[m.o], e)
      BY <1>4
    <3>2. Publish(m.o, e)
      BY <1>6, <2>2, <3>1 DEF Publish
    <3>3. <<e>> # <<>> /\ Head(<<e>>) = e
      OBVIOUS
    <3> QED BY <2>2, <3>2, <3>3
  <2> QED BY <1>3, <2>1, <2>2
<1>7. CASE Unnamed(m)
  BY <1>1, <1>5, <1>7 DEF Unnamed
<1>8. CASE Unread(m)
  BY <1>1, <1>5, <1>8 DEF Unread
<1>9. \/ m.o \in known /\ events' = [events EXCEPT ![m.o] = @ \o EventOf(m.kind)]
      \/ Unnamed(m)
      \/ Unread(m)
  BY DEF Deliver
<1> QED BY <1>1, <1>2, <1>5, <1>6, <1>7, <1>8, <1>9

\* A trade that publishes nothing is a loss of its order.
LEMMA Silence ==
  ASSUME LiveTypeOK, Deliver, events' = events, Head(ws).kind = "TRADE"
  PROVE  Misses(Head(ws).o, "early") \/ Misses(Head(ws).o, "unread")
<1> DEFINE m == Head(ws)
<1>1. m.o \in LiveOrders
  BY Delivered DEF Msgs
<1>2. ASSUME NEW e \in Evs, Publish(m.o, e) PROVE FALSE
  <2>1. events[m.o] \in Seq(Evs) /\ events'[m.o] = Append(events[m.o], e)
    BY <1>1, <1>2, Published DEF LiveTypeOK, Evs
  <2>2. Len(Append(events[m.o], e)) = Len(events[m.o]) + 1
    BY <2>1
  <2> QED BY <2>1, <2>2
<1> QED BY <1>2, Delivered

\* Leaving the connection clears the channel; every order whose trade was on
\* it has lost it.
LEMMA Severed ==
  ASSUME LiveTypeOK, DeliverRaises \/ Disconnect
  PROVE  /\ ws' = <<>>
         /\ UNCHANGED <<events, post, delete, known, clob>>
         /\ losses' \in [LiveOrders -> SUBSET Losses]
         /\ \A p \in LiveOrders :
              /\ losses[p] \subseteq losses'[p]
              /\ losses'[p] \subseteq losses[p] \union {"dropped", "unmade"}
              /\ (\E k \in DOMAIN ws : ws[k] = Message("TRADE", p))
                   => losses'[p] \intersect {"dropped", "unmade"} # {}
<1>1. losses \in [LiveOrders -> SUBSET Losses] /\ ws \in Seq(Msgs)
  BY DEF LiveTypeOK
<1>2. CASE Disconnect
  <2>1. losses' = [o \in LiveOrders |-> losses[o] \union Unheard(ws, o)]
    BY <1>2 DEF Disconnect
  <2>2. \A p \in LiveOrders : (\E k \in DOMAIN ws : ws[k] = Message("TRADE", p))
                              => Unheard(ws, p) = {"dropped"}
    BY DEF Unheard, Range
  <2>3. \A p \in LiveOrders : Unheard(ws, p) \subseteq {"dropped"}
    BY DEF Unheard
  <2>4. losses' \in [LiveOrders -> SUBSET Losses]
    BY <1>1, <2>1, <2>3 DEF Losses
  <2> QED BY <1>2, <2>1, <2>2, <2>3, <2>4 DEF Disconnect
<1>3. CASE DeliverRaises
  <2> DEFINE Raised(o) == IF Head(ws) = Message("TRADE", o) THEN {"unmade"} ELSE {}
  <2>1. losses' = [o \in LiveOrders |-> losses[o] \union Unheard(Tail(ws), o) \union Raised(o)]
    BY <1>3 DEF DeliverRaises
  <2>2. \A p \in LiveOrders : /\ Unheard(Tail(ws), p) \subseteq {"dropped"}
                              /\ Raised(p) \subseteq {"unmade"}
    BY DEF Unheard
  <2>3. losses' \in [LiveOrders -> SUBSET Losses]
    BY <1>1, <2>1, <2>2 DEF Losses
  <2>4. \A p \in LiveOrders : (\E k \in DOMAIN ws : ws[k] = Message("TRADE", p))
                  => "dropped" \in Unheard(Tail(ws), p) \/ "unmade" \in Raised(p)
    <3> SUFFICES ASSUME NEW p \in LiveOrders, NEW k \in DOMAIN ws,
                        ws[k] = Message("TRADE", p)
                 PROVE  "dropped" \in Unheard(Tail(ws), p) \/ "unmade" \in Raised(p)
      OBVIOUS
    <3>1. CASE k = 1
      BY <1>1, <3>1
    <3>2. CASE k # 1
      <4>1. k - 1 \in DOMAIN Tail(ws) /\ Tail(ws)[k - 1] = ws[k]
        BY <1>1, <1>3, <3>2 DEF DeliverRaises
      <4>2. Message("TRADE", p) \in Range(Tail(ws))
        BY <4>1 DEF Range
      <4> QED BY <4>2 DEF Unheard
    <3> QED BY <3>1, <3>2
  <2> HIDE DEF Raised
  <2>5. UNCHANGED <<events, post, delete, known, clob>> /\ ws' = <<>>
    BY <1>3 DEF DeliverRaises
  <2> QED BY <2>1, <2>2, <2>3, <2>4, <2>5
<1> QED BY <1>2, <1>3

\* What the user channel takes up.
LEMMA Notified ==
  ASSUME LiveTypeOK, NEW t \in Seq(Msgs), Notify(t)
  PROVE  /\ ws' \in Seq(Msgs)
         /\ \A k \in DOMAIN ws' : (k \in DOMAIN ws /\ ws'[k] = ws[k])
                               \/ (\E j \in DOMAIN t : ws'[k] = t[j])
         /\ UserChannel => /\ \A k \in DOMAIN ws : k \in DOMAIN ws' /\ ws'[k] = ws[k]
                           /\ \A j \in DOMAIN t : \E k \in DOMAIN ws' : ws'[k] = t[j]
<1>1. ws \in Seq(Msgs)
  BY DEF LiveTypeOK
<1>2. CASE UserChannel
  <2>1. ws' = ws \o t
    BY <1>2 DEF Notify
  <2>2. /\ ws' \in Seq(Msgs)
        /\ Len(ws) \in Nat /\ Len(t) \in Nat
        /\ DOMAIN ws = 1..Len(ws) /\ DOMAIN t = 1..Len(t)
        /\ DOMAIN ws' = 1..(Len(ws) + Len(t))
        /\ \A k \in 1..(Len(ws) + Len(t)) :
             ws'[k] = IF k <= Len(ws) THEN ws[k] ELSE t[k - Len(ws)]
    BY <1>1, <2>1
  <2>3. \A k \in DOMAIN ws' : k > Len(ws) => k - Len(ws) \in DOMAIN t
    BY <2>2
  <2>4. \A k \in DOMAIN ws : k \in DOMAIN ws' /\ ws'[k] = ws[k]
    BY <2>2
  <2>5. \A j \in DOMAIN t : Len(ws) + j \in DOMAIN ws' /\ ws'[Len(ws) + j] = t[j]
    BY <2>2
  <2>6. \A k \in DOMAIN ws' : (k \in DOMAIN ws /\ ws'[k] = ws[k])
                           \/ (\E j \in DOMAIN t : ws'[k] = t[j])
    <3> SUFFICES ASSUME NEW k \in DOMAIN ws'
                 PROVE  (k \in DOMAIN ws /\ ws'[k] = ws[k])
                          \/ (\E j \in DOMAIN t : ws'[k] = t[j])
      OBVIOUS
    <3>1. CASE k <= Len(ws)
      BY <2>2, <3>1
    <3>2. CASE k > Len(ws)
      <4>1. k - Len(ws) \in DOMAIN t /\ ws'[k] = t[k - Len(ws)]
        BY <2>2, <2>3, <3>2
      <4> QED BY <4>1
    <3> QED BY <2>2, <3>1, <3>2
  <2> QED BY <2>2, <2>4, <2>5, <2>6
<1>3. CASE ~UserChannel
  <2>1. ws' = ws
    BY <1>3 DEF Notify
  <2> QED BY <1>1, <1>3, <2>1
<1> QED BY <1>2, <1>3
\* A loss is added to those of its order, and to no other.
LEMMA LossAdded ==
  ASSUME LiveTypeOK, NEW o \in LiveOrders, NEW way \in Losses, Misses(o, way)
  PROVE  /\ losses' \in [LiveOrders -> SUBSET Losses]
         /\ losses'[o] = losses[o] \union {way}
         /\ \A p \in LiveOrders : p # o => losses'[p] = losses[p]
         /\ \A p \in LiveOrders : losses[p] \subseteq losses'[p]
<1>1. losses \in [LiveOrders -> SUBSET Losses] /\ losses' = [losses EXCEPT ![o] = @ \union {way}]
  BY DEF LiveTypeOK, Misses
<1>2. losses[o] \union {way} \in SUBSET Losses
  BY <1>1
<1>3. /\ losses' \in [LiveOrders -> SUBSET Losses]
      /\ losses'[o] = losses[o] \union {way}
      /\ \A p \in LiveOrders : p # o => losses'[p] = losses[p]
  BY <1>1, <1>2
<1> QED BY <1>3
-----------------------------------------------------------------------------
(* Types *)

LEMMA InitTypeOK == LiveInit => LiveTypeOK
  BY DEF LiveInit, LiveTypeOK, Posts, Deletes, AtVenue, Losses

LEMMA StepTypeOK ==
  ASSUME LiveTypeOK, [LiveNext]_liveVars PROVE LiveTypeOK'
<1> USE DEF LiveTypeOK
<1> DEFINE EventsOK == events' \in [LiveOrders -> Seq(Evs)]
<1>0. EventsOK => events' \in [LiveOrders -> Seq({"submitted", "accepted", "rejected",
                                                  "filled", "canceled"})]
  BY DEF Evs
<1>1. ASSUME NEW o \in LiveOrders, NEW ok \in BOOLEAN, SubmitLive(o, ok) PROVE LiveTypeOK'
  <2>1. <<"submitted">> \in Seq(Evs) /\ <<"submitted", "rejected">> \in Seq(Evs)
    BY DEF Evs
  <2>2. events \in [LiveOrders -> Seq(Evs)]
    BY DEF Evs
  <2>3. EventsOK
    BY <1>1, <2>1, <2>2 DEF SubmitLive
  <2> QED BY <1>0, <1>1, <2>3 DEF SubmitLive, Posts
<1>2. ASSUME NEW o \in LiveOrders, CreateReply(o) PROVE LiveTypeOK'
  <2>1. PICK e \in Evs : Publish(o, e)
    BY <1>2 DEF CreateReply, Evs
  <2>2. EventsOK
    BY <2>1, Published
  <2>3. known' \subseteq LiveOrders /\ post' \in [LiveOrders -> Posts]
    BY <1>2 DEF CreateReply, Posts
  <2>4. UNCHANGED <<delete, clob, ws, losses>>
    BY <1>2 DEF CreateReply
  <2> QED BY <1>0, <2>2, <2>3, <2>4
<1>3. ASSUME NEW o \in LiveOrders, CreateRaises(o) PROVE LiveTypeOK'
  <2>1. EventsOK
    BY <1>3, Published DEF CreateRaises, Evs
  <2>2. losses' = losses \/ Misses(o, "lostReply")
    BY <1>3 DEF CreateRaises
  <2>3. losses' \in [LiveOrders -> SUBSET Losses]
    BY <2>2, LossAdded DEF Losses
  <2>4. post' \in [LiveOrders -> Posts]
    BY <1>3 DEF CreateRaises, Posts
  <2>5. UNCHANGED <<delete, known, clob, ws>>
    BY <1>3 DEF CreateRaises
  <2> QED BY <1>0, <2>1, <2>3, <2>4, <2>5
<1>4. ASSUME NEW o \in LiveOrders, HandleCancel(o) PROVE LiveTypeOK'
  <2>1. EventsOK
    BY <1>4, Published DEF HandleCancel, Evs
  <2>2. losses' = losses \/ Misses(o, "blindCancel")
    BY <1>4 DEF HandleCancel
  <2>3. losses' \in [LiveOrders -> SUBSET Losses]
    BY <2>2, LossAdded DEF Losses
  <2> QED BY <1>0, <1>4, <2>1, <2>3 DEF HandleCancel, Deletes
<1>5. ASSUME NEW o \in LiveOrders, CancelReply(o) PROVE LiveTypeOK'
  <2>1. EventsOK
    BY <1>5, Published DEF CancelReply, Evs
  <2> QED BY <1>0, <1>5, <2>1 DEF CancelReply, Deletes
<1>6. ASSUME NEW o \in LiveOrders,
             AskCancel(o) \/ CancelRaises(o) \/ VenueRefuses(o) PROVE LiveTypeOK'
  BY <1>6 DEF AskCancel, CancelRaises, VenueRefuses, Posts, Deletes
<1>7. ASSUME NEW o \in LiveOrders, VenueTakes(o) PROVE LiveTypeOK'
  <2>1. <<Message("LIVE", o)>> \in Seq(Msgs)
    BY DEF Message, Msgs, Status
  <2>2. ws' \in Seq(Msgs)
    BY <1>7, <2>1, Notified DEF VenueTakes
  <2> QED BY <1>7, <2>2 DEF VenueTakes, Posts, AtVenue
<1>8. ASSUME NEW o \in LiveOrders, VenueMatches(o) PROVE LiveTypeOK'
  <2>1. <<Message("MATCHED", o), Message("TRADE", o)>> \in Seq(Msgs)
    BY DEF Message, Msgs, Status
  <2>2. ws' \in Seq(Msgs)
    BY <1>8, <2>1, Notified DEF VenueMatches
  <2> QED BY <1>8, <2>2 DEF VenueMatches, AtVenue
<1>9. ASSUME NEW o \in LiveOrders, NEW s \in {"CANCELED", "REJECTED"}, VenueDrops(o, s)
      PROVE  LiveTypeOK'
  <2>1. <<Message(s, o)>> \in Seq(Msgs)
    BY DEF Message, Msgs, Status
  <2>2. ws' \in Seq(Msgs)
    BY <1>9, <2>1, Notified DEF VenueDrops
  <2> QED BY <1>9, <2>2 DEF VenueDrops, AtVenue
<1>10. ASSUME NEW o \in LiveOrders, VenueDeletes(o) PROVE LiveTypeOK'
  <2>1. <<Message("CANCELED", o)>> \in Seq(Msgs)
    BY DEF Message, Msgs, Status
  <2>2. ws' \in Seq(Msgs)
    BY <1>10, <2>1, Notified DEF VenueDeletes
  <2> QED BY <1>10, <2>2 DEF VenueDeletes, AtVenue, Deletes
<1>11. ASSUME Deliver PROVE LiveTypeOK'
  <2>1. ws # <<>> /\ Head(ws).o \in LiveOrders /\ ws' = Tail(ws)
    BY <1>11, Delivered DEF Msgs
  <2>2. EventsOK
    BY <1>11, <2>1, Delivered, Published DEF Evs
  <2>3. losses' \in [LiveOrders -> SUBSET Losses]
    <3>1. losses' = losses \/ Misses(Head(ws).o, "early") \/ Misses(Head(ws).o, "unread")
      BY <1>11, Delivered
    <3>2. \A way \in {"early", "unread"} :
            Misses(Head(ws).o, way) => losses' \in [LiveOrders -> SUBSET Losses]
      BY <2>1, LossAdded DEF Losses
    <3> QED BY <3>1, <3>2 DEF LiveTypeOK
  <2>4. ws' \in Seq(Msgs)
    BY <2>1
  <2>5. UNCHANGED <<post, delete, known, clob>>
    BY <1>11, Delivered
  <2> QED BY <1>0, <2>2, <2>3, <2>4, <2>5
<1>12. ASSUME DeliverRaises \/ Disconnect PROVE LiveTypeOK'
  <2>1. ws' = <<>>
    BY <1>12, Severed
  <2>2. <<>> \in Seq(Msgs)
    OBVIOUS
  <2> QED BY <1>0, <1>12, <2>1, <2>2, Severed
<1>13. ASSUME UNCHANGED liveVars PROVE LiveTypeOK'
  BY <1>13 DEF liveVars
<1> QED BY <1>1, <1>2, <1>3, <1>4, <1>5, <1>6, <1>7, <1>8, <1>9, <1>10, <1>11, <1>12,
           <1>13 DEF LiveNext
-----------------------------------------------------------------------------
(* Orders the client lost, and orders it reported ended *)

\* What the requests about o, the client's map and the venue say of each other.
Requests(o) ==
  /\ events[o] = <<>> => post[o] = "none"
  /\ post[o] \in {"none", "sent", "adrift", "refused"} => clob[o] = "none"
  /\ post[o] = "adrift" => "lostReply" \in losses[o] /\ Has(o, "rejected")
  /\ o \in known => post[o] = "done"
  /\ delete[o] \in {"sent", "ok", "failed"} => o \in known
  /\ delete[o] = "ok" => clob[o] = "canceled"
  /\ post[o] = "done" /\ o \notin known /\ clob[o] # "none"
       => "lostReply" \in losses[o] /\ Has(o, "rejected")

\* No end of o is published before the venue ended it, or lost it.
Silent(o) ==
  /\ losses[o] \intersect Lost = {}
  /\ post[o] \in {"sent", "taken"} \/ clob[o] = "live"
  => ~Has(o, "rejected") /\ ~Has(o, "canceled")

\* A message that names an end is about an order the venue ended.
Told == \A k \in DOMAIN ws :
          ws[k].kind \in {"CANCELED", "REJECTED"} => clob[ws[k].o] = "canceled"

EndInv == /\ LiveTypeOK
          /\ \A o \in LiveOrders : Requests(o) /\ Silent(o)
          /\ Told

LEMMA InitEnds == LiveInit => EndInv
  BY InitTypeOK DEF LiveInit, EndInv, Requests, Silent, Told

\* New messages that name no end, or one of an order now canceled, keep Told.
LEMMA ToldGrows ==
  ASSUME LiveTypeOK, Told, NEW o \in LiveOrders, NEW t \in Seq(Msgs), Notify(t),
         \A p \in LiveOrders : clob[p] = "canceled" => clob'[p] = "canceled",
         \A j \in DOMAIN t : t[j].kind \in {"CANCELED", "REJECTED"}
                               => clob'[t[j].o] = "canceled"
  PROVE  Told'
<1> SUFFICES ASSUME NEW k \in DOMAIN ws', ws'[k].kind \in {"CANCELED", "REJECTED"}
             PROVE  clob'[ws'[k].o] = "canceled"
  BY DEF Told
<1>1. (k \in DOMAIN ws /\ ws'[k] = ws[k]) \/ (\E j \in DOMAIN t : ws'[k] = t[j])
  BY Notified
<1>2. CASE k \in DOMAIN ws /\ ws'[k] = ws[k]
  <2>0. ws[k] \in Msgs
    BY <1>2 DEF LiveTypeOK
  <2>1. ws[k].o \in LiveOrders
    BY <2>0 DEF Msgs
  <2> QED BY <1>2, <2>1 DEF Told
<1> QED BY <1>1, <1>2

\* The client's own steps.
LEMMA ClientEnds ==
  ASSUME EndInv, NEW o \in LiveOrders,
         \/ \E ok \in BOOLEAN : SubmitLive(o, ok)
         \/ CreateReply(o) \/ CreateRaises(o) \/ AskCancel(o)
         \/ HandleCancel(o) \/ CancelReply(o) \/ CancelRaises(o)
  PROVE  (\A p \in LiveOrders : Requests(p)' /\ Silent(p)') /\ Told'
<1> USE DEF EndInv
<1>0. /\ LiveTypeOK /\ LiveTypeOK'
      /\ "rejected" \in Evs /\ "canceled" \in Evs /\ "accepted" \in Evs
  <2>1. LiveNext
    BY DEF LiveNext
  <2> QED BY <2>1, StepTypeOK DEF Evs
<1>1. Told'
  BY DEF Told, SubmitLive, CreateReply, CreateRaises, AskCancel, HandleCancel,
     CancelReply, CancelRaises
<1> SUFFICES ASSUME NEW p \in LiveOrders PROVE Requests(p)' /\ Silent(p)'
  BY <1>1
<1>2. Requests(p) /\ Silent(p)
  OBVIOUS
<1>3. /\ post \in [LiveOrders -> Posts] /\ delete \in [LiveOrders -> Deletes]
      /\ clob \in [LiveOrders -> AtVenue] /\ events \in [LiveOrders -> Seq(Evs)]
  BY <1>0 DEF LiveTypeOK, Evs
<1>4. ASSUME NEW ok \in BOOLEAN, SubmitLive(o, ok) PROVE Requests(p)' /\ Silent(p)'
  <2>1. CASE p = o
    <3>1. events'[o] = IF ok THEN <<"submitted">> ELSE <<"submitted", "rejected">>
      BY <1>3, <1>4 DEF SubmitLive
    <3>2. events'[o] # <<>>
      BY <3>1
    <3>3. ok => ~Has(o, "rejected")' /\ ~Has(o, "canceled")'
      BY <3>1 DEF Has
    <3>4. post[o] = "none" /\ clob[o] = "none" /\ o \notin known
      BY <1>2, <1>4, <2>1 DEF SubmitLive, Requests
    <3>5. post'[o] = IF ok THEN "sent" ELSE "none"
      BY <1>3, <1>4, <3>4 DEF SubmitLive
    <3> QED BY <1>2, <1>4, <2>1, <3>2, <3>3, <3>4, <3>5 DEF SubmitLive, Requests, Silent
  <2>2. CASE p # o
    <3>1. events'[p] = events[p] /\ post'[p] = post[p]
      BY <1>3, <1>4, <2>2 DEF SubmitLive
    <3> QED BY <1>2, <1>4, <3>1 DEF SubmitLive, Requests, Silent, Has
  <2> QED BY <2>1, <2>2
<1>5. ASSUME CreateReply(o) PROVE Requests(p)' /\ Silent(p)'
  <2>1. CASE post[o] = "taken"
    BY <1>0, <1>2, <1>3, <1>5, <2>1, Published DEF CreateReply, Requests, Silent
  <2>2. CASE post[o] = "refused"
    BY <1>0, <1>2, <1>3, <1>5, <2>2, Published DEF CreateReply, Requests, Silent
  <2> QED BY <1>5, <2>1, <2>2 DEF CreateReply
<1>6. ASSUME CreateRaises(o) PROVE Requests(p)' /\ Silent(p)'
  <2>1. Publish(o, "rejected")
    BY <1>6 DEF CreateRaises
  <2>2. CASE losses' = losses /\ post[o] = "sent" /\ post' = [post EXCEPT ![o] = "done"]
    BY <1>0, <1>2, <1>3, <1>6, <2>1, <2>2, Published DEF CreateRaises, Requests, Silent
  <2>3. CASE Misses(o, "lostReply")
    BY <1>0, <1>2, <1>3, <1>6, <2>1, <2>3, Published, LossAdded
       DEF CreateRaises, Requests, Silent, Lost, Losses
  <2> QED BY <1>6, <2>2, <2>3 DEF CreateRaises
<1>7. ASSUME HandleCancel(o) PROVE Requests(p)' /\ Silent(p)'
  <2>1. CASE o \in known
    BY <1>0, <1>2, <1>3, <1>7, <2>1 DEF HandleCancel, Requests, Silent, Has
  <2>2. CASE o \notin known /\ Misses(o, "blindCancel")
    <3>1. "blindCancel" \in losses'[o] /\ (\A q \in LiveOrders : losses[q] \subseteq losses'[q])
          /\ (\A q \in LiveOrders : q # o => losses'[q] = losses[q])
      BY <1>0, <2>2, LossAdded DEF Losses
    <3>2. /\ \A q \in LiveOrders : events'[q] = <<>> => events[q] = <<>>
          /\ \A q \in LiveOrders : Has(q, "rejected") => Has(q, "rejected")'
          /\ \A q \in LiveOrders : q # o => (Has(q, "rejected")' <=> Has(q, "rejected"))
                                         /\ (Has(q, "canceled")' <=> Has(q, "canceled"))
      BY <1>0, <1>7, <2>2, Published DEF HandleCancel
    <3>3. Requests(p)'
      BY <1>2, <1>3, <1>7, <2>2, <3>1, <3>2 DEF HandleCancel, Requests
    <3>4. Silent(p)'
      BY <1>2, <1>3, <1>7, <2>2, <3>1, <3>2 DEF HandleCancel, Silent, Lost
    <3> QED BY <3>3, <3>4
  <2>3. CASE o \notin known /\ losses' = losses /\ post[o] \notin {"sent", "taken"}
    BY <1>0, <1>2, <1>3, <1>7, <2>3, Published
       DEF HandleCancel, Requests, Silent, Lost, Losses, Posts
  <2> QED BY <1>7, <2>1, <2>2, <2>3 DEF HandleCancel
<1>8. ASSUME CancelReply(o) PROVE Requests(p)' /\ Silent(p)'
  <2>1. CASE delete[o] = "ok"
    BY <1>0, <1>2, <1>3, <1>8, <2>1, Published DEF CancelReply, Requests, Silent
  <2>2. CASE delete[o] # "ok"
    BY <1>0, <1>2, <1>3, <1>8, <2>2 DEF CancelReply, Requests, Silent, Has
  <2> QED BY <2>1, <2>2
<1>9. ASSUME AskCancel(o) \/ CancelRaises(o) PROVE Requests(p)' /\ Silent(p)'
  BY <1>0, <1>2, <1>3, <1>9 DEF AskCancel, CancelRaises, Requests, Silent, Has
<1> QED BY <1>4, <1>5, <1>6, <1>7, <1>8, <1>9

\* The venue's steps, and those of the channel.
LEMMA VenueEnds ==
  ASSUME EndInv, NEW o \in LiveOrders,
         \/ VenueTakes(o) \/ VenueRefuses(o) \/ VenueMatches(o) \/ VenueDeletes(o)
         \/ \E s \in {"CANCELED", "REJECTED"} : VenueDrops(o, s)
  PROVE  (\A p \in LiveOrders : Requests(p)' /\ Silent(p)') /\ Told'
<1> USE DEF EndInv
<1>1. /\ post \in [LiveOrders -> Posts] /\ delete \in [LiveOrders -> Deletes]
      /\ clob \in [LiveOrders -> AtVenue]
  BY DEF LiveTypeOK
<1>2. \A p \in LiveOrders : Requests(p) /\ Silent(p)
  OBVIOUS
<1>3. \A p \in LiveOrders : Requests(p)' /\ Silent(p)'
  <2> SUFFICES ASSUME NEW p \in LiveOrders PROVE Requests(p)' /\ Silent(p)'
    OBVIOUS
  <2>1. CASE VenueTakes(o)
    BY <1>1, <1>2, <2>1 DEF VenueTakes, Requests, Silent, Has, Lost
  <2>2. CASE VenueRefuses(o)
    BY <1>1, <1>2, <2>2 DEF VenueRefuses, Requests, Silent, Has
  <2>3. CASE VenueMatches(o)
    BY <1>1, <1>2, <2>3 DEF VenueMatches, Requests, Silent, Has
  <2>4. CASE VenueDeletes(o)
    BY <1>1, <1>2, <2>4 DEF VenueDeletes, Requests, Silent, Has
  <2>5. CASE \E s \in {"CANCELED", "REJECTED"} : VenueDrops(o, s)
    BY <1>1, <1>2, <2>5 DEF VenueDrops, Requests, Silent, Has
  <2> QED BY <2>1, <2>2, <2>3, <2>4, <2>5
<1>4. Told'
  <2>1. CASE VenueTakes(o)
    <3>1. \A p \in LiveOrders : clob[p] = "canceled" => clob'[p] = "canceled"
      BY <1>1, <1>2, <2>1 DEF VenueTakes, Requests
    <3> DEFINE t == <<Message("LIVE", o)>>
    <3>2. t \in Seq(Msgs) /\ \A j \in DOMAIN t : t[j].kind = "LIVE"
      BY DEF Message, Msgs, Status
    <3>3. Notify(t)
      BY <2>1 DEF VenueTakes
    <3> HIDE DEF t
    <3> QED BY <3>1, <3>2, <3>3, ToldGrows
  <2>2. CASE VenueRefuses(o)
    BY <2>2 DEF VenueRefuses, Told
  <2>3. CASE VenueMatches(o)
    <3>1. \A p \in LiveOrders : clob[p] = "canceled" => clob'[p] = "canceled"
      BY <1>1, <2>3 DEF VenueMatches
    <3> DEFINE t == <<Message("MATCHED", o), Message("TRADE", o)>>
    <3>2. t \in Seq(Msgs) /\ \A j \in DOMAIN t : t[j].kind \in {"MATCHED", "TRADE"}
      BY DEF Message, Msgs, Status
    <3>3. Notify(t)
      BY <2>3 DEF VenueMatches
    <3> HIDE DEF t
    <3> QED BY <3>1, <3>2, <3>3, ToldGrows
  <2>4. CASE VenueDeletes(o)
    <3>1. CASE clob[o] = "live"
      <4>1. \A p \in LiveOrders : clob[p] = "canceled" => clob'[p] = "canceled"
        BY <1>1, <2>4, <3>1 DEF VenueDeletes
      <4> DEFINE t == <<Message("CANCELED", o)>>
      <4>2. t \in Seq(Msgs) /\ (\A j \in DOMAIN t : t[j].o = o) /\ clob'[o] = "canceled"
        BY <1>1, <2>4, <3>1 DEF Message, Msgs, Status, VenueDeletes
      <4>3. Notify(t)
        BY <2>4, <3>1 DEF VenueDeletes
      <4> HIDE DEF t
      <4> QED BY <4>1, <4>2, <4>3, ToldGrows
    <3>2. CASE clob[o] # "live"
      BY <2>4, <3>2 DEF VenueDeletes, Told
    <3> QED BY <3>1, <3>2
  <2>5. ASSUME NEW s \in {"CANCELED", "REJECTED"}, VenueDrops(o, s) PROVE Told'
    <3>1. \A p \in LiveOrders : clob[p] = "canceled" => clob'[p] = "canceled"
      BY <1>1, <2>5 DEF VenueDrops
    <3> DEFINE t == <<Message(s, o)>>
    <3>2. t \in Seq(Msgs) /\ (\A j \in DOMAIN t : t[j].o = o) /\ clob'[o] = "canceled"
      BY <1>1, <2>5 DEF Message, Msgs, Status, VenueDrops
    <3>3. Notify(t)
      BY <2>5 DEF VenueDrops
    <3> HIDE DEF t
    <3> QED BY <3>1, <3>2, <3>3, ToldGrows
  <2> QED BY <2>1, <2>2, <2>3, <2>4, <2>5
<1> QED BY <1>3, <1>4

LEMMA ChannelEnds ==
  ASSUME EndInv, Deliver \/ DeliverRaises \/ Disconnect
  PROVE  (\A p \in LiveOrders : Requests(p)' /\ Silent(p)') /\ Told'
<1> USE DEF EndInv
<1>1. LiveTypeOK /\ \A p \in LiveOrders : Requests(p) /\ Silent(p)
  OBVIOUS
<1>2. CASE Deliver
  <2> DEFINE m == Head(ws)
  <2>1. ws # <<>> /\ m \in Msgs /\ m.o \in LiveOrders /\ ws' = Tail(ws)
    BY <1>1, <1>2, Delivered DEF Msgs
  <2>2. Told'
    <3>1. \A k \in DOMAIN ws' : k + 1 \in DOMAIN ws /\ ws'[k] = ws[k + 1]
      BY <1>1, <2>1 DEF LiveTypeOK
    <3>2. clob' = clob
      BY <1>1, <1>2, Delivered
    <3> QED BY <3>1, <3>2 DEF Told
  <2>3. /\ losses' = losses \/ Misses(m.o, "early") \/ Misses(m.o, "unread")
        /\ UNCHANGED <<post, delete, known, clob>>
    BY <1>1, <1>2, Delivered
  <2>4. \A p \in LiveOrders : /\ losses[p] \subseteq losses'[p]
                              /\ losses'[p] \intersect Lost = {} => losses[p] \intersect Lost = {}
    <3>1. {"early", "unread"} \subseteq Losses \ Lost
      BY DEF Losses, Lost
    <3> QED BY <1>1, <2>1, <2>3, <3>1, LossAdded
  <2>5. CASE events' = events
    BY <1>1, <2>3, <2>4, <2>5, <2>2 DEF Requests, Silent, Has
  <2>6. ASSUME NEW e \in Evs, Publish(m.o, e), m.o \in known,
               e \in {"rejected", "canceled"} => m.kind \in {"CANCELED", "REJECTED"}
        PROVE  \A p \in LiveOrders : Requests(p)' /\ Silent(p)'
    <3>1. /\ \A q \in LiveOrders : events'[q] = <<>> => events[q] = <<>>
          /\ \A q \in LiveOrders, x \in Evs : Has(q, x)' <=> Has(q, x) \/ (q = m.o /\ x = e)
          /\ "rejected" \in Evs /\ "canceled" \in Evs
      BY <1>1, <2>1, <2>6, Published DEF Evs
    <3>2. e \in {"rejected", "canceled"} => clob[m.o] = "canceled"
      <4>1. 1 \in DOMAIN ws /\ ws[1] = m
        BY <1>1, <2>1 DEF LiveTypeOK
      <4> QED BY <2>6, <4>1 DEF Told
    <3>3. post[m.o] = "done"
      BY <1>1, <2>1, <2>6 DEF Requests
    <3>4. \A p \in LiveOrders : Requests(p)'
      BY <1>1, <2>3, <2>4, <3>1 DEF Requests
    <3>5. \A p \in LiveOrders : Silent(p)'
      <4> SUFFICES ASSUME NEW p \in LiveOrders PROVE Silent(p)'
        OBVIOUS
      <4>1. Silent(p)
        BY <1>1
      <4>2. CASE p = m.o
        BY <2>3, <2>4, <3>1, <3>2, <3>3, <4>1, <4>2 DEF Silent
      <4>3. CASE p # m.o
        BY <2>3, <2>4, <3>1, <4>1, <4>3 DEF Silent
      <4> QED BY <4>2, <4>3
    <3> QED BY <3>4, <3>5
  <2>7. m.kind \in Status \union {"TRADE"} /\ EventOf(m.kind) # <<>>
        => (Head(EventOf(m.kind)) \in {"rejected", "canceled"}
              => m.kind \in {"CANCELED", "REJECTED"})
    BY DEF EventOf, Status
  <2> HIDE DEF m
  <2> QED BY <1>1, <1>2, <2>2, <2>5, <2>6, <2>7, Delivered DEF m
<1>3. CASE DeliverRaises \/ Disconnect
  <2>1. ws' = <<>> /\ UNCHANGED <<events, post, delete, known, clob>>
    BY <1>1, <1>3, Severed
  <2>2. Told'
    BY <2>1 DEF Told
  <2>3. \A p \in LiveOrders : /\ losses[p] \subseteq losses'[p]
                              /\ losses'[p] \intersect Lost = {} => losses[p] \intersect Lost = {}
    BY <1>1, <1>3, Severed
  <2>4. \A p \in LiveOrders : Requests(p)' /\ Silent(p)'
    BY <1>1, <2>1, <2>3 DEF Requests, Silent, Has
  <2> QED BY <2>2, <2>4
<1> QED BY <1>2, <1>3

LEMMA StepEnds == EndInv /\ [LiveNext]_liveVars => EndInv'
<1> SUFFICES ASSUME EndInv, [LiveNext]_liveVars PROVE EndInv'
  OBVIOUS
<1>1. LiveTypeOK'
  BY StepTypeOK DEF EndInv
<1>2. CASE LiveNext
  BY <1>1, <1>2, ClientEnds, VenueEnds, ChannelEnds DEF LiveNext, EndInv
<1>3. CASE UNCHANGED liveVars
  BY <1>1, <1>3 DEF liveVars, EndInv, Requests, Silent, Told, Has
<1> QED BY <1>2, <1>3

\* The variables keep their types, whatever the network does.
THEOREM LiveTypes == LiveSpec => []LiveTypeOK
<1>1. EndInv => LiveTypeOK
  BY DEF EndInv
<1> QED BY <1>1, InitEnds, StepEnds, PTL DEF LiveSpec

\* An order that works at the venue and has no name at the client is one
\* whose create reply was lost, and which the strategy was told is rejected:
\* losing the reply is the only way _order_id_map misses a working order.
THEOREM WorkingKnown == LiveSpec => []WorkingIsKnown
<1>1. EndInv => WorkingIsKnown
  BY DEF EndInv, Requests, WorkingIsKnown
<1> QED BY <1>1, InitEnds, StepEnds, PTL DEF LiveSpec

\* An order the strategy was told has ended does not work at the venue once
\* all about it is quiet, unless its create reply was lost or its cancel
\* overtook its create.
THEOREM EndedGone == LiveSpec => []EndedIsGone
<1>1. EndInv => EndedIsGone
  BY DEF EndInv, Silent, EndedIsGone, Lost
<1> QED BY <1>1, InitEnds, StepEnds, PTL DEF LiveSpec
-----------------------------------------------------------------------------
(* Matches and the fills reported *)

\* The messages about o that a client which knows o takes for a fill.
Tells(o) == {Message("TRADE", o)}
              \union (IF StatusNamesOrder THEN {Message("MATCHED", o)} ELSE {})

\* Fills of o published, reports of one on their way, and the most there may be.
ToldFills(o) == Cardinality(Hits(events[o], {"filled"}))
Coming(o) == Cardinality(Hits(ws, Tells(o)))
Most(o) == IF clob[o] # "matched" THEN 0 ELSE IF StatusNamesOrder THEN 2 ELSE 1

Counted(o) == ToldFills(o) + Coming(o) <= Most(o)

\* The ways a match may be missed.
Excuses == {"early", "dropped", "unread", "unmade"}

\* A match is reported, is about to be, or was missed.
Reported(o) ==
  UserChannel /\ clob[o] = "matched" /\ losses[o] \intersect Excuses = {}
    => Has(o, "filled") \/ \E k \in DOMAIN ws : ws[k] = Message("TRADE", o)

LiveFillInv == EndInv /\ \A o \in LiveOrders : Counted(o) /\ Reported(o)

LEMMA Counts ==
  ASSUME LiveTypeOK, NEW o \in LiveOrders
  PROVE  ToldFills(o) \in Nat /\ Coming(o) \in Nat /\ Most(o) \in Nat
                   /\ ToldFills(o) = EventCount(o, "filled")
<1>1. events[o] \in Seq(Evs) /\ ws \in Seq(Msgs)
  BY DEF LiveTypeOK, Evs
<1>2. ToldFills(o) \in Nat /\ Coming(o) \in Nat
  BY <1>1, HitsFinite DEF ToldFills, Coming
<1>3. Hits(events[o], {"filled"}) = {k \in DOMAIN events[o] : events[o][k] = "filled"}
  BY DEF Hits
<1> QED BY <1>2, <1>3 DEF ToldFills, EventCount, Most

\* Publishing counts a fill, and nothing else.
LEMMA FilledStep ==
  ASSUME LiveTypeOK, NEW o \in LiveOrders, NEW e \in Evs, Publish(o, e)
  PROVE  /\ ToldFills(o)' = ToldFills(o) + One(e, {"filled"})
         /\ \A p \in LiveOrders : p # o => ToldFills(p)' = ToldFills(p)
<1>1. events[o] \in Seq(Evs)
  BY DEF LiveTypeOK, Evs
<1>2. events'[o] = Append(events[o], e) /\ \A p \in LiveOrders : p # o => events'[p] = events[p]
  BY Published
<1>3. Cardinality(Hits(events'[o], {"filled"}))
        = Cardinality(Hits(events[o], {"filled"})) + One(e, {"filled"})
  BY <1>1, <1>2, CountAppend
<1> QED BY <1>2, <1>3 DEF ToldFills

\* A message that is put on the channel is counted if it reports a fill.
LEMMA ComingStep ==
  ASSUME LiveTypeOK, NEW o \in LiveOrders, NEW m \in Msgs, Notify(<<m>>)
  PROVE  Coming(o)' <= Coming(o) + One(m, Tells(o)) /\ Coming(o)' \in Nat
<1>1. ws \in Seq(Msgs) /\ Coming(o) \in Nat
  BY Counts DEF LiveTypeOK
<1>2. CASE UserChannel
  <2>1. ws' = Append(ws, m)
    BY <1>1, <1>2 DEF Notify
  <2>2. Coming(o)' = Coming(o) + One(m, Tells(o))
    BY <1>1, <2>1, CountAppend DEF Coming, Tells
  <2> QED BY <1>1, <2>2 DEF One
<1>3. CASE ~UserChannel
  <2>1. Coming(o)' = Coming(o)
    BY <1>3 DEF Notify, Coming, Tells
  <2> QED BY <1>1, <2>1 DEF One
<1> QED BY <1>2, <1>3

LEMMA InitFills == LiveInit => LiveFillInv
<1> SUFFICES ASSUME LiveInit PROVE LiveFillInv
  OBVIOUS
<1> SUFFICES ASSUME NEW o \in LiveOrders PROVE Counted(o) /\ Reported(o)
  BY InitEnds DEF LiveFillInv
<1>1. events[o] = <<>> /\ ws = <<>> /\ clob[o] = "none"
  BY DEF LiveInit
<1>2. Hits(events[o], {"filled"}) = {} /\ Hits(ws, Tells(o)) = {}
  BY <1>1 DEF Hits
<1>3. ToldFills(o) = 0 /\ Coming(o) = 0
  BY <1>2, FS_EmptySet DEF ToldFills, Coming
<1>4. Most(o) = 0
  BY <1>1 DEF Most
<1> QED BY <1>1, <1>3, <1>4 DEF Counted, Reported

\* The client's own steps.
LEMMA ClientFills ==
  ASSUME LiveFillInv, NEW o \in LiveOrders,
         \/ \E ok \in BOOLEAN : SubmitLive(o, ok)
         \/ CreateReply(o) \/ CreateRaises(o) \/ AskCancel(o)
         \/ HandleCancel(o) \/ CancelReply(o) \/ CancelRaises(o)
  PROVE  \A p \in LiveOrders : Counted(p)' /\ Reported(p)'
<1>1. LiveTypeOK /\ LiveTypeOK' /\ \A p \in LiveOrders : Counted(p) /\ Reported(p)
  <2>1. LiveNext
    BY DEF LiveNext
  <2> QED BY <2>1, StepTypeOK DEF LiveFillInv, EndInv
<1>2. ws' = ws /\ clob' = clob
  BY DEF SubmitLive, CreateReply, CreateRaises, AskCancel, HandleCancel, CancelReply,
     CancelRaises
<1>3. \A p \in LiveOrders : losses[p] \subseteq losses'[p]
  <2>1. losses' = losses \/ Misses(o, "lostReply") \/ Misses(o, "blindCancel")
    BY DEF SubmitLive, CreateReply, CreateRaises, AskCancel, HandleCancel, CancelReply,
       CancelRaises
  <2> QED BY <1>1, <2>1, LossAdded DEF Losses
<1>4. \A p \in LiveOrders : Coming(p)' = Coming(p) /\ Most(p)' = Most(p)
  BY <1>2 DEF Coming, Most, Tells
<1> SUFFICES ASSUME \A p \in LiveOrders : ToldFills(p)' <= ToldFills(p)
                                       /\ (Has(p, "filled") => Has(p, "filled")')
             PROVE  \A p \in LiveOrders : Counted(p)' /\ Reported(p)'
  <2>1. CASE \E ok \in BOOLEAN : SubmitLive(o, ok)
    <3>1. PICK ok \in BOOLEAN : SubmitLive(o, ok)
      BY <2>1
    <3>2. /\ events[o] = <<>>
          /\ events'[o] = IF ok THEN <<"submitted">> ELSE <<"submitted", "rejected">>
          /\ \A p \in LiveOrders : p # o => events'[p] = events[p]
      BY <1>1, <3>1 DEF SubmitLive, LiveTypeOK
    <3>3. Hits(events'[o], {"filled"}) = {} /\ ~Has(o, "filled")
      BY <3>2 DEF Hits, Has
    <3>4. ToldFills(o)' = 0
      BY <3>3, FS_EmptySet DEF ToldFills
    <3> QED BY <1>1, <3>2, <3>3, <3>4, Counts DEF ToldFills, Has
  <2>2. CASE UNCHANGED events
    BY <1>1, <2>2, Counts DEF ToldFills, Has
  <2>3. ASSUME NEW e \in {"accepted", "rejected", "canceled"}, Publish(o, e)
        PROVE  \A p \in LiveOrders : ToldFills(p)' <= ToldFills(p)
                                  /\ (Has(p, "filled") => Has(p, "filled")')
    <3>1. e \in Evs /\ One(e, {"filled"}) = 0 /\ "filled" \in Evs
      BY DEF Evs, One
    <3> QED BY <1>1, <2>3, <3>1, FilledStep, Published, Counts
  <2> QED BY <2>1, <2>2, <2>3 DEF CreateReply, CreateRaises, AskCancel, HandleCancel,
             CancelReply, CancelRaises
<1>5. \A p \in LiveOrders : ToldFills(p) \in Nat /\ ToldFills(p)' \in Nat /\ Coming(p) \in Nat
                              /\ Most(p) \in Nat
  <2> SUFFICES ASSUME NEW p \in LiveOrders
               PROVE  ToldFills(p) \in Nat /\ ToldFills(p)' \in Nat /\ Coming(p) \in Nat
                        /\ Most(p) \in Nat
    OBVIOUS
  <2>1. events'[p] \in Seq(Evs)
    BY <1>1 DEF LiveTypeOK, Evs
  <2>2. ToldFills(p)' \in Nat
    BY <2>1, HitsFinite DEF ToldFills
  <2> QED BY <1>1, <2>2, Counts
<1>6. \A p \in LiveOrders : Counted(p)'
  BY <1>1, <1>4, <1>5 DEF Counted
<1>7. \A p \in LiveOrders : Reported(p)'
  BY <1>1, <1>2, <1>3 DEF Reported
<1> QED BY <1>6, <1>7

\* The venue's steps.
LEMMA VenueFills ==
  ASSUME LiveFillInv, NEW o \in LiveOrders,
         \/ VenueTakes(o) \/ VenueRefuses(o) \/ VenueMatches(o) \/ VenueDeletes(o)
         \/ \E s \in {"CANCELED", "REJECTED"} : VenueDrops(o, s)
  PROVE  \A p \in LiveOrders : Counted(p)' /\ Reported(p)'
<1>1. /\ LiveTypeOK /\ \A p \in LiveOrders : Counted(p) /\ Reported(p) /\ Requests(p)
      /\ clob \in [LiveOrders -> AtVenue]
  BY DEF LiveFillInv, EndInv, LiveTypeOK
<1>2. events' = events /\ losses' = losses
  BY DEF VenueTakes, VenueRefuses, VenueMatches, VenueDeletes, VenueDrops
<1>3. \A p \in LiveOrders : /\ ToldFills(p)' = ToldFills(p) /\ (Has(p, "filled")' <=> Has(p, "filled"))
                            /\ ToldFills(p) \in Nat /\ Coming(p) \in Nat /\ Most(p) \in Nat
  BY <1>1, <1>2, Counts DEF ToldFills, Has
<1>4. ASSUME NEW s \in Status, s # "MATCHED", Notify(<<Message(s, o)>>), clob'[o] # "matched",
             \A p \in LiveOrders : p # o => clob'[p] = clob[p], clob[o] # "matched"
      PROVE  \A p \in LiveOrders : Counted(p)' /\ Reported(p)'
  <2> SUFFICES ASSUME NEW p \in LiveOrders PROVE Counted(p)' /\ Reported(p)'
    OBVIOUS
  <2>1. Message(s, o) \in Msgs /\ <<Message(s, o)>> \in Seq(Msgs)
    BY DEF Message, Msgs
  <2>2. One(Message(s, o), Tells(p)) = 0
    BY <1>4 DEF One, Tells, Message, Status
  <2>3. Coming(p)' <= Coming(p) /\ Coming(p)' \in Nat
    BY <1>1, <1>3, <1>4, <2>1, <2>2, ComingStep
  <2>4. Most(p)' = Most(p)
    BY <1>4 DEF Most
  <2>5. Counted(p)'
    BY <1>1, <1>3, <2>3, <2>4 DEF Counted
  <2>6. UserChannel => \A k \in DOMAIN ws : k \in DOMAIN ws' /\ ws'[k] = ws[k]
    BY <1>1, <1>4, <2>1, Notified
  <2>7. Reported(p)'
    BY <1>1, <1>2, <1>3, <1>4, <2>6 DEF Reported
  <2> QED BY <2>5, <2>7
<1>5. CASE VenueTakes(o)
  <2>1. /\ Notify(<<Message("LIVE", o)>>) /\ clob[o] = "none" /\ clob'[o] = "live"
        /\ \A p \in LiveOrders : p # o => clob'[p] = clob[p]
    BY <1>1, <1>5 DEF VenueTakes, Requests
  <2> QED BY <1>4, <2>1 DEF Status
<1>6. ASSUME ws' = ws, clob' = clob
      PROVE  \A p \in LiveOrders : Counted(p)' /\ Reported(p)'
  <2>1. \A p \in LiveOrders : Coming(p)' = Coming(p) /\ Most(p)' = Most(p)
    BY <1>6 DEF Coming, Tells, Most
  <2> QED BY <1>1, <1>2, <1>3, <1>6, <2>1 DEF Counted, Reported
<1>7. CASE VenueDeletes(o)
  <2>1. CASE clob[o] = "live"
    <3>1. /\ Notify(<<Message("CANCELED", o)>>) /\ clob'[o] = "canceled"
          /\ \A p \in LiveOrders : p # o => clob'[p] = clob[p]
      BY <1>1, <1>7, <2>1 DEF VenueDeletes
    <3> QED BY <1>4, <2>1, <3>1 DEF Status
  <2>2. CASE clob[o] # "live"
    BY <1>6, <1>7, <2>2 DEF VenueDeletes
  <2> QED BY <2>1, <2>2
<1>8. ASSUME NEW s \in {"CANCELED", "REJECTED"}, VenueDrops(o, s)
      PROVE  \A p \in LiveOrders : Counted(p)' /\ Reported(p)'
  <2>1. /\ Notify(<<Message(s, o)>>) /\ clob[o] = "live" /\ clob'[o] = "canceled"
        /\ \A p \in LiveOrders : p # o => clob'[p] = clob[p]
    BY <1>1, <1>8 DEF VenueDrops
  <2> QED BY <1>4, <2>1 DEF Status
<1>9. CASE VenueMatches(o)
  <2> DEFINE a == Message("MATCHED", o)
             b == Message("TRADE", o)
  <2>0. /\ clob[o] = "live" /\ clob'[o] = "matched"
        /\ \A p \in LiveOrders : p # o => clob'[p] = clob[p]
        /\ Notify(<<a, b>>)
    BY <1>1, <1>9 DEF VenueMatches
  <2>1. a \in Msgs /\ b \in Msgs /\ a # b /\ <<a, b>> \in Seq(Msgs)
    BY DEF Message, Msgs, Status
  <2>2. ws \in Seq(Msgs)
    BY <1>1 DEF LiveTypeOK
  <2> SUFFICES ASSUME NEW p \in LiveOrders PROVE Counted(p)' /\ Reported(p)'
    OBVIOUS
  <2>3. One(a, Tells(p)) = (IF p = o /\ StatusNamesOrder THEN 1 ELSE 0)
        /\ One(b, Tells(p)) = (IF p = o THEN 1 ELSE 0)
    BY ChannelAssumption DEF One, Tells, Message
  <2>4. Coming(p)' \in Nat
        /\ Coming(p)' <= Coming(p) + One(a, Tells(p)) + One(b, Tells(p))
    <3>1. CASE UserChannel
      <4>1. ws' = Append(Append(ws, a), b) /\ Append(ws, a) \in Seq(Msgs)
        <5>1. ws' = ws \o <<a, b>>
          BY <2>0, <3>1 DEF Notify
        <5> HIDE DEF a, b
        <5> QED BY <2>1, <2>2, <5>1
      <4>2. Coming(p)' = Cardinality(Hits(Append(ws, a), Tells(p))) + One(b, Tells(p))
        <5>1. Coming(p)' = Cardinality(Hits(ws', Tells(p)))
          BY DEF Coming, Tells
        <5> HIDE DEF a, b
        <5>2. Cardinality(Hits(Append(Append(ws, a), b), Tells(p)))
                = Cardinality(Hits(Append(ws, a), Tells(p))) + One(b, Tells(p))
          BY <2>1, <4>1, CountAppend
        <5> QED BY <4>1, <5>1, <5>2
      <4>3. Cardinality(Hits(Append(ws, a), Tells(p))) = Coming(p) + One(a, Tells(p))
        <5> HIDE DEF a, b
        <5> QED BY <2>1, <2>2, CountAppend DEF Coming
      <4> QED BY <1>3, <2>3, <4>2, <4>3
    <3>2. CASE ~UserChannel
      <4>1. Coming(p)' = Coming(p)
        BY <2>0, <3>2 DEF Notify, Coming, Tells
      <4> QED BY <1>3, <2>3, <4>1
    <3> QED BY <3>1, <3>2
  <2>5. CASE p = o
    <3>1. Most(p) = 0 /\ Most(p)' = IF StatusNamesOrder THEN 2 ELSE 1
      BY <2>0, <2>5 DEF Most
    <3>2. ToldFills(p) + Coming(p) <= 0
      BY <1>1, <3>1 DEF Counted
    <3>3. ToldFills(p)' + Coming(p)' <= Most(p)'
      BY <1>3, <2>3, <2>4, <2>5, <3>1, <3>2
    <3>4. UserChannel => \E k \in DOMAIN ws' : ws'[k] = b
      <4>1. 2 \in DOMAIN <<a, b>> /\ <<a, b>>[2] = b
        OBVIOUS
      <4> HIDE DEF a, b
      <4> QED BY <1>1, <2>0, <2>1, <4>1, Notified
    <3>5. Reported(p)'
      BY <2>5, <3>4 DEF Reported
    <3> QED BY <3>3, <3>5 DEF Counted
  <2>6. CASE p # o
    <3>1. Most(p)' = Most(p)
      BY <2>0, <2>6 DEF Most
    <3>2. Counted(p)'
      BY <1>1, <1>3, <2>3, <2>4, <2>6, <3>1 DEF Counted
    <3>3. UserChannel => \A k \in DOMAIN ws : k \in DOMAIN ws' /\ ws'[k] = ws[k]
      <4> HIDE DEF a, b
      <4> QED BY <1>1, <2>0, <2>1, Notified
    <3>4. Reported(p)'
      BY <1>1, <1>2, <1>3, <2>0, <2>6, <3>3 DEF Reported
    <3> QED BY <3>2, <3>4
  <2> QED BY <2>5, <2>6
<1>10. CASE VenueRefuses(o)
  BY <1>6, <1>10 DEF VenueRefuses
<1> QED BY <1>5, <1>7, <1>8, <1>9, <1>10

LEMMA DeliverFills ==
  ASSUME LiveFillInv, Deliver
  PROVE  \A p \in LiveOrders : Counted(p)' /\ Reported(p)'
<1> DEFINE m == Head(ws)
<1>1. /\ LiveTypeOK /\ \A p \in LiveOrders : Counted(p) /\ Reported(p)
      /\ ws \in Seq(Msgs)
  BY DEF LiveFillInv, EndInv, LiveTypeOK
<1>2. ws # <<>> /\ m \in Msgs /\ m.o \in LiveOrders /\ ws' = Tail(ws) /\ ws' \in Seq(Msgs)
  BY <1>1, Delivered DEF Msgs
<1>3. /\ clob' = clob
      /\ losses' = losses \/ Misses(m.o, "early") \/ Misses(m.o, "unread")
  BY <1>1, Delivered
<1>4. \A p \in LiveOrders : losses[p] \subseteq losses'[p]
  BY <1>1, <1>2, <1>3, LossAdded DEF Losses
<1>5. \A p \in LiveOrders : /\ ToldFills(p) \in Nat /\ Coming(p) \in Nat /\ Most(p) \in Nat
                            /\ Most(p)' = Most(p)
  BY <1>1, <1>3, Counts DEF Most
<1>6. \A p \in LiveOrders : /\ Coming(p)' \in Nat
                            /\ Coming(p) = Coming(p)' + One(m, Tells(p))
  <2> SUFFICES ASSUME NEW p \in LiveOrders
               PROVE  Coming(p)' \in Nat /\ Coming(p) = Coming(p)' + One(m, Tells(p))
    OBVIOUS
  <2>1. Coming(p)' = Cardinality(Hits(Tail(ws), Tells(p)))
    BY <1>2 DEF Coming, Tells
  <2>2. Cardinality(Hits(ws, Tells(p)))
          = Cardinality(Hits(Tail(ws), Tells(p))) + One(Head(ws), Tells(p))
    BY <1>1, <1>2, CountTail
  <2>3. Cardinality(Hits(Tail(ws), Tells(p))) \in Nat
    BY <1>1, <1>2, HitsFinite
  <2> QED BY <2>1, <2>2, <2>3 DEF Coming
<1>7. \A k \in DOMAIN ws : ws[k] = m \/ \E j \in DOMAIN ws' : ws'[j] = ws[k]
  <2> SUFFICES ASSUME NEW k \in DOMAIN ws, ws[k] # m
               PROVE  \E j \in DOMAIN ws' : ws'[j] = ws[k]
    OBVIOUS
  <2>1. k # 1 /\ k - 1 \in DOMAIN ws' /\ ws'[k - 1] = ws[k]
    BY <1>1, <1>2
  <2> QED BY <2>1
<1>8. \A p \in LiveOrders : One(m, Tells(p)) \in {0, 1}
                         /\ (p # m.o => One(m, Tells(p)) = 0)
                         /\ (p # m.o => m # Message("TRADE", p))
  BY <1>2 DEF One, Tells, Message, Msgs
<1>9. CASE events' = events
  <2>1. \A p \in LiveOrders : ToldFills(p)' = ToldFills(p) /\ (Has(p, "filled")' <=> Has(p, "filled"))
    BY <1>9 DEF ToldFills, Has
  <2>2. \A p \in LiveOrders : Counted(p)'
    BY <1>1, <1>5, <1>6, <1>8, <2>1 DEF Counted
  <2>3. m = Message("TRADE", m.o) => losses'[m.o] \intersect Excuses # {}
    <3>1. ASSUME m = Message("TRADE", m.o)
          PROVE  Misses(m.o, "early") \/ Misses(m.o, "unread")
      <4>1. m.kind = "TRADE"
        BY <3>1 DEF Message
      <4> QED BY <1>1, <1>9, <4>1, Silence
    <3>2. \A way \in {"early", "unread"} :
            Misses(m.o, way) => way \in losses'[m.o]
      BY <1>1, <1>2, LossAdded DEF Losses
    <3> QED BY <3>1, <3>2 DEF Excuses
  <2>4. ASSUME NEW p \in LiveOrders PROVE Reported(p)'
    <3>1. CASE m = Message("TRADE", p)
      <4>1. p = m.o
        BY <3>1 DEF Message
      <4> QED BY <2>3, <3>1, <4>1 DEF Reported
    <3>2. CASE m # Message("TRADE", p)
      <4> HIDE DEF m
      <4> QED BY <1>1, <1>3, <1>4, <1>7, <2>1, <3>2 DEF Reported
    <3> QED BY <3>1, <3>2
  <2> QED BY <2>2, <2>4
<1>10. ASSUME NEW e \in Evs, Publish(m.o, e),
              e = "filled" => One(m, Tells(m.o)) = 1,
              m = Message("TRADE", m.o) => e = "filled"
       PROVE  \A p \in LiveOrders : Counted(p)' /\ Reported(p)'
  <2> SUFFICES ASSUME NEW p \in LiveOrders PROVE Counted(p)' /\ Reported(p)'
    OBVIOUS
  <2>1. ToldFills(p)' <= ToldFills(p) + One(m, Tells(p)) /\ ToldFills(p)' \in Nat
    <3>1. CASE p = m.o
      <4>1. ToldFills(p)' = ToldFills(p) + One(e, {"filled"})
        BY <1>1, <1>2, <1>10, <3>1, FilledStep
      <4>2. One(e, {"filled"}) = IF e = "filled" THEN 1 ELSE 0
        BY DEF One
      <4> QED BY <1>5, <1>8, <1>10, <3>1, <4>1, <4>2
    <3>2. CASE p # m.o
      <4>1. ToldFills(p)' = ToldFills(p)
        BY <1>1, <1>2, <1>10, <3>2, FilledStep
      <4> QED BY <1>5, <1>8, <3>2, <4>1
    <3> QED BY <3>1, <3>2
  <2>2. One(m, Tells(p)) \in {0, 1}
    BY <1>8
  <2>3. Counted(p)'
    BY <1>1, <1>5, <1>6, <2>1, <2>2 DEF Counted
  <2>4. Has(p, "filled")' <=> Has(p, "filled") \/ (p = m.o /\ e = "filled")
    BY <1>1, <1>2, <1>10, Published DEF Evs
  <2>5. CASE m = Message("TRADE", p)
    <3>1. p = m.o
      BY <2>5 DEF Message
    <3> QED BY <1>10, <2>3, <2>4, <2>5, <3>1 DEF Reported
  <2>6. CASE m # Message("TRADE", p)
    <3> HIDE DEF m
    <3>1. Reported(p)'
      BY <1>1, <1>3, <1>4, <1>7, <2>4, <2>6 DEF Reported
    <3> QED BY <2>3, <3>1
  <2> QED BY <2>5, <2>6
<1>11. ASSUME EventOf(m.kind) # <<>>
       PROVE  /\ Head(EventOf(m.kind)) = "filled" => One(m, Tells(m.o)) = 1
              /\ m = Message("TRADE", m.o) => Head(EventOf(m.kind)) = "filled"
  <2>1. m.kind \in Status \union {"TRADE"} /\ m = Message(m.kind, m.o)
    BY <1>2 DEF Msgs, Message
  <2>2. Head(EventOf(m.kind)) = "filled"
          => m.kind = "TRADE" \/ (m.kind = "MATCHED" /\ StatusNamesOrder)
    BY <1>11, <2>1, ChannelAssumption DEF EventOf, Status
  <2>3. m.kind = "TRADE" \/ (m.kind = "MATCHED" /\ StatusNamesOrder) => m \in Tells(m.o)
    BY <2>1 DEF Tells
  <2>4. m = Message("TRADE", m.o) => m.kind = "TRADE"
    BY DEF Message
  <2>5. m.kind = "TRADE" => Head(EventOf(m.kind)) = "filled"
    BY DEF EventOf
  <2> QED BY <2>2, <2>3, <2>4, <2>5 DEF One
<1> QED BY <1>1, <1>9, <1>10, <1>11, Delivered

LEMMA SeveredFills ==
  ASSUME LiveFillInv, DeliverRaises \/ Disconnect
  PROVE  \A p \in LiveOrders : Counted(p)' /\ Reported(p)'
<1> SUFFICES ASSUME NEW p \in LiveOrders PROVE Counted(p)' /\ Reported(p)'
  OBVIOUS
<1>1. LiveTypeOK /\ Counted(p) /\ Reported(p)
  BY DEF LiveFillInv, EndInv
<1>2. /\ events' = events /\ clob' = clob /\ ws' = <<>>
      /\ losses[p] \subseteq losses'[p]
      /\ (\E k \in DOMAIN ws : ws[k] = Message("TRADE", p))
           => losses'[p] \intersect {"dropped", "unmade"} # {}
  BY <1>1, Severed
<1>3. Coming(p)' = 0
  <2>1. Hits(ws', Tells(p)) = {}
    BY <1>2 DEF Hits
  <2> QED BY <2>1, FS_EmptySet DEF Coming, Tells
<1>4. ToldFills(p)' = ToldFills(p) /\ Most(p)' = Most(p) /\ (Has(p, "filled")' <=> Has(p, "filled"))
  BY <1>2 DEF ToldFills, Most, Has
<1>5. Counted(p)'
  BY <1>1, <1>3, <1>4, Counts DEF Counted
<1>6. Reported(p)'
  BY <1>1, <1>2, <1>4 DEF Reported, Excuses
<1> QED BY <1>5, <1>6

LEMMA StepFills == LiveFillInv /\ [LiveNext]_liveVars => LiveFillInv'
<1> SUFFICES ASSUME LiveFillInv, [LiveNext]_liveVars PROVE LiveFillInv'
  OBVIOUS
<1>1. EndInv'
  BY StepEnds DEF LiveFillInv
<1>2. CASE LiveNext
  BY <1>1, <1>2, ClientFills, VenueFills, DeliverFills, SeveredFills
     DEF LiveNext, LiveFillInv
<1>3. CASE UNCHANGED liveVars
  BY <1>1, <1>3 DEF liveVars, LiveFillInv, Counted, Reported, ToldFills, Coming, Tells, Most, Has
<1> QED BY <1>2, <1>3

\* With a user channel that drops no report of an order, tells none before the
\* client has a name for it, and whose trades are readable and can be made into
\* an event, a match at the venue reaches the strategy as
\* a fill; and no order is ever reported filled more often than the channel
\* names its match, nor one that was not matched at all.
THEOREM FillsMatched == LiveSpec => []FillsMatch
<1>1. LiveFillInv => FillsMatch
  <2> SUFFICES ASSUME LiveFillInv, NEW o \in LiveOrders
               PROVE  /\ UserChannel /\ Quiet(o) /\ clob[o] = "matched"
                           /\ losses[o] \intersect Excuses = {}
                           => Has(o, "filled")
                      /\ EventCount(o, "filled") <= IF clob[o] # "matched" THEN 0
                                                    ELSE IF StatusNamesOrder THEN 2 ELSE 1
    BY DEF FillsMatch, MatchIsReported, FillsCounted, Excuses
  <2>1. LiveTypeOK /\ Counted(o) /\ Reported(o)
    BY DEF LiveFillInv, EndInv
  <2>2. EventCount(o, "filled") <= Most(o)
    BY <2>1, Counts DEF Counted
  <2>3. UserChannel /\ Quiet(o) /\ clob[o] = "matched"
          /\ losses[o] \intersect Excuses = {} => Has(o, "filled")
    BY <2>1 DEF Reported, Quiet, Message
  <2> QED BY <2>2, <2>3 DEF Most
<1> QED BY <1>1, InitFills, StepFills, PTL DEF LiveSpec

-----------------------------------------------------------------------------
(* The histories of an order without the user channel *)

\* How far the live path strays from the lives of OrderLife as it is shipped,
\* without the user channel: no fill is ever published, and the histories no
\* paper order has are the four of a cancel that was handled while the order
\* had no id.  Of those the one that ends with the acceptance is of an order
\* that was taken under a cancel that was never sent.
Overtaken == {<<"submitted", "canceled">>, <<"submitted", "canceled", "accepted">>,
              <<"submitted", "canceled", "rejected">>, <<"submitted", "rejected", "canceled">>}
ShippedLives ==
  ~UserChannel =>
    \A o \in LiveOrders :
      /\ events[o] \in (Life!Lives \ {Life!Filled}) \union Overtaken
      /\ events[o] = <<"submitted", "canceled", "accepted">> => "blindCancel" \in losses[o]

Asked == <<"submitted">>
Refused == <<"submitted", "rejected">>
Working == <<"submitted", "accepted">>
Over == <<"submitted", "accepted", "canceled">>
Early == <<"submitted", "canceled">>
Stray == <<"submitted", "canceled", "accepted">>
Spent == <<"submitted", "canceled", "rejected">>
Late == <<"submitted", "rejected", "canceled">>

\* How far the requests of an order are at each of its histories.
Course(o) ==
  \/ events[o] = <<>> /\ post[o] = "none" /\ delete[o] = "none" /\ o \notin known
  \/ /\ events[o] = Asked /\ post[o] \in {"sent", "taken", "refused"}
     /\ delete[o] \in {"none", "asked"} /\ o \notin known
  \/ /\ events[o] = Refused /\ post[o] \in {"none", "adrift", "done"}
     /\ delete[o] \in {"none", "asked"} /\ o \notin known
  \/ events[o] = Working /\ post[o] = "done" /\ o \in known
  \/ events[o] = Over /\ post[o] = "done" /\ delete[o] = "done" /\ o \in known
  \/ /\ events[o] = Early /\ post[o] \in {"sent", "taken", "refused"}
     /\ delete[o] = "done" /\ o \notin known
     /\ post[o] # "refused" => "blindCancel" \in losses[o]
  \/ /\ events[o] = Stray /\ post[o] = "done" /\ delete[o] = "done" /\ o \in known
     /\ "blindCancel" \in losses[o]
  \/ /\ events[o] \in {Spent, Late} /\ post[o] \in {"none", "adrift", "done"}
     /\ delete[o] = "done" /\ o \notin known

ShippedInv == LiveTypeOK /\ (~UserChannel => ws = <<>> /\ \A o \in LiveOrders : Course(o))

\* A sequence with one element more, element by element.
LEMMA Longer ==
  ASSUME NEW S, NEW s \in Seq(S), NEW x \in S, NEW g, g = Append(s, x)
  PROVE  /\ g \in Seq(S) /\ Len(g) = Len(s) + 1
         /\ \A i \in 1..Len(s) : g[i] = s[i]
         /\ g[Len(s) + 1] = x
BY AppendProperties

\* A history with one event more.
LEMMA OneMore ==
  ASSUME NEW a, NEW b, NEW c
  PROVE  Append(<<a>>, b) = <<a, b>> /\ Append(<<a, b>>, c) = <<a, b, c>>
<1> DEFINE S == {a, b, c}
           one == <<a>>
           two == <<a, b>>
           three == <<a, b, c>>
<1>1. a \in S /\ b \in S /\ c \in S
  OBVIOUS
<1> HIDE DEF S
<1>2. one \in Seq(S) /\ Len(one) = 1 /\ one[1] = a
  BY <1>1
<1>3. two \in Seq(S) /\ Len(two) = 2 /\ two[1] = a /\ two[2] = b
  BY <1>1
<1>4. three \in Seq(S) /\ Len(three) = 3 /\ three[1] = a /\ three[2] = b /\ three[3] = c
  BY <1>1
<1> HIDE DEF one, two, three
<1> DEFINE second == Append(one, b)
           third == Append(two, c)
<1>10. second = Append(one, b) /\ third = Append(two, c)
  OBVIOUS
<1> HIDE DEF second, third
<1>5. second \in Seq(S) /\ Len(second) = 2 /\ second[1] = a /\ second[2] = b
  <2>1. /\ second \in Seq(S) /\ Len(second) = Len(one) + 1
        /\ \A i \in 1..Len(one) : second[i] = one[i]
        /\ second[Len(one) + 1] = b
    BY <1>1, <1>2, <1>10, Longer
  <2>2. 1 \in 1..Len(one) /\ Len(one) + 1 = 2
    BY <1>2
  <2> QED BY <1>2, <2>1, <2>2
<1>6. third \in Seq(S) /\ Len(third) = 3 /\ third[1] = a /\ third[2] = b /\ third[3] = c
  <2>1. /\ third \in Seq(S) /\ Len(third) = Len(two) + 1
        /\ \A i \in 1..Len(two) : third[i] = two[i]
        /\ third[Len(two) + 1] = c
    BY <1>1, <1>3, <1>10, Longer
  <2>2. 1 \in 1..Len(two) /\ 2 \in 1..Len(two) /\ Len(two) + 1 = 3
    BY <1>3
  <2>3. third[1] = a /\ third[2] = b
    BY <1>3, <2>1, <2>2
  <2>4. third[3] = c /\ Len(third) = 3
    BY <2>1, <2>2
  <2> QED BY <2>1, <2>3, <2>4
<1>7. second = two
  <2>1. \A i \in 1..2 : second[i] = two[i]
    <3>1. second[1] = two[1] /\ second[2] = two[2]
      BY <1>3, <1>5
    <3> QED BY <3>1
  <2> QED BY <1>3, <1>5, <2>1, SeqEqual
<1>8. third = three
  <2>1. \A i \in 1..3 : third[i] = three[i]
    <3>1. third[1] = three[1] /\ third[2] = three[2] /\ third[3] = three[3]
      BY <1>4, <1>6
    <3> QED BY <3>1
  <2> QED BY <1>4, <1>6, <2>1, SeqEqual
<1> QED BY <1>7, <1>8, <1>10 DEF one, two, three

\* Each history grows into the next.
LEMMA HistoriesGrow ==
  /\ Append(Asked, "rejected") = Refused /\ Append(Asked, "accepted") = Working
  /\ Append(Asked, "canceled") = Early /\ Append(Working, "canceled") = Over
  /\ Append(Early, "accepted") = Stray /\ Append(Early, "rejected") = Spent
  /\ Append(Refused, "canceled") = Late
BY OneMore, Zenon DEF Asked, Refused, Working, Over, Early, Stray, Spent, Late

\* An order nothing happened to keeps its course.
LEMMA SameCourse ==
  ASSUME NEW o \in LiveOrders, Course(o), events'[o] = events[o], post'[o] = post[o],
         delete'[o] = delete[o], o \in known' <=> o \in known, losses[o] \subseteq losses'[o]
  PROVE  Course(o)'
BY DEF Course

LEMMA InitShipped == LiveInit => ShippedInv
<1> SUFFICES ASSUME LiveInit PROVE ShippedInv
  OBVIOUS
<1>1. LiveTypeOK
  BY InitTypeOK
<1>2. ws = <<>> /\ \A o \in LiveOrders : Course(o)
  BY DEF LiveInit, Course
<1> QED BY <1>1, <1>2 DEF ShippedInv

\* Each action moves one order along its course, and tells the channel nothing.
LEMMA StepCourse ==
  ASSUME ShippedInv, ~UserChannel, NEW o \in LiveOrders,
         \/ \E ok \in BOOLEAN : SubmitLive(o, ok)
         \/ CreateReply(o) \/ CreateRaises(o)
         \/ AskCancel(o) \/ HandleCancel(o) \/ CancelReply(o) \/ CancelRaises(o)
         \/ VenueTakes(o) \/ VenueRefuses(o) \/ VenueMatches(o)
         \/ \E s \in {"CANCELED", "REJECTED"} : VenueDrops(o, s)
         \/ VenueDeletes(o)
  PROVE  ws' = <<>> /\ \A p \in LiveOrders : Course(p)'
<1>1. LiveTypeOK /\ ws = <<>> /\ \A p \in LiveOrders : Course(p)
  BY DEF ShippedInv
<1>2. /\ events \in [LiveOrders -> Seq(Evs)] /\ post \in [LiveOrders -> Posts]
      /\ delete \in [LiveOrders -> Deletes] /\ losses \in [LiveOrders -> SUBSET Losses]
  BY <1>1 DEF LiveTypeOK, Evs
<1>3. ASSUME ws' = <<>>, Course(o)',
             \A p \in LiveOrders : p # o =>
               /\ events'[p] = events[p] /\ post'[p] = post[p] /\ delete'[p] = delete[p]
               /\ p \in known' <=> p \in known
               /\ losses[p] \subseteq losses'[p]
      PROVE  ws' = <<>> /\ \A p \in LiveOrders : Course(p)'
  BY <1>1, <1>3, SameCourse
<1>4. \A t : Notify(t) => ws' = <<>>
  BY <1>1 DEF Notify
<1>5. ASSUME NEW e \in Evs, Publish(o, e)
      PROVE  /\ events'[o] = Append(events[o], e)
             /\ \A p \in LiveOrders : p # o => events'[p] = events[p]
  BY <1>1, <1>5, Published
<1>6. \A way \in Losses : Misses(o, way) =>
        /\ way \in losses'[o]
        /\ \A p \in LiveOrders : losses[p] \subseteq losses'[p]
  BY <1>1, LossAdded
<1>7. Refused # <<>> /\ Asked # <<>> /\ Working # <<>> /\ Over # <<>> /\ Early # <<>>
      /\ Stray # <<>> /\ Spent # <<>> /\ Late # <<>>
  BY DEF Asked, Refused, Working, Over, Early, Stray, Spent, Late
<1>8. ASSUME NEW ok \in BOOLEAN, SubmitLive(o, ok)
      PROVE  ws' = <<>> /\ \A p \in LiveOrders : Course(p)'
  <2>1. post[o] = "none" /\ delete[o] = "none" /\ o \notin known
    BY <1>1, <1>7, <1>8 DEF Course, SubmitLive
  <2>2. Course(o)'
    BY <1>2, <1>8, <2>1 DEF Course, SubmitLive, Asked, Refused
  <2> QED BY <1>1, <1>2, <1>3, <1>8, <2>2 DEF SubmitLive
<1>9. CASE CreateReply(o)
  <2>1. /\ \/ events[o] = Asked /\ delete[o] \in {"none", "asked"}
           \/ events[o] = Early /\ delete[o] = "done"
              /\ (post[o] = "taken" => "blindCancel" \in losses[o])
        /\ o \notin known
    BY <1>1, <1>9 DEF Course, CreateReply
  <2>2. CASE post[o] = "taken"
    <3>1. Publish(o, "accepted") /\ known' = known \union {o}
      BY <1>9, <2>2 DEF CreateReply
    <3>2. events'[o] \in {Working, Stray} /\ (events'[o] = Working \/ delete[o] = "done")
          /\ (events'[o] = Working \/ "blindCancel" \in losses[o])
      BY <1>5, <2>1, <2>2, <3>1, HistoriesGrow DEF Evs
    <3>3. Course(o)'
      BY <1>2, <1>9, <3>1, <3>2 DEF Course, CreateReply
    <3> QED BY <1>2, <1>3, <1>5, <1>1, <1>9, <3>1, <3>3 DEF CreateReply, Evs
  <2>3. CASE post[o] = "refused"
    <3>1. Publish(o, "rejected") /\ known' = known
      BY <1>9, <2>3 DEF CreateReply
    <3>2. \/ events'[o] = Refused /\ delete[o] \in {"none", "asked"}
          \/ events'[o] = Spent /\ delete[o] = "done"
      BY <1>5, <2>1, <3>1, HistoriesGrow DEF Evs
    <3>3. Course(o)'
      BY <1>2, <1>9, <2>1, <3>1, <3>2 DEF Course, CreateReply
    <3> QED BY <1>2, <1>3, <1>5, <1>1, <1>9, <3>1, <3>3 DEF CreateReply, Evs
  <2> QED BY <1>9, <2>2, <2>3 DEF CreateReply
<1>10. CASE CreateRaises(o)
  <2>1. /\ \/ events[o] = Asked /\ delete[o] \in {"none", "asked"}
           \/ events[o] = Early /\ delete[o] = "done"
        /\ o \notin known
    BY <1>1, <1>10 DEF Course, CreateRaises
  <2>2. Publish(o, "rejected") /\ known' = known /\ delete' = delete /\ ws' = ws
    BY <1>10 DEF CreateRaises
  <2>3. \/ events'[o] = Refused /\ delete[o] \in {"none", "asked"}
        \/ events'[o] = Spent /\ delete[o] = "done"
    BY <1>5, <2>1, <2>2, HistoriesGrow DEF Evs
  <2>4. /\ post'[o] \in {"done", "adrift"}
        /\ \A p \in LiveOrders : p # o => post'[p] = post[p]
    BY <1>2, <1>10 DEF CreateRaises
  <2>5. Course(o)'
    BY <2>1, <2>2, <2>3, <2>4 DEF Course
  <2>6. losses' = losses \/ Misses(o, "lostReply")
    BY <1>10 DEF CreateRaises
  <2>7. \A p \in LiveOrders : losses[p] \subseteq losses'[p]
    BY <1>6, <2>6 DEF Losses
  <2> QED BY <1>1, <1>3, <1>5, <2>2, <2>4, <2>5, <2>7 DEF Evs
<1>11. CASE AskCancel(o)
  <2>1. Course(o)'
    BY <1>1, <1>2, <1>11 DEF Course, AskCancel
  <2> QED BY <1>1, <1>2, <1>3, <1>11, <2>1 DEF AskCancel
<1>12. CASE HandleCancel(o)
  <2>1. CASE o \in known
    <3>1. Course(o)'
      BY <1>1, <1>2, <1>12, <2>1 DEF Course, HandleCancel
    <3> QED BY <1>1, <1>2, <1>3, <1>12, <2>1, <3>1 DEF HandleCancel
  <2>2. CASE o \notin known
    <3>1. /\ Publish(o, "canceled") /\ post' = post /\ known' = known /\ ws' = ws
          /\ delete' = [delete EXCEPT ![o] = "done"]
          /\ IF post[o] \in {"sent", "taken"} THEN Misses(o, "blindCancel") ELSE losses' = losses
      BY <1>12, <2>2 DEF HandleCancel
    <3>2. \/ events[o] = Asked /\ post[o] \in {"sent", "taken", "refused"}
          \/ events[o] = Refused /\ post[o] \in {"none", "adrift", "done"}
      BY <1>1, <1>12, <2>2 DEF Course, HandleCancel
    <3>3. \/ events'[o] = Early /\ post[o] \in {"sent", "taken", "refused"}
          \/ events'[o] = Late /\ post[o] \in {"none", "adrift", "done"}
      BY <1>5, <3>1, <3>2, HistoriesGrow DEF Evs
    <3>4. /\ post[o] \in {"sent", "taken"} => "blindCancel" \in losses'[o]
          /\ \A p \in LiveOrders : losses[p] \subseteq losses'[p]
      BY <1>6, <3>1 DEF Losses
    <3>5. delete'[o] = "done" /\ \A p \in LiveOrders : p # o => delete'[p] = delete[p]
      BY <1>2, <3>1
    <3>6. Course(o)'
      BY <2>2, <3>1, <3>3, <3>4, <3>5 DEF Course
    <3> QED BY <1>1, <1>3, <1>5, <3>1, <3>4, <3>5, <3>6 DEF Evs
  <2> QED BY <2>1, <2>2
<1>13. CASE CancelReply(o)
  <2>1. events[o] = Working /\ post[o] = "done" /\ o \in known
    BY <1>1, <1>13 DEF Course, CancelReply
  <2>2. delete'[o] = "done" /\ \A p \in LiveOrders : p # o => delete'[p] = delete[p]
    BY <1>2, <1>13 DEF CancelReply
  <2>3. Publish(o, "canceled") \/ events' = events
    BY <1>13 DEF CancelReply
  <2>4. /\ events'[o] \in {Working, Over}
        /\ \A p \in LiveOrders : p # o => events'[p] = events[p]
    BY <1>5, <2>1, <2>3, HistoriesGrow DEF Evs
  <2>5. Course(o)'
    BY <1>13, <2>1, <2>2, <2>4 DEF Course, CancelReply
  <2> QED BY <1>1, <1>3, <1>13, <2>2, <2>4, <2>5 DEF CancelReply
<1>14. CASE CancelRaises(o)
  <2>1. Course(o)'
    BY <1>1, <1>2, <1>14 DEF Course, CancelRaises
  <2> QED BY <1>1, <1>2, <1>3, <1>14, <2>1 DEF CancelRaises
<1>15. CASE VenueTakes(o) \/ VenueRefuses(o)
  <2>1. /\ events' = events /\ delete' = delete /\ known' = known /\ losses' = losses
        /\ ws' = <<>>
    BY <1>1, <1>4, <1>15 DEF VenueTakes, VenueRefuses
  <2>2. /\ post[o] \in {"sent", "adrift"}
        /\ post'[o] \in IF post[o] = "sent" THEN {"taken", "refused"} ELSE {"done"}
        /\ \A p \in LiveOrders : p # o => post'[p] = post[p]
    BY <1>2, <1>15 DEF VenueTakes, VenueRefuses
  <2>3. Course(o)'
    BY <1>1, <2>1, <2>2 DEF Course
  <2> QED BY <1>3, <2>1, <2>2, <2>3
<1>16. CASE VenueMatches(o) \/ \E s \in {"CANCELED", "REJECTED"} : VenueDrops(o, s)
  <2>1. /\ events' = events /\ post' = post /\ delete' = delete /\ known' = known
        /\ losses' = losses /\ ws' = <<>>
    BY <1>4, <1>16 DEF VenueMatches, VenueDrops
  <2> QED BY <1>1, <2>1, SameCourse
<1>17. CASE VenueDeletes(o)
  <2>1. /\ events' = events /\ post' = post /\ known' = known /\ losses' = losses
        /\ ws' = <<>>
    BY <1>1, <1>4, <1>17 DEF VenueDeletes
  <2>2. delete[o] = "sent" /\ delete'[o] \in {"ok", "failed"}
        /\ \A p \in LiveOrders : p # o => delete'[p] = delete[p]
    BY <1>2, <1>17 DEF VenueDeletes
  <2>3. Course(o)'
    BY <1>1, <2>1, <2>2 DEF Course
  <2> QED BY <1>3, <2>1, <2>2, <2>3
<1> QED BY <1>8, <1>9, <1>10, <1>11, <1>12, <1>13, <1>14, <1>15, <1>16, <1>17

LEMMA StepShipped == ShippedInv /\ [LiveNext]_liveVars => ShippedInv'
<1> SUFFICES ASSUME ShippedInv, [LiveNext]_liveVars PROVE ShippedInv'
  OBVIOUS
<1>1. LiveTypeOK'
  BY StepTypeOK DEF ShippedInv
<1>2. ASSUME ~UserChannel PROVE ws' = <<>> /\ \A o \in LiveOrders : Course(o)'
  <2>1. CASE UNCHANGED liveVars
    BY <1>2, <2>1 DEF liveVars, ShippedInv, Course
  <2>2. CASE LiveNext
    <3>1. ~Deliver /\ ~DeliverRaises /\ ~Disconnect
      BY <1>2 DEF ShippedInv, Deliver, DeliverRaises, Disconnect
    <3> QED BY <1>2, <2>2, <3>1, StepCourse DEF LiveNext
  <2> QED BY <2>1, <2>2
<1> QED BY <1>1, <1>2 DEF ShippedInv

\* As it is shipped, without the user channel, the live path publishes no
\* fill, and about an order either one of the lives a paper order may have or
\* one of the four histories of a cancel handled while the order had no id.
\* If the strategy heard of the acceptance last, the venue took the order
\* under a cancel that was never sent.
THEOREM ShippedLivesOnly == LiveSpec => []ShippedLives
<1>1. ShippedInv => ShippedLives
  <2> SUFFICES ASSUME ShippedInv, ~UserChannel, NEW o \in LiveOrders
               PROVE  /\ events[o] \in (Life!Lives \ {Life!Filled}) \union Overtaken
                      /\ events[o] = <<"submitted", "canceled", "accepted">>
                           => "blindCancel" \in losses[o]
    BY DEF ShippedLives
  <2>1. Course(o)
    BY DEF ShippedInv
  <2>2. /\ <<>> \in Life!Lives /\ Asked \in Life!Lives /\ Refused \in Life!Lives
        /\ Working \in Life!Lives /\ Over \in Life!Lives
    BY DEF Life!Lives, Life!Closed, Life!Accepted, Life!Rejected, Life!Canceled,
           Asked, Refused, Working, Over
  <2>3. /\ Asked # Life!Filled /\ Refused # Life!Filled /\ Working # Life!Filled
        /\ Over # Life!Filled /\ <<>> # Life!Filled
    BY DEF Life!Filled, Asked, Refused, Working, Over
  <2>4. {Early, Stray, Spent, Late} = Overtaken
    BY DEF Overtaken, Early, Stray, Spent, Late
  <2>5. \A h \in {<<>>, Asked, Refused, Working, Over, Early, Spent, Late} : h # Stray
    BY DEF Asked, Refused, Working, Over, Early, Stray, Spent, Late
  <2>6. events[o] = Stray => "blindCancel" \in losses[o]
    BY <2>1, <2>5 DEF Course
  <2>7. events[o] \in {<<>>, Asked, Refused, Working, Over} \union {Early, Stray, Spent, Late}
    BY <2>1 DEF Course
  <2> QED BY <2>2, <2>3, <2>4, <2>6, <2>7 DEF Stray
<1> QED BY <1>1, InitShipped, StepShipped, PTL DEF LiveSpec
=============================================================================
