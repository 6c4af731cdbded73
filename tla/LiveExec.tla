------------------------------ MODULE LiveExec ------------------------------
(***************************************************************************)
(* The live path of a Polymarket order.  PolymarketExecutionClient awaits  *)
(* the venue's REST API inside _submit_order and _cancel_order, so its     *)
(* handlers interleave; the venue's user channel tells the same story a   *)
(* second time, over a WebSocket that keeps its own order and its own      *)
(* losses.                                                                 *)
(*                                                                         *)
(*   strategy --submit/cancel--> client --POST/DELETE--> venue             *)
(*            <--events.order.*--       <--reply / user channel--          *)
(*                                                                         *)
(* The venue and the network are external.  A venue takes or refuses an    *)
(* order, matches it in full or drops it; a reply may be lost (a timeout   *)
(* raises in the client); a disconnect loses the messages in flight.       *)
(* UserChannel says whether the client's user channel is connected at all: *)
(* factory.py builds it and never starts it.                               *)
(***************************************************************************)
EXTENDS Integers, Sequences, FiniteSets, SequencesExt

CONSTANTS
  LiveOrders,       \* client order ids
  UserChannel,      \* is the user channel connected and subscribed?
  StatusNamesOrder  \* do the venue's order messages carry "order_id", so
                    \* that a MATCHED status alone reports a fill?

ASSUME ChannelAssumption == UserChannel \in BOOLEAN /\ StatusNamesOrder \in BOOLEAN

VARIABLES
  events,   \* events[o]: events published about o, oldest first
  post,     \* post[o]: the create request of o
  delete,   \* delete[o]: the cancel of o
  known,    \* keys of _order_id_map
  clob,     \* clob[o]: o at the venue
  ws,       \* user-channel messages in flight, oldest first
  losses    \* history: losses[o]: the ways the client lost track of o

liveVars == <<events, post, delete, known, clob, ws, losses>>

Posts   == {"none", "sent", "adrift", "taken", "refused", "done"}
Deletes == {"none", "asked", "sent", "ok", "failed", "done"}
AtVenue == {"none", "live", "matched", "canceled"}
Status  == {"LIVE", "MATCHED", "CANCELED", "REJECTED"}
Msgs    == [kind : Status \union {"TRADE"}, o : LiveOrders]
Losses  == {"early", "dropped", "unread", "unmade", "lostReply", "blindCancel"}

\* The messages of a known order that the handler takes for a fill.
FillKinds == {"TRADE"} \union (IF StatusNamesOrder THEN {"MATCHED"} ELSE {})

Publish(o, e) == events' = [events EXCEPT ![o] = Append(@, e)]
Has(o, e)     == \E k \in DOMAIN events[o] : events[o][k] = e
EventCount(o, e) == Cardinality({k \in DOMAIN events[o] : events[o][k] = e})

Notify(msgs) == ws' = IF UserChannel THEN ws \o msgs ELSE ws

Message(s, o) == [kind |-> s, o |-> o]

Misses(o, way) == losses' = [losses EXCEPT ![o] = @ \union {way}]
-----------------------------------------------------------------------------
(* Submitting *)

\* _submit_order up to its await: submitted, the allocator's verdict, POST.
SubmitLive(o, ok) ==
  /\ events[o] = <<>>
  /\ IF ok
       THEN /\ events' = [events EXCEPT ![o] = <<"submitted">>]
            /\ post' = [post EXCEPT ![o] = "sent"]
       ELSE /\ events' = [events EXCEPT ![o] = <<"submitted", "rejected">>]
            /\ UNCHANGED post
  /\ UNCHANGED <<delete, known, clob, ws, losses>>

\* Mutant: the venue's order id is not remembered.
CreateReplyForgetful(o) ==
  /\ post[o] \in {"taken", "refused"}
  /\ post' = [post EXCEPT ![o] = "done"]
  /\ Publish(o, IF post[o] = "taken" THEN "accepted" ELSE "rejected")
  /\ UNCHANGED <<delete, known, clob, ws, losses>>

\* The reply: the id is mapped and the order accepted, or it is rejected.
CreateReply(o) ==
  /\ post[o] \in {"taken", "refused"}
  /\ post' = [post EXCEPT ![o] = "done"]
  /\ IF post[o] = "taken"
       THEN known' = known \union {o} /\ Publish(o, "accepted")
       ELSE Publish(o, "rejected") /\ UNCHANGED known
  /\ UNCHANGED <<delete, clob, ws, losses>>

\* create_order raises: rejected, whether the venue took the order, never
\* saw the request, or will still take it.
CreateRaises(o) ==
  /\ \/ /\ post[o] = "sent"
        /\ post' = [post EXCEPT ![o] = "done"]
        /\ UNCHANGED losses
     \/ /\ post[o] = "sent"
        /\ post' = [post EXCEPT ![o] = "adrift"]
        /\ Misses(o, "lostReply")
     \/ /\ post[o] = "taken"
        /\ post' = [post EXCEPT ![o] = "done"]
        /\ Misses(o, "lostReply")
  /\ Publish(o, "rejected")
  /\ UNCHANGED <<delete, known, clob, ws>>
-----------------------------------------------------------------------------
(* Cancelling *)

Closed(o) == events[o] # <<>> /\ Last(events[o]) \in {"rejected", "filled", "canceled"}

\* The strategy cancels an order it believes open, once.
AskCancel(o) ==
  /\ events[o] # <<>> /\ ~Closed(o)
  /\ delete[o] = "none"
  /\ delete' = [delete EXCEPT ![o] = "asked"]
  /\ UNCHANGED <<events, post, known, clob, ws, losses>>

\* _cancel_order: DELETE when the venue's id is known; otherwise the order
\* is reported cancelled at once, also when its create is still in flight.
HandleCancel(o) ==
  /\ delete[o] = "asked"
  /\ IF o \in known
       THEN /\ delete' = [delete EXCEPT ![o] = "sent"]
            /\ UNCHANGED <<events, losses>>
       ELSE /\ delete' = [delete EXCEPT ![o] = "done"]
            /\ Publish(o, "canceled")
            /\ IF post[o] \in {"sent", "taken"}
                 THEN Misses(o, "blindCancel") ELSE UNCHANGED losses
  /\ UNCHANGED <<post, known, clob, ws>>

\* A DELETE that returns is a cancel; one that raises is only logged.
CancelReply(o) ==
  /\ delete[o] \in {"ok", "failed"}
  /\ delete' = [delete EXCEPT ![o] = "done"]
  /\ IF delete[o] = "ok" THEN Publish(o, "canceled") ELSE UNCHANGED events
  /\ UNCHANGED <<post, known, clob, ws, losses>>

\* Mutant: a DELETE that raises is reported as a cancel.
CancelRaisesTold(o) ==
  /\ delete[o] \in {"sent", "ok"}
  /\ delete' = [delete EXCEPT ![o] = "done"]
  /\ Publish(o, "canceled")
  /\ UNCHANGED <<post, known, clob, ws, losses>>

CancelRaises(o) ==
  /\ delete[o] \in {"sent", "ok"}
  /\ delete' = [delete EXCEPT ![o] = "done"]
  /\ UNCHANGED <<events, post, known, clob, ws, losses>>
-----------------------------------------------------------------------------
(* The venue *)

VenueTakes(o) ==
  /\ post[o] \in {"sent", "adrift"}
  /\ post' = [post EXCEPT ![o] = IF @ = "sent" THEN "taken" ELSE "done"]
  /\ clob' = [clob EXCEPT ![o] = "live"]
  /\ Notify(<<Message("LIVE", o)>>)
  /\ UNCHANGED <<events, delete, known, losses>>

VenueRefuses(o) ==
  /\ post[o] = "sent"
  /\ post' = [post EXCEPT ![o] = "refused"]
  /\ UNCHANGED <<events, delete, known, clob, ws, losses>>

\* Strategies ask for IOC, the payload carries no time in force: at the
\* venue the order rests until it is matched, cancelled or dropped.
VenueMatches(o) ==
  /\ clob[o] = "live"
  /\ clob' = [clob EXCEPT ![o] = "matched"]
  /\ Notify(<<Message("MATCHED", o), Message("TRADE", o)>>)
  /\ UNCHANGED <<events, post, delete, known, losses>>

VenueDrops(o, s) ==
  /\ clob[o] = "live"
  /\ clob' = [clob EXCEPT ![o] = "canceled"]
  /\ Notify(<<Message(s, o)>>)
  /\ UNCHANGED <<events, post, delete, known, losses>>

VenueDeletes(o) ==
  /\ delete[o] = "sent"
  /\ IF clob[o] = "live"
       THEN /\ delete' = [delete EXCEPT ![o] = "ok"]
            /\ clob' = [clob EXCEPT ![o] = "canceled"]
            /\ Notify(<<Message("CANCELED", o)>>)
       ELSE /\ delete' = [delete EXCEPT ![o] = "failed"]
            /\ UNCHANGED <<clob, ws>>
  /\ UNCHANGED <<events, post, known, losses>>
-----------------------------------------------------------------------------
(* The user channel *)

\* Mutant: an order's status and its trade both report the fill.
EventOfBoth(s) ==
  CASE s = "LIVE"     -> <<"accepted">>
    [] s \in {"MATCHED", "TRADE"} -> <<"filled">>
    [] s = "CANCELED" -> <<"canceled">>
    [] s = "REJECTED" -> <<"rejected">>

\* What a message of a known order publishes.
EventOf(s) ==
  CASE s = "LIVE"     -> <<"accepted">>
    [] s = "MATCHED"  -> IF StatusNamesOrder THEN <<"filled">> ELSE <<>>
    [] s = "TRADE"    -> <<"filled">>
    [] s = "CANCELED" -> <<"canceled">>
    [] s = "REJECTED" -> <<"rejected">>

\* A message about an order the client cannot name, a fill among them.
Unnamed(m) ==
  /\ m.o \notin known
  /\ IF m.kind = "TRADE" THEN Misses(m.o, "early") ELSE UNCHANGED losses
  /\ UNCHANGED events

\* A fill without a size or a price above zero: nothing is published.
Unread(m) ==
  /\ m.o \in known /\ m.kind \in FillKinds
  /\ IF m.kind = "TRADE" THEN Misses(m.o, "unread") ELSE UNCHANGED losses
  /\ UNCHANGED events

\* Mutant: the handler knows order messages only.
DeliverOrdersOnly ==
  /\ ws # <<>>
  /\ LET m == Head(ws)
     IN  \/ /\ m.o \in known
            /\ events' = IF m.kind = "TRADE" THEN events
                         ELSE [events EXCEPT ![m.o] = @ \o EventOf(m.kind)]
            /\ UNCHANGED losses
         \/ Unnamed(m)
         \/ Unread(m)
  /\ ws' = Tail(ws)
  /\ UNCHANGED <<post, delete, known, clob>>

\* handle_user_ws_message returns: the event is published, or the message
\* is passed over.
Deliver ==
  /\ ws # <<>>
  /\ LET m == Head(ws)
     IN  \/ /\ m.o \in known
            /\ events' = [events EXCEPT ![m.o] = @ \o EventOf(m.kind)]
            /\ UNCHANGED losses
         \/ Unnamed(m)
         \/ Unread(m)
  /\ ws' = Tail(ws)
  /\ UNCHANGED <<post, delete, known, clob>>

\* What o loses when these messages are never read.
Unheard(msgs, o) ==
  IF Message("TRADE", o) \in Range(msgs) THEN {"dropped"} ELSE {}

\* The handler raises: over a fill, whose event is built with the symbol for
\* a currency, or over the cancel of an order without a name.  The client
\* leaves the connection, and the messages behind it, and connects again.
DeliverRaises ==
  /\ ws # <<>>
  /\ LET m == Head(ws)
     IN  /\ IF m.o \in known THEN m.kind \in FillKinds ELSE m.kind = "CANCELED"
         /\ losses' = [o \in LiveOrders |->
              losses[o] \union Unheard(Tail(ws), o)
                        \union (IF m = Message("TRADE", o) THEN {"unmade"} ELSE {})]
  /\ ws' = <<>>
  /\ UNCHANGED <<events, post, delete, known, clob>>

\* The connection drops; the client reconnects and nothing is replayed.
Disconnect ==
  /\ ws # <<>>
  /\ ws' = <<>>
  /\ losses' = [o \in LiveOrders |-> losses[o] \union Unheard(ws, o)]
  /\ UNCHANGED <<events, post, delete, known, clob>>
-----------------------------------------------------------------------------
LiveInit ==
  /\ events = [o \in LiveOrders |-> <<>>]
  /\ post = [o \in LiveOrders |-> "none"]
  /\ delete = [o \in LiveOrders |-> "none"]
  /\ known = {}
  /\ clob = [o \in LiveOrders |-> "none"]
  /\ ws = <<>>
  /\ losses = [o \in LiveOrders |-> {}]

LiveNext ==
  \/ \E o \in LiveOrders :
       \/ \E ok \in BOOLEAN : SubmitLive(o, ok)
       \/ CreateReply(o)
       \/ CreateRaises(o)
       \/ AskCancel(o)
       \/ HandleCancel(o)
       \/ CancelReply(o)
       \/ CancelRaises(o)
       \/ VenueTakes(o)
       \/ VenueRefuses(o)
       \/ VenueMatches(o)
       \/ \E s \in {"CANCELED", "REJECTED"} : VenueDrops(o, s)
       \/ VenueDeletes(o)
  \/ Deliver
  \/ DeliverRaises
  \/ Disconnect

LiveSpec == LiveInit /\ [][LiveNext]_liveVars
-----------------------------------------------------------------------------
(* Properties *)

LiveTypeOK ==
  /\ events \in [LiveOrders -> Seq({"submitted", "accepted", "rejected", "filled",
                                "canceled"})]
  /\ post \in [LiveOrders -> Posts]
  /\ delete \in [LiveOrders -> Deletes]
  /\ known \subseteq LiveOrders
  /\ clob \in [LiveOrders -> AtVenue]
  /\ ws \in Seq(Msgs)
  /\ losses \in [LiveOrders -> SUBSET Losses]

\* Nothing about o is on its way.
Quiet(o) == /\ post[o] \in {"none", "done"}
            /\ delete[o] \in {"none", "done"}
            /\ \A k \in DOMAIN ws : ws[k].o # o

\* An order working at the venue that the client can no longer name - so no
\* cancel reaches it and no fill of it is reported - is one whose create
\* reply was lost, and the strategy was told it was rejected.
WorkingIsKnown ==
  \A o \in LiveOrders :
    clob[o] = "live" /\ post[o] = "done" /\ o \notin known
      => "lostReply" \in losses[o] /\ Has(o, "rejected")

\* Once all is quiet, an order the strategy was told is rejected or
\* cancelled does not work at the venue, unless a create reply was lost or
\* a cancel overtook its create.
EndedIsGone ==
  \A o \in LiveOrders :
    Quiet(o) /\ (Has(o, "rejected") \/ Has(o, "canceled"))
             /\ losses[o] \intersect {"lostReply", "blindCancel"} = {}
      => clob[o] # "live"

\* Once all is quiet, every match at the venue was reported as a fill, unless
\* its trade was lost with the channel, was told before the create's reply
\* gave the order a name (one that is lost never does), had no readable size
\* and price, or named an event that could not be built.
MatchIsReported ==
  \A o \in LiveOrders :
    UserChannel /\ Quiet(o) /\ clob[o] = "matched"
                /\ losses[o] \intersect {"early", "dropped", "unread", "unmade"} = {}
      => Has(o, "filled")

\* A match is reported as many times as the venue names it: at most once per
\* message, and never for an order the venue did not match.
FillsCounted ==
  \A o \in LiveOrders :
    EventCount(o, "filled") <= IF clob[o] # "matched" THEN 0
                               ELSE IF StatusNamesOrder THEN 2 ELSE 1

\* A match at the venue reaches the strategy as exactly as many fills as the
\* channel names it for, with the exceptions above.
FillsMatch == MatchIsReported /\ FillsCounted

\* execution.py: "the strategy can't tell paper from live just by event
\* flow": the live path, too, publishes one of the lives of module OrderLife.
Life == INSTANCE OrderLife WITH Orders <- LiveOrders, events <- events
ImplementsOrderLife == Life!Spec
=============================================================================
