----------------------------- MODULE OrderLife ------------------------------
(***************************************************************************)
(* What an execution path promises about the life of an order, seen only   *)
(* through the events it publishes on `events.order.<strategy>`: an order  *)
(* is submitted, then rejected or accepted, and an accepted order is       *)
(* closed once, by one fill or by one cancel.  One step may publish events *)
(* of several orders (a sweep) and several events of one order (a submit   *)
(* handler that never awaits).                                             *)
(*                                                                         *)
(* The paper path implements this specification (module PaperFill); the    *)
(* comment in venues/polymarket/execution.py says a strategy cannot tell   *)
(* the live path from it "just by event flow".                             *)
(***************************************************************************)
CONSTANT Orders     \* the client order ids of the run

VARIABLE events     \* events[o]: what was published about o, oldest first

Rejected == <<"submitted", "rejected">>
Accepted == <<"submitted", "accepted">>
Filled   == <<"submitted", "accepted", "filled">>
Canceled == <<"submitted", "accepted", "canceled">>

Closed == {Rejected, Filled, Canceled}
Lives  == {<<>>, <<"submitted">>, Accepted} \union Closed

Init == events = [o \in Orders |-> <<>>]

\* A history goes on from nothing, from a submitted order to its verdict,
\* and from an accepted order to its close; a closed order stays closed.
GoesOn(s, t) ==
  \/ s = t
  \/ s = <<>>
  \/ s = <<"submitted">> /\ t # <<>>
  \/ s = Accepted /\ t \in {Filled, Canceled}

\* Every order's history goes on along one of the lives.
Publish ==
  /\ events' \in [Orders -> Lives]
  /\ \A o \in Orders : GoesOn(events[o], events'[o])

Spec == Init /\ [][Publish]_events
=============================================================================
