---------------------------------- MODULE Feed ---------------------------------
(* How the order book of a Polymarket market reaches a strategy of a trading  *)
(* node: the runner registers an instrument for each token, the node asks for *)
(* each one's book while the socket comes and goes (client.py), and what the  *)
(* socket delivers is published under an instrument made up from the message  *)
(* (data.py, parquet_loader.py).                                              *)
EXTENDS Naturals, Sequences, SequencesExt

CONSTANTS
  Tokens,      \* outcome tokens the runner trades
  Levels,      \* price levels a book may hold
  MaxSends,    \* bound: messages on their way, in each direction
  MaxTurns     \* bound: changes of the venue's books, connections

ASSUME FeedAssumption == MaxSends \in Nat \ {0} /\ MaxTurns \in Nat

VARIABLES
  books,       \* venue: the levels of each token's book
  scope,       \* venue: tokens the connection is subscribed to
  socket,      \* _ws is set
  wanted,      \* assets_ids of the one market subscription
  sends,       \* subscriptions written to the socket and not read by the venue
  inbox,       \* messages of the venue not handled
  held,        \* cache: the book of each instrument something was published for
  turns
feedVars == <<books, scope, socket, wanted, sends, inbox, held, turns>>

\* make_instrument: the symbol holds the market, or PM when it is not known
Instrument(t, market) == <<t, IF market = "" THEN "PM" ELSE market>>
\* the runners register instruments made with the market's condition id
RunnerInstruments == {Instrument(t, "cid") : t \in Tokens}

FeedInit == /\ books = [t \in Tokens |-> {}] /\ scope = {} /\ socket = FALSE
            /\ wanted = {} /\ sends = <<>> /\ inbox = <<>> /\ held = <<>> /\ turns = 0

\* connect_and_run: what was asked for before is asked again
Connect == /\ ~socket /\ socket' = TRUE /\ turns < MaxTurns /\ turns' = turns + 1
           /\ sends' = IF wanted = {} THEN <<>> ELSE <<wanted>>
           /\ UNCHANGED <<books, scope, wanted, inbox, held>>
DropSocket == /\ socket /\ socket' = FALSE /\ scope' = {}
              /\ sends' = <<>> /\ inbox' = <<>> /\ UNCHANGED <<books, wanted, held, turns>>

\* subscribe_market and _send_now: one list of tokens, which only grows
SubscribeAlone(t) ==
  /\ wanted' = wanted \union {t} /\ Len(sends) < MaxSends
  /\ sends' = IF socket THEN Append(sends, {t}) ELSE sends
  /\ UNCHANGED <<books, scope, socket, inbox, held, turns>>
SubscribeMarket(t) ==
  /\ wanted' = wanted \union {t} /\ Len(sends) < MaxSends
  /\ sends' = IF socket THEN Append(sends, wanted') ELSE sends
  /\ UNCHANGED <<books, scope, socket, inbox, held, turns>>

\* The venue takes each subscription for a new one and answers with the books.
VenueSubscribes ==
  /\ sends # <<>> /\ Len(inbox) < MaxSends /\ scope' = Head(sends) /\ sends' = Tail(sends)
  /\ inbox' = Append(inbox, [t \in Head(sends) |->
                               [event |-> "book", levels |-> books[t], market |-> "cid"]])
  /\ UNCHANGED <<books, socket, wanted, held, turns>>
\* A level comes or goes; of a price_change the node reads the token, not the market.
VenueChanges(t, l) ==
  /\ turns < MaxTurns /\ turns' = turns + 1 /\ Len(inbox) < MaxSends
  /\ books' = [books EXCEPT ![t] = IF l \in @ THEN @ \ {l} ELSE @ \union {l}]
  /\ inbox' = IF t \notin scope THEN inbox
              ELSE Append(inbox, [u \in {t} |->
                     [event |-> "price_change", levels |-> books'[t] \intersect {l},
                      market |-> ""]])
  /\ UNCHANGED <<scope, socket, wanted, sends, held>>

\* _handle_ws_message, _handle_book_event: a list of events is unwrapped; a book
\* replaces the instrument's levels, a change adds its level, and either is
\* dropped when no level with a size is left in it.
Handle ==
  /\ inbox # <<>> /\ inbox' = Tail(inbox)
  /\ LET msg == Head(inbox)
         sent == {t \in DOMAIN msg : msg[t].levels # {}}
         told == [i \in {Instrument(t, msg[t].market) : t \in sent} |-> msg[i[1]]]
     IN held' = [i \in DOMAIN held \union DOMAIN told |->
                   IF i \notin DOMAIN told THEN held[i]
                   ELSE IF told[i].event = "book" \/ i \notin DOMAIN held
                        THEN told[i].levels ELSE held[i] \union told[i].levels]
  /\ UNCHANGED <<books, scope, socket, wanted, sends, turns>>

FeedNext == \/ Connect \/ DropSocket \/ VenueSubscribes \/ Handle
            \/ \E t \in Tokens : SubscribeMarket(t) \/ \E l \in Levels : VenueChanges(t, l)
FeedSpec == FeedInit /\ [][FeedNext]_feedVars

-------------------------------------------------------------------------------
\* Shape of the state.
FeedTypeOK == /\ books \in [Tokens -> SUBSET Levels] /\ scope \subseteq wanted
              /\ wanted \subseteq Tokens /\ socket \in BOOLEAN
              /\ (~socket => sends = <<>> /\ inbox = <<>>)

\* The venue forgets the tokens of an earlier subscription message; still, once
\* it has read every one that was sent, over any number of connections, every
\* token the node asked for is in scope.
ScopeIsComplete == socket /\ sends = <<>> => scope = wanted

\* The docstring of _instrument_for_token (data.py): the instrument is made up so
\* that what is published matches what the subscribers asked for.
PublishesToSubscribers == DOMAIN held \subseteq RunnerInstruments
===============================================================================
