-------------------------------- MODULE Ingest --------------------------------
(* fetch_historical_trades (data/ingestion.py): the trades of a condition are *)
(* read in pages, newest first, by offset, and past the offset the server     *)
(* refuses once more from a timestamp backwards; trades go on arriving        *)
(* meanwhile.  A trade is its place in the server's order of arrival.         *)
EXTENDS Integers, Sequences, FiniteSets, SequencesExt, FiniteSetsExt

CONSTANTS
  PageSize,   \* rows asked for
  OffsetWall, \* the server refuses a larger offset
  Inclusive,  \* whether the server's `before` includes its timestamp
  MaxTime, MaxTrades  \* bounds

ASSUME IngestAssumption == /\ PageSize \in Nat \ {0} /\ OffsetWall \in Nat
                           /\ Inclusive \in BOOLEAN
                           /\ MaxTime \in Nat /\ MaxTrades \in Nat

VARIABLES
  server,  \* timestamps of the trades the server has, oldest first
  fetch,   \* the run: window, offset, before, oldest_ts_this_run
  stored,  \* trades written to the catalog
  knew    \* trades the server had when the run began
inVars == <<server, fetch, stored, knew>>

NoCursor == -1
Resting == [pc |-> "idle", from |-> 0, to |-> 0, offset |-> 0, before |-> NoCursor, oldest |-> 0]
InInit == server = <<>> /\ fetch = Resting /\ stored = {} /\ knew = 0

TradeArrives(ts) ==
  /\ Len(server) < MaxTrades /\ \A i \in DOMAIN server : server[i] <= ts
  /\ server' = Append(server, ts) /\ UNCHANGED <<fetch, stored, knew>>

BeginTrades(from, to) ==
  /\ fetch.pc = "idle" /\ from <= to
  /\ fetch' = [pc |-> "page", from |-> from, to |-> to, offset |-> 0,
               before |-> NoCursor, oldest |-> to]
  /\ knew' = Len(server) /\ UNCHANGED <<server, stored>>

\* The rows a request is answered with, newest first.  Trades are in the order
\* of their time, so the m that come before the cursor are the first m.
Matches(i) == \/ fetch.before = NoCursor \/ server[i] < fetch.before
              \/ Inclusive /\ server[i] = fetch.before
Matching == LET m == Cardinality({i \in DOMAIN server : Matches(i)})
            IN [k \in 1..m |-> m + 1 - k]
Page == SubSeq(Matching, fetch.offset + 1,
               Min({Len(Matching), fetch.offset + PageSize}))

\* To the second phase: back from one second before the oldest row seen.
Cursor == fetch' = [fetch EXCEPT !.before = fetch.oldest - 1, !.offset = 0]
FetchEnds(how) == fetch' = [fetch EXCEPT !.pc = how]

\* Status 400: past the wall always, elsewhere it may be.
TradePageRefused ==
  /\ fetch.pc = "page"
  /\ IF fetch.before = NoCursor THEN Cursor ELSE FetchEnds("failed")
  /\ UNCHANGED <<server, stored, knew>>
\* A request fails: logged, and the run ends with what it has.
TradePageFails == /\ fetch.pc = "page" /\ FetchEnds("failed")
                  /\ UNCHANGED <<server, stored, knew>>
NoMore(how) ==
  /\ fetch.pc = "page"
  /\ IF fetch.before = NoCursor /\ fetch.oldest > fetch.from THEN Cursor ELSE FetchEnds(how)
  /\ UNCHANGED <<server, stored, knew>>
TradePageEmpty == fetch.offset <= OffsetWall /\ Page = <<>> /\ NoMore("done")
\* A reply that is no list, an error object say, is taken for the end of the
\* data just so: the run ends "misled", which it tells apart from "done" no more
\* than the code does.
TradePageNoList == NoMore("misled")

InWindow(i) == server[i] \in fetch.from..fetch.to
TradePageFor(step) ==
  /\ fetch.pc = "page" /\ fetch.offset <= OffsetWall /\ Page # <<>>
  /\ LET rows == ToSet(Page)
         oldest == Min({fetch.oldest} \union {server[i] : i \in rows})
         over == Len(Page) < PageSize \/ \A i \in rows : ~InWindow(i)
     IN /\ stored' = stored \union {i \in rows : InWindow(i)}
        /\ fetch' = [fetch EXCEPT !.oldest = oldest, !.offset = @ + step,
                                  !.pc = IF over THEN "done" ELSE "page"]
  /\ UNCHANGED <<server, knew>>
TradePageOff == TradePageFor(PageSize + 1)
TradePage == TradePageFor(PageSize)

InNext ==
  \/ \E ts \in 1..MaxTime : TradeArrives(ts)
  \/ \E from, to \in 1..MaxTime : BeginTrades(from, to)
  \/ TradePageRefused \/ TradePageFails
  \/ TradePageEmpty \/ TradePageNoList \/ TradePage
InSpec == InInit /\ [][InNext]_inVars

-------------------------------------------------------------------------------
InTypeOK == /\ server \in Seq(1..MaxTime) /\ stored \subseteq DOMAIN server
            /\ fetch.pc \in {"idle", "page", "done", "misled", "failed"}
            /\ knew \in 0..Len(server)

\* A run that ends without an error has stored every trade of its window that
\* the server had when it began, in spite of the trades that arrived and moved
\* the pages and of the replies that sent it to the cursor, with three
\* exceptions the code has: a reply that is no list ends it where it is, a page
\* of trades that are all newer than the window ends it too, and the cursor
\* passes over what remains of the second it starts from and the second before.
NewerThanWindow == Cardinality({i \in DOMAIN server : server[i] > fetch.to})
PassedOver(ts) == fetch.before # NoCursor /\ ts \in {fetch.before, fetch.before + 1}
TradesComplete ==
  fetch.pc = "done" /\ NewerThanWindow < PageSize
    => \A i \in 1..knew : InWindow(i) /\ ~PassedOver(server[i]) => i \in stored
===============================================================================
