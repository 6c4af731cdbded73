------------------------------- MODULE HlHistory ------------------------------
(* How bars and funding of a Hyperliquid coin reach the catalog: the client   *)
(* walks a cursor through the window in slices (historical.py), and only a    *)
(* walk that ended is merged into the stored rows (hl_catalog.py).  A bar, or *)
(* an hour of funding, is Period long; a row is the time it starts at, which  *)
(* is a multiple of Period for bars and may be some way past one for funding. *)
EXTENDS Integers, FiniteSets, FiniteSetsExt

CONSTANTS
  Period,     \* INTERVAL_MS, or the hour of funding
  Span,       \* max_span_ms, FUNDING_CHUNK_MS
  PageRows,   \* rows the server answers with at most
  Attempts,   \* retry_attempts
  Horizon,    \* bound: last time
  MaxWalks    \* bound: walks

ASSUME HlHistoryAssumption ==
  /\ Period \in Nat \ {0} /\ Span \in Nat \ {0} /\ PageRows \in Nat \ {0}
  /\ Attempts \in Nat \ {0} /\ Horizon \in Nat /\ MaxWalks \in Nat

VARIABLES
  clock,
  published,  \* times of the rows the server has or will have
  walk,       \* the client's walk: pc, cursor, end, failed attempts, rows read
              \* and whether each was final, edges of the pages, when it began
  kept,       \* catalog: final[t] of each stored row
  walks
hhVars == <<clock, published, walk, kept, walks>>

NoWalk == [pc |-> "idle", cursor |-> 0, from |-> 0, end |-> 0, tries |-> 0,
           read |-> <<>>, edges |-> {}, since |-> 0]
HhInit == /\ clock = 0 /\ published = {} /\ walk = NoWalk /\ kept = <<>> /\ walks = 0

Passes(t) == /\ t \in (clock + 1)..Horizon /\ clock' = t
             /\ UNCHANGED <<published, walk, kept, walks>>
\* A row is listed, at most one in each Period.
PublishRow(t) ==
  /\ t > clock /\ \A u \in published : u < t /\ u \div Period # t \div Period
  /\ published' = published \union {t} /\ UNCHANGED <<clock, walk, kept, walks>>

\* A row at the right edge of the window may be read, or not.
BeginWalk(from, end) ==
  /\ walk.pc # "walks" /\ walks < MaxWalks /\ walks' = walks + 1
  /\ from % Period = 0 /\ from < end
  /\ walk' = [NoWalk EXCEPT !.pc = "walks", !.cursor = from, !.from = from,
                            !.end = end, !.since = clock]
  /\ UNCHANGED <<clock, published, kept>>

SliceEnd == Min({walk.end, walk.cursor + Span})
RowsThere == {t \in published : t <= clock /\ t \in walk.cursor..SliceEnd}
Answer == {t \in RowsThere : Cardinality({u \in RowsThere : u < t}) < PageRows}
Final(t) == clock >= t + Period

\* fetch_candles, fetch_funding_history: one request answered
NextCursor(t) == t + Period
Slice ==
  /\ walk.pc = "walks" /\ walk.cursor < walk.end
  /\ LET edge == IF Answer = {} THEN SliceEnd ELSE Max(Answer)
     IN walk' = [walk EXCEPT
          !.cursor = NextCursor(edge), !.tries = 0, !.edges = @ \union {edge},
          !.read = [t \in DOMAIN @ \union Answer |->
                      IF t \in DOMAIN @ THEN @[t] ELSE Final(t)]]
  /\ UNCHANGED <<clock, published, kept, walks>>

\* _info: an attempt is refused or fails; after the last the walk raises, and
\* nothing it read is kept.
FailsUpTo(limit) ==
  /\ walk.pc = "walks" /\ walk.cursor < walk.end
  /\ walk' = IF walk.tries + 1 < limit THEN [walk EXCEPT !.tries = @ + 1] ELSE NoWalk
  /\ UNCHANGED <<clock, published, kept, walks>>
SliceFailsOnceMore == FailsUpTo(Attempts + 1)
SliceFails == FailsUpTo(Attempts)

\* _merge_partition: the new row of a time wins
MergeFirst(old, new) == [t \in DOMAIN old \union DOMAIN new |->
                           IF t \in DOMAIN old THEN old[t] ELSE new[t]]
Merge(old, new) == [t \in DOMAIN old \union DOMAIN new |->
                      IF t \in DOMAIN new THEN new[t] ELSE old[t]]
Written == Merge(kept, walk.read)   \* write_candles, write_funding
EndWalk == /\ walk.pc = "walks" /\ walk.cursor >= walk.end
           /\ kept' = Written /\ walk' = [walk EXCEPT !.pc = "done"]
           /\ UNCHANGED <<clock, published, walks>>

HhNext == \/ \E t \in 1..Horizon : Passes(t) \/ PublishRow(t)
          \/ \E from, end \in 0..Horizon : BeginWalk(from, end)
          \/ Slice \/ SliceFails \/ EndWalk
HhSpec == HhInit /\ [][HhNext]_hhVars

-------------------------------------------------------------------------------
HhTypeOK == /\ clock \in 0..Horizon /\ published \subseteq 1..Horizon
            /\ walk.pc \in {"idle", "walks", "done"} /\ walk.tries \in 0..(Attempts - 1)
            /\ DOMAIN kept \subseteq published

\* Once a walk has ended, every row of its window that was there when it began
\* is stored, and with its final values if it was closed then, although an
\* earlier walk may have stored it while it was forming; only a row that is less
\* than Period after the edge of a page (funding that came early) is passed over.
WalkComplete ==
  walk.pc = "done" =>
    \A t \in published :
      t <= walk.since /\ t \in walk.from..(walk.end - 1)
        => \/ t \in DOMAIN kept /\ (walk.since >= t + Period => kept[t])
           \/ \E e \in walk.edges : e < t /\ t < e + Period
===============================================================================
