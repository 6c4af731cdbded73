----------------------------- MODULE BinaryArb ------------------------------
(***************************************************************************)
(* BinaryArbStrategy: whenever the best asks of the YES and the NO token   *)
(* of a condition cost together less than the dollar one of them will pay, *)
(* it buys both with a pair of IOC limit orders.  The two legs live their  *)
(* own lives, and _active_arbs remembers one attempt per condition.        *)
(*                                                                         *)
(* Each leg follows module OrderLife, and a leg's event and the handler it *)
(* runs in the strategy are one step.  An order handled by the execution   *)
(* client is open (is_open in the cache) until it is filled or cancelled;  *)
(* between submit_order and that it is queued and not open.                *)
(*                                                                         *)
(* Abstractions.  Prices are ticks.  Fills are all or nothing and sizes    *)
(* are left out: both legs have the same one.                              *)
(***************************************************************************)
EXTENDS Naturals, Sequences

CONSTANTS
  Pairs,        \* condition ids of the registered market pairs
  MaxAsk,       \* the highest ask, in ticks
  MaxCost,      \* the highest combined ask with profit >= min_profit_usdc
  MaxArbs,      \* bound: attempts in a run
  Concurrency   \* what BinaryArbConfig.allow_concurrent may be

ASSUME AskAssumption  == MaxAsk \in Nat \ {0} /\ MaxCost \in Nat
ASSUME ArbAssumption  == MaxArbs \in Nat \ {0} /\ Concurrency \subseteq BOOLEAN

VARIABLES
  concurrent,  \* allow_concurrent of this run
  running,     \* is the strategy RUNNING?  Its handlers are called only then
  asks,        \* _best_asks, 0 while none was seen
  attempts,    \* the pair of every ArbOpportunity sent, in order
  active,      \* _active_arbs: the number of the pair's attempt, 0 for none
  marked,      \* marked[k]: legs of attempt k whose *_filled flag is set
  leg,         \* leg[k][l]: how far leg l of attempt k is
  asked,       \* <<k, l>> whose cancellation the strategy asked for
  missed       \* history: <<k, l>> an abort found not open yet

vars == <<concurrent, running, asks, attempts, active, marked, leg, asked, missed>>

Legs     == {"YES", "NO"}
Other(l) == IF l = "YES" THEN "NO" ELSE "YES"
ArbIds   == 1..MaxArbs
Statuses == {"unsent", "queued", "rejected", "open", "filled", "canceled"}
Ended    == {"rejected", "filled", "canceled"}

\* Attempt k is the one _active_arbs holds for its pair.
Tracked(k) == k \in DOMAIN attempts /\ active[attempts[k]] = k

\* A later attempt took the place of attempt k in _active_arbs.
Superseded(k) == \E j \in DOMAIN attempts : j > k /\ attempts[j] = attempts[k]
-----------------------------------------------------------------------------
(* Scanning *)

\* The asks of a pair leave a profit.  A side that lost its asks keeps the
\* last one seen.
Profitable(a) == /\ a["YES"] # 0 /\ a["NO"] # 0
                 /\ a["YES"] + a["NO"] <= MaxCost

\* Mutant: the entry of a pair does not keep the pair from being scanned.
MayTryAlways(p) == TRUE

MayTry(p) == concurrent \/ active[p] = 0

\* _execute_arb: remember the attempt, then submit YES and NO.
Execute(p) ==
  LET k == Len(attempts) + 1
  IN  /\ k \in ArbIds
      /\ attempts' = Append(attempts, p)
      /\ active' = [active EXCEPT ![p] = k]
      /\ leg' = [leg EXCEPT ![k] = [l \in Legs |-> "queued"]]

\* on_order_book_deltas with at least one ask (a message without one returns
\* before the scan).  Bound: no attempt beyond MaxArbs.
OnOrderBookDeltas(p, l, ask) ==
  LET a == [asks[p] EXCEPT ![l] = ask]
  IN  /\ running
      /\ asks' = [asks EXCEPT ![p] = a]
      /\ IF MayTry(p) /\ Profitable(a)
           THEN Execute(p) ELSE UNCHANGED <<attempts, active, leg>>
      /\ UNCHANGED <<concurrent, running, marked, asked, missed>>
-----------------------------------------------------------------------------
(* The legs' events *)

\* The execution client's answer to a submit; the strategy has no handler
\* for either verdict.
HandleSubmit(k, l, verdict) ==
  /\ leg[k][l] = "queued"
  /\ leg' = [leg EXCEPT ![k][l] = verdict]
  /\ UNCHANGED <<concurrent, running, asks, attempts, active, marked, asked,
                 missed>>

\* Mutant: an attempt that is filled stays.
OnOrderFilledKeep(k) == UNCHANGED active

\* The attempt leaves _active_arbs when both its flags are set.
OnOrderFilled(k) ==
  IF running /\ Tracked(k) /\ marked'[k] = Legs
    THEN active' = [active EXCEPT ![attempts[k]] = 0]
    ELSE UNCHANGED active

Fill(k, l) ==
  /\ leg[k][l] = "open"
  /\ leg' = [leg EXCEPT ![k][l] = "filled"]
  /\ marked' = IF running /\ Tracked(k)
                 THEN [marked EXCEPT ![k] = @ \union {l}] ELSE marked
  /\ OnOrderFilled(k)
  /\ UNCHANGED <<concurrent, running, asks, attempts, asked, missed>>

\* _abort_arb when leg l was cancelled and the other one, m, was not filled:
\* m is cancelled if it is open.
Abort(k, m) ==
  /\ active' = [active EXCEPT ![attempts[k]] = 0]
  /\ asked'  = IF leg[k][m] = "open" THEN asked \union {<<k, m>>} ELSE asked
  /\ missed' = IF leg[k][m] = "queued" THEN missed \union {<<k, m>>} ELSE missed

\* Mutant: only a cancelled YES leg aborts the attempt.
OnOrderCanceledYes(k, l) ==
  IF running /\ Tracked(k) /\ l = "YES" /\ Other(l) \notin marked[k]
    THEN Abort(k, Other(l)) ELSE UNCHANGED <<active, asked, missed>>

\* Nothing happens when the other leg is filled: the attempt stays.
OnOrderCanceled(k, l) ==
  IF running /\ Tracked(k) /\ Other(l) \notin marked[k]
    THEN Abort(k, Other(l)) ELSE UNCHANGED <<active, asked, missed>>

\* An IOC leg that found no match, or a leg the strategy cancelled.
Cancel(k, l) ==
  /\ leg[k][l] = "open"
  /\ leg' = [leg EXCEPT ![k][l] = "canceled"]
  /\ OnOrderCanceled(k, l)
  /\ UNCHANGED <<concurrent, running, asks, attempts, marked>>

\* on_stop: cancel_all_orders on both instruments of every pair.
OnStop ==
  /\ running
  /\ running' = FALSE
  /\ asked' = asked \union {kl \in ArbIds \X Legs : leg[kl[1]][kl[2]] = "open"}
  /\ UNCHANGED <<concurrent, asks, attempts, active, marked, leg, missed>>

OnReset ==
  /\ ~running
  /\ active' = [p \in Pairs |-> 0]
  /\ asks' = [p \in Pairs |-> [l \in Legs |-> 0]]
  /\ UNCHANGED <<concurrent, running, attempts, marked, leg, asked, missed>>

\* The strategy has started and subscribed to its pairs.
Init ==
  /\ concurrent \in Concurrency
  /\ running = TRUE
  /\ asks = [p \in Pairs |-> [l \in Legs |-> 0]]
  /\ attempts = <<>>
  /\ active = [p \in Pairs |-> 0]
  /\ marked = [k \in ArbIds |-> {}]
  /\ leg = [k \in ArbIds |-> [l \in Legs |-> "unsent"]]
  /\ asked = {} /\ missed = {}

Next ==
  \/ \E p \in Pairs, l \in Legs, ask \in 1..MaxAsk : OnOrderBookDeltas(p, l, ask)
  \/ \E k \in ArbIds, l \in Legs :
       \/ \E verdict \in {"open", "rejected"} : HandleSubmit(k, l, verdict)
       \/ Fill(k, l)
       \/ Cancel(k, l)
  \/ OnStop
  \/ OnReset

Spec == Init /\ [][Next]_vars
-----------------------------------------------------------------------------
(* Properties *)

TypeOK ==
  /\ concurrent \in Concurrency /\ running \in BOOLEAN
  /\ asks \in [Pairs -> [Legs -> 0..MaxAsk]]
  /\ attempts \in Seq(Pairs) /\ Len(attempts) <= MaxArbs
  /\ active \in [Pairs -> 0..MaxArbs]
  /\ marked \in [ArbIds -> SUBSET Legs]
  /\ leg \in [ArbIds -> [Legs -> Statuses]]
  /\ asked \subseteq ArbIds \X Legs
  /\ missed \subseteq ArbIds \X Legs

\* on_order_canceled: "If one leg of an arb is cancelled, cancel the other to
\* avoid naked exposure".  There are two ways to break that and no third: the
\* attempt had been replaced in _active_arbs by a later one of its pair
\* (allow_concurrent), or the abort came before the other leg was open and
\* passed over it.
SurvivorExplained ==
  \A k \in ArbIds, l \in Legs :
    running /\ leg[k][l] = "open" /\ leg[k][Other(l)] = "canceled" =>
      <<k, l>> \in asked \/ Superseded(k) \/ <<k, l>> \in missed

\* An attempt whose legs have both ended stays in _active_arbs, and without
\* allow_concurrent keeps its pair from ever being tried again, in two cases
\* only: one leg is filled and the other is not (the position is naked), or
\* both were rejected.
StuckIsNaked ==
  \A k \in DOMAIN attempts :
    running /\ Tracked(k) /\ (\A l \in Legs : leg[k][l] \in Ended) =>
      \/ \E l \in Legs : leg[k][l] = "filled" /\ leg[k][Other(l)] # "filled"
      \/ \A l \in Legs : leg[k][l] = "rejected"

\* Without allow_concurrent a pair is tried again only when the last attempt
\* is settled.  What may still be working of an earlier attempt is one leg,
\* after the cancel of the other: the leg the abort cancelled or passed over.
OneAttemptAtATime ==
  ~concurrent /\ running =>
    \A k \in DOMAIN attempts, l \in Legs :
      Superseded(k) /\ leg[k][l] \notin Ended =>
        /\ leg[k][Other(l)] = "canceled"
        /\ <<k, l>> \in asked \union missed
=============================================================================
