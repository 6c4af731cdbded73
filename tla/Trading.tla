-------------------------------- MODULE Trading -------------------------------
(* A trading process as one specification: a run starts in an initial state   *)
(* of one of its components and takes that one's steps.  None reads another's *)
(* variables, so each keeps its own bounds, and what holds of a component     *)
(* alone holds of it here.                                                    *)
EXTENDS BinaryArb, LiveExec, Strategies, HaltPath, Feed

\* The component that runs.
VARIABLE part

TradingInit ==
  /\ part \in {"arb", "live", "belief", "halt", "feed"}
  /\ Init /\ LiveInit /\ BeliefInit /\ HaltInit /\ FeedInit
  \* a component that does not run rests in one initial state
  /\ part # "arb" => concurrent
  /\ part # "belief" => kind = "tmr" /\ early

Arb == /\ part = "arb" /\ Next
       /\ UNCHANGED <<part, liveVars, beliefVars, haltVars, feedVars>>
Live == /\ part = "live" /\ LiveNext
        /\ UNCHANGED <<part, vars, beliefVars, haltVars, feedVars>>
Belief == /\ part = "belief" /\ BeliefNext
          /\ UNCHANGED <<part, vars, liveVars, haltVars, feedVars>>
Halt == /\ part = "halt" /\ HaltNext
        /\ UNCHANGED <<part, vars, liveVars, beliefVars, feedVars>>
Books == /\ part = "feed" /\ FeedNext
         /\ UNCHANGED <<part, vars, liveVars, beliefVars, haltVars>>

tradingVars == <<part, vars, liveVars, beliefVars, haltVars, feedVars>>
TradingNext == Arb \/ Live \/ Belief \/ Halt \/ Books
TradingSpec == TradingInit /\ [][TradingNext]_tradingVars

\* What each component's type predicate says of its variables.
TradingTypeOK == TypeOK /\ LiveTypeOK /\ BeliefTypeOK /\ HaltTypeOK /\ FeedTypeOK
===============================================================================
