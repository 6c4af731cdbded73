----------------------------- MODULE MCOperations -----------------------------
(* The two sets of scheduled jobs that must get something done, for TLC: a    *)
(* run starts with one of them and takes its steps.  Neither reads the        *)
(* other's variables, so the state spaces add up, and each keeps its own      *)
(* bounds and fairness.                                                       *)
EXTENDS PaperOps, Lifecycle

CONSTANTS a, b
VARIABLE part

\* PaperOps: the slugs in the order they were created.
TwoSlugs == <<a, b>>
\* hl-donchian and hl-donchian-1d.
Namesakes == {<<a, b>>}

\* Lifecycle: the moves the documents leave to a user.
Promotions == {<<"PAPER_READY", "PAPER">>, <<"PAPER", "LIVE_READY">>,
               <<"LIVE_READY", "LIVE">>, <<"HALTED", "PAPER">>}
\* What agents ask for: a halted slug back in the pipeline.
Attempts == {<<"HALTED", "BACKTEST">>}

OperationsInit == part \in {"ops", "life"} /\ OpsInit /\ LifeInit
Ops == part = "ops" /\ OpsNext /\ UNCHANGED <<part, lifeVars>>
Life == part = "life" /\ LifeNext /\ UNCHANGED <<part, opsVars>>

\* OpsFair and Lifecycle's Fairness, for the set that runs.
OperationsFair ==
  /\ WF_opsVars(part = "ops" /\ \E logs \in SUBSET OpsSlugs : SummaryCron(logs, {}))
  /\ WF_opsVars(part = "ops" /\ WatcherCron(FALSE))
  /\ WF_opsVars(part = "ops" /\ Audit)
  /\ \A j \in Jobs : WF_lifeVars(part = "life" /\ JobSteps(j))
  /\ SF_lifeVars(part = "life" /\ QuietMidnight)
  /\ \A k \in {"test", "opt"} : SF_lifeVars(part = "life" /\ CronRuns(k))

OperationsSpec == /\ OperationsInit /\ [][Ops \/ Life]_<<part, opsVars, lifeVars>>
                  /\ OperationsFair

OperationsTypeOK == OpsTypeOK /\ LifeTypeOK
===============================================================================
