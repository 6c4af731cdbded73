------------------------------- MODULE Research -------------------------------
(* The components that gather data and research strategies as one             *)
(* specification: a run starts in an initial state of one of them and takes   *)
(* that one's steps.  None reads another's variables, so each keeps its own   *)
(* bounds and fairness, and what holds of a component alone holds of it here. *)
EXTENDS Backtest, HlBacktest, Ingest, HlHistory, Optimize, CronCommit,
        Intake, PaperBook

\* The component that runs.
VARIABLE part

ResearchInit ==
  /\ part \in {"bt", "hl", "in", "hh", "opt", "cc", "intake", "book"}
  /\ BtInit /\ HlInit /\ InInit /\ HhInit /\ OptInit /\ CcInit /\ IntakeInit /\ BookInit

Bt == /\ part = "bt" /\ BtNext
      /\ UNCHANGED <<part, hlVars, inVars, hhVars, optVars, ccVars, intakeVars, bookVars>>
Hl == /\ part = "hl" /\ HlNext
      /\ UNCHANGED <<part, btVars, inVars, hhVars, optVars, ccVars, intakeVars, bookVars>>
In == /\ part = "in" /\ InNext
      /\ UNCHANGED <<part, btVars, hlVars, hhVars, optVars, ccVars, intakeVars, bookVars>>
Hh == /\ part = "hh" /\ HhNext
      /\ UNCHANGED <<part, btVars, hlVars, inVars, optVars, ccVars, intakeVars, bookVars>>
Opt == /\ part = "opt" /\ OptNext
       /\ UNCHANGED <<part, btVars, hlVars, inVars, hhVars, ccVars, intakeVars, bookVars>>
Cc == /\ part = "cc" /\ CcNext
      /\ UNCHANGED <<part, btVars, hlVars, inVars, hhVars, optVars, intakeVars, bookVars>>
Queues == /\ part = "intake" /\ IntakeNext
          /\ UNCHANGED <<part, btVars, hlVars, inVars, hhVars, optVars, ccVars, bookVars>>
Book == /\ part = "book" /\ BookNext
        /\ UNCHANGED <<part, btVars, hlVars, inVars, hhVars, optVars, ccVars, intakeVars>>

researchVars == <<part, btVars, hlVars, inVars, hhVars, optVars, ccVars, intakeVars, bookVars>>

\* IntakeFair and BookFair, for the component that runs.
ResearchFair ==
  /\ WF_intakeVars(part = "intake" /\ \E p \in Scripts : Carries(p))
  /\ SF_intakeVars(part = "intake" /\ \E p \in Scripts : Discovers(p))
  /\ WF_bookVars(part = "book" /\ Summarise) /\ WF_bookVars(part = "book" /\ WatchTick)

ResearchNext == Bt \/ Hl \/ In \/ Hh \/ Opt \/ Cc \/ Queues \/ Book
ResearchSpec == ResearchInit /\ [][ResearchNext]_researchVars /\ ResearchFair

\* What each component's type predicate says of its variables; those of a
\* component it does not name are bounded by its other invariants only.
ResearchTypeOK == /\ BtTypeOK /\ HlTypeOK /\ InTypeOK /\ HhTypeOK
                  /\ OptTypeOK /\ CcTypeOK /\ IntakeTypeOK /\ BookTypeOK
===============================================================================
