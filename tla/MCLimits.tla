------------------------------- MODULE MCLimits -------------------------------
(* Two limits that processes or orders overrun by racing each other, for TLC: *)
(* a run starts in an initial state of one component and takes its steps.     *)
(* Neither reads the other's variables, so the state spaces add up.           *)
EXTENDS CapGate, Lifecycle, TLC

CONSTANTS i1, i2
VARIABLE part

\* CapGate: everything the gate tells apart: sides, sizes, a missing price
\* (which hides the size, so the largest is enough).
AnyShape == {k \in Shapes : k.priced \/ k.qty = MaxQty}
\* Lifecycle: the moves the documents leave to a user: promotion, and the
\* review of a halted slug.
Promotions == {<<"PAPER_READY", "PAPER">>, <<"PAPER", "LIVE_READY">>,
               <<"LIVE_READY", "LIVE">>, <<"HALTED", "PAPER">>}
\* What agents ask for: the gated promotions, and a halted slug back in the
\* pipeline, at its end, or straight in PAPER.
Attempts == {<<"PAPER_READY", "PAPER">>, <<"LIVE_READY", "LIVE">>,
             <<"HALTED", "BACKTEST">>, <<"HALTED", "PAPER_READY">>,
             <<"HALTED", "PAPER">>}

Symmetry == Permutations(Orders) \union Permutations(Instruments)

\* A component that does not run rests in one initial state.
LimitsInit == /\ part \in {"cap", "life"} /\ CapInit /\ LifeInit
              /\ part # "cap" => \A c \in Caps : c >= cap

Gate == part = "cap" /\ CapNext /\ UNCHANGED <<part, lifeVars>>
Life == part = "life" /\ LifeNext /\ UNCHANGED <<part, capVars>>
LimitsSpec == LimitsInit /\ [][Gate \/ Life]_<<part, capVars, lifeVars>>
===============================================================================
