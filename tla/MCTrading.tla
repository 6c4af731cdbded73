------------------------------ MODULE MCTrading -------------------------------
(* Trading for TLC: the state spaces of its components add up.                *)
EXTENDS Trading, TLC

\* Every strategy that remembers a position.
AllKinds == BarKinds \union {"tmr", "fade"}
===============================================================================
