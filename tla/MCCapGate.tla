------------------------------ MODULE MCCapGate -----------------------------
(* An instance of CapGate for TLC. *)
EXTENDS CapGate

CONSTANTS i1, i2

\* The two legs of BinaryArbStrategy._execute_arb.
ArbLegs == {[iid |-> i, side |-> "BUY", qty |-> 2, priced |-> TRUE] : i \in Instruments}
=============================================================================
