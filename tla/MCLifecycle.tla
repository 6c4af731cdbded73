----------------------------- MODULE MCLifecycle ----------------------------
(* Instances of Lifecycle for TLC. *)
EXTENDS Lifecycle

\* The moves the documents leave to a user: promotion, and the review of a
\* halted slug.
Promotions == {<<"PAPER_READY", "PAPER">>, <<"PAPER", "LIVE_READY">>,
               <<"LIVE_READY", "LIVE">>, <<"HALTED", "PAPER">>}
=============================================================================
