---------------------------------- MODULE Sums ----------------------------------
(* The sum of a sequence of integers, for the accounts of the backtests.      *)
EXTENDS Integers, Sequences, SequencesExt

Total(s) == FoldLeft(LAMBDA n, x : n + x, 0, s)
===============================================================================
