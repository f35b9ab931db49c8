----------------------------- MODULE MCPayments -----------------------------
(* Payments on a small instance: two sessions over one payment            *)
(* (Payments_double.cfg).  MCMoney has its other runs.                      *)
EXTENDS Payments, TLC

\* The sessions run the same program.
SessionSymmetry == Permutations(Session)
=============================================================================
