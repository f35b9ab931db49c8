------------------------------ MODULE MCBilling ------------------------------
(* Billing on small instances: one handler at a time                       *)
(* (Billing_checkouts.cfg), and the enforcement run overlapping with a      *)
(* payment (Billing_stale.cfg).  MCMoney has its other runs.                *)
EXTENDS Billing, TLC

\* Handlers, and invoices, differ by name only.
Symmetry == Permutations(Proc) \cup Permutations(Invoice)

Locked == {"webhook", "record", "reverse", "status"}
Stale == {"enforce", "webhook", "record"}
==============================================================================
