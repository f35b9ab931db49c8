---------------------------- MODULE MCConsignment ----------------------------
(* Consignment on small instances: everything a reseller's code may meet    *)
(* (Consignment_race.cfg), and the fate of a code taken back                *)
(* (Consignment_reclaimed.cfg).                                             *)
EXTENDS Consignment

\* A plan of GHS 12.50; 12.5 percent, and GHS 20.00 a code, which the price caps.
PlanPrices == {1250}
Commissions == {[type |-> "percent", value |-> 1250], [type |-> "fixed", value |-> 2000]}
==============================================================================
