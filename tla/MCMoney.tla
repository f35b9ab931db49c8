------------------------------- MODULE MCMoney -------------------------------
(***************************************************************************)
(* Payments and Billing side by side, for one run of TLC: with sessions    *)
(* and handlers that race (Money_race.cfg), and with one session and one   *)
(* handler at a time (Money_serial.cfg), where they keep their promises.   *)
(* What the customers pay for vouchers and what the platform bills the     *)
(* operator share no state, so in every behaviour one of the two moves,    *)
(* `side`, and the other keeps its initial state: the state spaces add     *)
(* instead of multiply.  The properties are those of the two modules.      *)
(***************************************************************************)
EXTENDS MCPayments, MCBilling

VARIABLE side

money == <<side, vars, billing_vars>>

MoneyInit ==
  /\ side \in {"payments", "billing"}
  /\ Init /\ BillingInit
  /\ side = "payments" => trial = "none"

MoneyNext ==
  \/ side = "payments" /\ Next /\ UNCHANGED <<side, billing_vars>>
  \/ side = "billing" /\ BillingNext /\ UNCHANGED <<side, vars>>

MoneySpec == MoneyInit /\ [][MoneyNext]_money

\* Each side's own fairness, owed in the behaviours where it moves: the one
\* that stands still has steps it could take and never does.
MoneyFairness ==
  \/ side = "payments" /\ Fairness
  \/ side = "billing" /\ BillingFairness

MoneyFairSpec == MoneySpec /\ MoneyFairness
==============================================================================
