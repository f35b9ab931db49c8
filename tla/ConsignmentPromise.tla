-------------------------- MODULE ConsignmentPromise --------------------------
(***************************************************************************)
(* What the reseller's account promises about its codes, with none of the  *)
(* database behind it.  The operator hands codes out; a code comes back    *)
(* unsold, or a customer uses it and it is charged to the reseller, once   *)
(* and at an amount that nothing changes afterwards.                       *)
(***************************************************************************)
CONSTANTS Code, Charges, NoCharge

VARIABLES stage, charge

Stages == {"none", "held", "sold", "owed", "returned"}

Init ==
  /\ stage = [c \in Code |-> "none"]
  /\ charge = [c \in Code |-> NoCharge]

Move(cs, from, to) ==
  /\ \A c \in cs : stage[c] \in from
  /\ stage' = [c \in Code |-> IF c \in cs THEN to ELSE stage[c]]

HandOut(cs) == Move(cs, {"none"}, "held") /\ UNCHANGED charge
Return(cs)  == Move(cs, {"held"}, "returned") /\ UNCHANGED charge
\* The database could not record the use at once.
Sell(c)     == Move({c}, {"held"}, "sold") /\ UNCHANGED charge
Owe(c)      == /\ Move({c}, {"held", "sold"}, "owed")
               /\ charge' = [charge EXCEPT ![c] = charge'[c]]
               /\ charge'[c] \in Charges

Next ==
  \/ \E cs \in SUBSET Code : HandOut(cs) \/ Return(cs)
  \/ \E c \in Code : Sell(c) \/ Owe(c)

Spec == Init /\ [][Next]_<<stage, charge>>
===============================================================================
