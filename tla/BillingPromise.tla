---------------------------- MODULE BillingPromise ----------------------------
(***************************************************************************)
(* What the platform promises an operator about its standing, with none of *)
(* the columns, checkouts, ledgers and runs behind it.  The operator trades *)
(* until the platform stops it for a bill that is beyond its grace period, *)
(* and trades again as soon as it pays one; what the platform owner imposed *)
(* only the platform owner lifts.                                          *)
(***************************************************************************)
CONSTANT Invoice

VARIABLES standing,  \* of the operator
          bill       \* the stage of each invoice

Standings == {"trading", "stopped", "held", "gone"}
Unpaid == {"owed", "late", "beyond"}
Stages == Unpaid \cup {"none", "settled", "waived"}

Init == standing = "trading" /\ bill = [i \in Invoice |-> "none"]

Move(i, from, to) ==
  /\ bill[i] \in from
  /\ bill' = [bill EXCEPT ![i] = to]

Charge(i)  == Move(i, {"none"}, "owed") /\ UNCHANGED standing
PassGrace(i) == Move(i, {"late"}, "beyond") /\ UNCHANGED standing
Waive(i)   == Move(i, Unpaid, "waived") /\ UNCHANGED standing
Reverse(i) == Move(i, {"settled"}, "owed") /\ UNCHANGED standing

\* A waived invoice can still be paid at a checkout that was open.
Settle(i) ==
  /\ Move(i, Unpaid \cup {"waived"}, "settled")
  /\ standing' = IF standing = "stopped" THEN "trading" ELSE standing

\* The daily run: what is due becomes late, or beyond its grace at once.
MarkLate(S) ==
  /\ \A i \in S : bill[i] = "owed"
  /\ \A i \in S : bill'[i] \in {"late", "beyond"}
  /\ bill' = [i \in Invoice |-> IF i \in S THEN bill'[i] ELSE bill[i]]

Remind(S) == MarkLate(S) /\ UNCHANGED standing

Stop(S) ==
  /\ MarkLate(S)
  /\ \E i \in Invoice : bill'[i] = "beyond"
  /\ standing = "trading" /\ standing' = "stopped"

OwnerMoves == {<<"trading", "held">>, <<"trading", "gone">>, <<"stopped", "trading">>,
               <<"stopped", "gone">>, <<"held", "trading">>, <<"held", "gone">>,
               <<"gone", "trading">>}

OwnerDecides == <<standing, standing'>> \in OwnerMoves /\ UNCHANGED bill

Next ==
  \/ \E i \in Invoice : Charge(i) \/ PassGrace(i) \/ Waive(i) \/ Reverse(i) \/ Settle(i)
  \/ \E S \in SUBSET Invoice : Remind(S) \/ Stop(S)
  \/ OwnerDecides

Spec == Init /\ [][Next]_<<standing, bill>>
===============================================================================
