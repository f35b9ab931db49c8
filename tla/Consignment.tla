----------------------------- MODULE Consignment -----------------------------
(***************************************************************************)
(* One reseller's codes on consignment: the operator allocates them,       *)
(* customers use them, a database trigger charges each use to the          *)
(* reseller, a nightly job adds the charges the trigger failed to record,  *)
(* and the operator takes unsold codes back.  Meanwhile the vouchers page, *)
(* the accounting endpoint and the expiry job move the status of the same  *)
(* vouchers, each by reading it and writing it back later.                 *)
(*                                                                         *)
(* Time is left out: a sell-by date or a plan may run out at any moment or *)
(* never.  A request that is refused changes nothing and is no step here.  *)
(***************************************************************************)
EXTENDS Integers

CONSTANTS Code, Request,
          Prices,         \* of a plan, in pesewas
          Rates,          \* commissions the operator may set
          MaxFaults,      \* bound: database errors and worker crashes
          NoRedemption, NoTransition

\* A percentage is in hundredths of a percent, a fixed commission in pesewas.
Whole == 10000
LegalRates == [type : {"percent"}, value : 0..Whole]
              \cup [type : {"fixed"}, value : Nat]

VARIABLES status,      \* vouchers.status; none: not printed yet
          activated,   \* whether vouchers.activated_at is set
          allocation,  \* reseller_voucher_allocations.status
          price,       \* unit_price_ghs of the code's allocation
          redemption,  \* the code's row of reseller_redemptions
          rate,        \* the commission in force for the reseller
          request,     \* status changes read but not yet written
          missing,     \* codes a repair run has yet to go through
          faults

vars == <<status, activated, allocation, price, redemption, rate, request,
          missing, faults>>

Statuses == {"none", "unused", "active", "exhausted", "expired", "disabled"}

Redemptions == [commission : Nat, owed : Nat, source : {"trigger", "repair"}]
Transitions == [code : Code, to : Statuses \ {"none"}]

ASSUME ConsignmentAssumption ==
  /\ Prices \subseteq Nat
  /\ Rates \subseteq LegalRates
  /\ MaxFaults \in Nat
  /\ NoRedemption \notin Redemptions /\ NoTransition \notin Transitions

TypeOK ==
  /\ status \in [Code -> Statuses]
  /\ activated \in [Code -> BOOLEAN]
  /\ allocation \in [Code -> {"none", "allocated", "reclaimed"}]
  /\ price \in [Code -> Nat]
  /\ redemption \in [Code -> Redemptions \cup {NoRedemption}]
  /\ rate \in LegalRates
  /\ request \in [Request -> Transitions \cup {NoTransition}]
  /\ missing \subseteq Code
  /\ faults \in 0..MaxFaults

Init ==
  /\ status = [c \in Code |-> "none"]
  /\ activated = [c \in Code |-> FALSE]
  /\ allocation = [c \in Code |-> "none"]
  /\ price = [c \in Code |-> 0]
  /\ redemption = [c \in Code |-> NoRedemption]
  /\ rate \in Rates
  /\ request = [r \in Request |-> NoTransition]
  /\ missing = {}
  /\ faults = 0

-----------------------------------------------------------------------------
(* The charge.                                                             *)

\* round(price * value / 100, 2), half up; or the fixed amount, up to the price.
Share(p, value) == (p * value + Whole \div 2) \div Whole

reseller_commission(rt, p) ==
  IF rt.type = "percent" THEN Share(p, rt.value)
  ELSE IF rt.value <= p THEN rt.value ELSE p

Charge(c, source) ==
  LET amount == reseller_commission(rate, price[c])
  IN [commission |-> amount, owed |-> price[c] - amount, source |-> source]

\* A code that is still allocated, and not yet charged (UNIQUE(voucher_id) with
\* ON CONFLICT DO NOTHING).
ChargeableTwice(c) == allocation[c] = "allocated"   \* mutant: no UNIQUE
Chargeable(c) == allocation[c] = "allocated" /\ redemption[c] = NoRedemption

redemption_insert(c, source) ==
  redemption' = IF Chargeable(c)
                THEN [redemption EXCEPT ![c] = Charge(c, source)]
                ELSE redemption

DatabaseError == faults < MaxFaults /\ faults' = faults + 1

\* The trigger on unused -> active.  It fails open: the activation stands.
record_redemption(c) ==
  \/ redemption_insert(c, "trigger") /\ UNCHANGED faults
  \/ DatabaseError /\ UNCHANGED redemption

-----------------------------------------------------------------------------
(* The operator and the reseller.                                          *)

\* New codes of one plan at the plan's price now, in one transaction.
allocate(cs, p) ==
  /\ \A c \in cs : status[c] = "none"
  /\ status' = [c \in Code |-> IF c \in cs THEN "unused" ELSE status[c]]
  /\ allocation' = [c \in Code |-> IF c \in cs THEN "allocated" ELSE allocation[c]]
  /\ price' = [c \in Code |-> IF c \in cs THEN p ELSE price[c]]
  /\ UNCHANGED <<activated, redemption, rate, request, missing, faults>>

\* Either the codes named, all of them, or what is left of an allocation.  The
\* rows of both tables are locked, then tested again.
ReclaimableUnused(c) ==   \* mutant: activated_at is not looked at
  allocation[c] = "allocated" /\ status[c] = "unused"
Reclaimable(c) ==
  allocation[c] = "allocated" /\ status[c] = "unused" /\ ~activated[c]

reclaim(cs) ==
  /\ \A c \in cs : Reclaimable(c)
  /\ status' = [c \in Code |-> IF c \in cs THEN "disabled" ELSE status[c]]
  /\ allocation' = [c \in Code |-> IF c \in cs THEN "reclaimed" ELSE allocation[c]]
  /\ UNCHANGED <<activated, price, redemption, rate, request, missing, faults>>

\* The operator's default or the reseller's own rate; applies from now on.
set_commission(rt) ==
  /\ rt # rate
  /\ rate' = rt
  /\ UNCHANGED <<status, activated, allocation, price, redemption, request,
                 missing, faults>>

-----------------------------------------------------------------------------
(* The voucher's status.                                                   *)

\* FreeRADIUS's Accounting-Start: one statement, guarded by the status.
accounting_start_sql(c) ==
  /\ status[c] = "unused"
  /\ status' = [status EXCEPT ![c] = "active"]
  /\ activated' = [activated EXCEPT ![c] = TRUE]
  /\ record_redemption(c)
  /\ UNCHANGED <<allocation, price, rate, request, missing>>

\* One guarded UPDATE over every unused code past its sell-by date.
expire_past_sell_by(cs) ==
  /\ \A c \in cs : status[c] = "unused"
  /\ status' = [c \in Code |-> IF c \in cs THEN "expired" ELSE status[c]]
  /\ UNCHANGED <<activated, allocation, price, redemption, rate, request,
                 missing, faults>>

\* Everybody else reads the voucher, decides on its next status ...
Reads(r, c, to) ==
  /\ request[r] = NoTransition
  /\ request' = [request EXCEPT ![r] = [code |-> c, to |-> to]]
  /\ UNCHANGED <<status, activated, allocation, price, redemption, rate,
                 missing, faults>>

disable_reads(r, c) ==
  /\ status[c] \in {"unused", "active", "exhausted", "expired"}
  /\ Reads(r, c, "disabled")

RestoredStatuses(c) ==
  IF activated[c] THEN {"active", "expired", "exhausted"} ELSE {"unused"}

restore_reads(r, c, to) ==
  /\ status[c] = "disabled"
  /\ to \in RestoredStatuses(c)
  /\ Reads(r, c, to)

accounting_start_reads(r, c) ==
  /\ status[c] = "unused"
  /\ Reads(r, c, "active")

\* The expiry job, and the accounting endpoint for data used up.
end_reads(r, c, to) ==
  /\ status[c] = "active"
  /\ to \in {"expired", "exhausted"}
  /\ Reads(r, c, to)

\* ... and writes it, over whatever the row holds by then.  What becomes active
\* has its activation time, from then or from before.
transition_writes(r) ==
  /\ request[r] # NoTransition
  /\ LET c  == request[r].code
         to == request[r].to
     IN /\ status' = [status EXCEPT ![c] = to]
        /\ activated' = [activated EXCEPT ![c] = @ \/ to = "active"]
        /\ IF status[c] = "unused" /\ to = "active"
           THEN record_redemption(c)
           ELSE UNCHANGED <<redemption, faults>>
  /\ request' = [request EXCEPT ![r] = NoTransition]
  /\ UNCHANGED <<allocation, price, rate, missing>>

\* The request dies or is rolled back.
request_fails(r) ==
  /\ request[r] # NoTransition
  /\ request' = [request EXCEPT ![r] = NoTransition]
  /\ UNCHANGED <<status, activated, allocation, price, redemption, rate,
                 missing, faults>>

-----------------------------------------------------------------------------
(* The nightly repair, one run at a time (module JobLock).                 *)

MissingUsed == {c \in Code :   \* mutant: looks at the status
  status[c] = "active" /\ allocation[c] = "allocated" /\ redemption[c] = NoRedemption}
Missing == {c \in Code :
  activated[c] /\ allocation[c] = "allocated" /\ redemption[c] = NoRedemption}

repair_selects ==
  /\ missing = {}
  /\ Missing # {}
  /\ missing' = Missing
  /\ UNCHANGED <<status, activated, allocation, price, redemption, rate,
                 request, faults>>

\* One transaction per code.
repair_inserts(c) ==
  /\ c \in missing
  /\ redemption_insert(c, "repair")
  /\ missing' = missing \ {c}
  /\ UNCHANGED <<status, activated, allocation, price, rate, request, faults>>

\* An error skips the code until tomorrow; a crash skips all that are left.
repair_fails(skipped) ==
  /\ DatabaseError
  /\ missing' = missing \ skipped
  /\ UNCHANGED <<status, activated, allocation, price, redemption, rate, request>>

-----------------------------------------------------------------------------
Operator ==
  \/ \E cs \in SUBSET Code \ {{}} : \/ \E p \in Prices : allocate(cs, p)
                                    \/ reclaim(cs)
  \/ \E rt \in Rates : set_commission(rt)

VoucherReads ==
  \E r \in Request, c \in Code :
    \/ disable_reads(r, c)
    \/ accounting_start_reads(r, c)
    \/ \E to \in Statuses : restore_reads(r, c, to) \/ end_reads(r, c, to)

VoucherWrites ==
  \/ \E c \in Code : accounting_start_sql(c)
  \/ \E cs \in SUBSET Code \ {{}} : expire_past_sell_by(cs)
  \/ \E r \in Request : transition_writes(r) \/ request_fails(r)

Repair ==
  \/ repair_selects
  \/ \E c \in missing : repair_inserts(c) \/ repair_fails({c})
  \/ missing # {} /\ repair_fails(missing)

Next == Operator \/ VoucherReads \/ VoucherWrites \/ Repair

Spec == Init /\ [][Next]_vars

\* The cron starts the repair every night and a run goes on; errors are bounded
\* by MaxFaults.  Nothing is assumed of customers, operators or requests.
FairSpec ==
  /\ Spec
  /\ WF_vars(repair_selects)
  /\ WF_vars(\E c \in Code : repair_inserts(c))

-----------------------------------------------------------------------------
\* What the operator and the reseller see of a code.
CodeState(c) ==
  CASE allocation[c] = "none"      -> "none"
    [] allocation[c] = "reclaimed" -> "reclaimed"
    [] allocation[c] = "allocated" ->
         IF redemption[c] # NoRedemption \/ activated[c] THEN "redeemed"
         ELSE IF status[c] = "expired" THEN "expired"
         ELSE IF status[c] = "unused" THEN "remaining"
         ELSE "disabled"

\* The stage of ConsignmentPromise that it stands for.
Stage(c) ==
  CASE CodeState(c) = "none"      -> "none"
    [] CodeState(c) = "reclaimed" -> "returned"
    [] CodeState(c) = "redeemed"  ->
         IF redemption[c] = NoRedemption THEN "sold" ELSE "owed"
    [] OTHER -> "held"

Promise == INSTANCE ConsignmentPromise
  WITH stage <- [c \in Code |-> Stage(c)], charge <- redemption,
       Charges <- Redemptions, NoCharge <- NoRedemption

\* The reseller owes only for codes a customer has used and that were not taken
\* back: the trigger, the repair, reclaims and stale status writes never leave a
\* charge on a code that is the operator's or that nobody used.
OwesOnlyForUse ==
  \A c \in Code : redemption[c] # NoRedemption =>
                   activated[c] /\ allocation[c] = "allocated"

\* What is shown of each code implements the promise: a code comes back unsold
\* or is charged once, a charge is never changed, and neither is undone,
\* although a code may become active twice and rates change.
KeepsPromise == Promise!Spec

\* A use that the trigger failed to record is charged in the end
\* (jobs/reseller_redemption_repair.py), whatever happens to the voucher.
EveryUseIsCharged ==
  \A c \in Code : (activated[c] /\ allocation[c] = "allocated")
                   ~> redemption[c] # NoRedemption

\* "Each is disabled for good" (reclaim in consignment.py).
ReclaimedIsDead == \A c \in Code : allocation[c] = "reclaimed" => status[c] = "disabled"
==============================================================================
