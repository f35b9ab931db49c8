-------------------------- MODULE ConsignmentProofs --------------------------
(* The codes of a reseller, for any set of codes, requests, prices and      *)
(* commissions: the types, what the reseller owes for, the promise, and     *)
(* what becomes of a code taken back.                                       *)
EXTENDS Consignment, TLAPS

-----------------------------------------------------------------------------
(* The commission.                                                          *)

LEMMA ShareWithinPrice ==
  ASSUME NEW p \in Nat, NEW v \in 0..Whole
  PROVE  Share(p, v) \in 0..p
<1> DEFINE x == p * v
           y == p * (10000 - v)
<1>1. x \in Nat /\ y \in Nat
  BY DEF Whole
<1>2. y = p * 10000 - x
  BY DEF Whole
<1> HIDE DEF x, y
<1>3. p * 10000 - x \in Nat
  BY <1>1, <1>2
<1>4. (x + 5000) \div 10000 \in 0..p
  BY <1>1, <1>3
<1>5. QED
  BY <1>4 DEF x, Share, Whole

\* The commission is never negative nor more than the price, whatever legal rate
\* is in force: the CHECK on the amounts never refuses a row.
LEMMA CommissionWithinPrice ==
  ASSUME NEW rt \in LegalRates, NEW p \in Nat
  PROVE  reseller_commission(rt, p) \in 0..p
<1>1. CASE rt.type = "percent"
  <2>1. rt.value \in 0..Whole
    BY <1>1 DEF LegalRates
  <2>2. Share(p, rt.value) \in 0..p
    BY <2>1, ShareWithinPrice
  <2>3. QED
    BY <1>1, <2>2 DEF reseller_commission
<1>2. CASE rt.type # "percent"
  <2>1. rt.value \in Nat
    BY <1>2 DEF LegalRates
  <2>2. QED
    BY <1>2, <2>1 DEF reseller_commission
<1>3. QED
  BY <1>1, <1>2

LEMMA ChargeType ==
  ASSUME TypeOK, NEW c \in Code, NEW source \in {"trigger", "repair"}
  PROVE  Charge(c, source) \in Redemptions
<1>1. reseller_commission(rate, price[c]) \in 0..price[c] /\ price[c] \in Nat
  BY CommissionWithinPrice DEF TypeOK
<1>2. QED
  BY <1>1 DEF Charge, Redemptions

-----------------------------------------------------------------------------
(* Types.                                                                   *)

LEMMA InsertType ==
  ASSUME TypeOK, NEW c \in Code, NEW source \in {"trigger", "repair"},
         redemption_insert(c, source)
  PROVE  redemption' \in [Code -> Redemptions \cup {NoRedemption}]
BY ChargeType DEF redemption_insert, TypeOK

LEMMA ErrorType ==
  ASSUME TypeOK, DatabaseError
  PROVE  faults' \in 0..MaxFaults
BY ConsignmentAssumption DEF DatabaseError, TypeOK

LEMMA TriggerType ==
  ASSUME TypeOK, NEW c \in Code, record_redemption(c)
  PROVE  /\ redemption' \in [Code -> Redemptions \cup {NoRedemption}]
         /\ faults' \in 0..MaxFaults
<1>1. CASE redemption_insert(c, "trigger") /\ UNCHANGED faults
  BY <1>1, InsertType DEF TypeOK
<1>2. CASE DatabaseError /\ UNCHANGED redemption
  BY <1>2, ErrorType DEF TypeOK
<1>3. QED
  BY <1>1, <1>2 DEF record_redemption

LEMMA InitType == Init => TypeOK
BY ConsignmentAssumption DEF Init, TypeOK, Statuses

LEMMA OperatorType ==
  ASSUME TypeOK, Operator
  PROVE  TypeOK'
<1>1. ASSUME NEW cs \in SUBSET Code, NEW p \in Prices, allocate(cs, p)
      PROVE  TypeOK'
  <2>1. p \in Nat
    BY ConsignmentAssumption
  <2>2. QED
    BY <1>1, <2>1 DEF TypeOK, allocate, Statuses
<1>2. ASSUME NEW cs \in SUBSET Code, reclaim(cs)
      PROVE  TypeOK'
  BY <1>2 DEF TypeOK, reclaim, Statuses
<1>3. ASSUME NEW rt \in Rates, set_commission(rt)
      PROVE  TypeOK'
  BY <1>3, ConsignmentAssumption DEF TypeOK, set_commission
<1>4. QED
  BY <1>1, <1>2, <1>3 DEF Operator

LEMMA ReadsType ==
  ASSUME TypeOK, VoucherReads
  PROVE  TypeOK'
<1>1. PICK r \in Request, c \in Code, to \in Statuses \ {"none"} : Reads(r, c, to)
  <2>1. PICK r \in Request, c \in Code :
          \/ disable_reads(r, c)
          \/ accounting_start_reads(r, c)
          \/ \E to \in Statuses : restore_reads(r, c, to) \/ end_reads(r, c, to)
    BY DEF VoucherReads
  <2>2. CASE disable_reads(r, c) \/ accounting_start_reads(r, c)
    BY <2>2 DEF disable_reads, accounting_start_reads, Statuses
  <2>3. ASSUME NEW to \in Statuses, restore_reads(r, c, to) \/ end_reads(r, c, to)
        PROVE  to # "none" /\ Reads(r, c, to)
    BY <2>3 DEF restore_reads, end_reads, RestoredStatuses
  <2>4. QED
    BY <2>1, <2>2, <2>3
<1>2. [code |-> c, to |-> to] \in Transitions
  BY DEF Transitions
<1>3. QED
  BY <1>1, <1>2 DEF TypeOK, Reads

LEMMA WritesType ==
  ASSUME TypeOK, VoucherWrites
  PROVE  TypeOK'
<1>1. ASSUME NEW c \in Code, accounting_start_sql(c)
      PROVE  TypeOK'
  BY <1>1, TriggerType DEF TypeOK, accounting_start_sql, Statuses
<1>2. ASSUME NEW cs \in SUBSET Code, expire_past_sell_by(cs)
      PROVE  TypeOK'
  BY <1>2 DEF TypeOK, expire_past_sell_by, Statuses
<1>3. ASSUME NEW r \in Request, transition_writes(r)
      PROVE  TypeOK'
  <2>1. request[r].code \in Code /\ request[r].to \in Statuses
    BY <1>3 DEF TypeOK, transition_writes, Transitions
  <2>2. /\ redemption' \in [Code -> Redemptions \cup {NoRedemption}]
        /\ faults' \in 0..MaxFaults
    BY <1>3, <2>1, TriggerType DEF TypeOK, transition_writes
  <2>3. QED
    BY <1>3, <2>1, <2>2 DEF TypeOK, transition_writes
<1>4. ASSUME NEW r \in Request, request_fails(r)
      PROVE  TypeOK'
  BY <1>4 DEF TypeOK, request_fails
<1>5. QED
  BY <1>1, <1>2, <1>3, <1>4 DEF VoucherWrites

LEMMA RepairType ==
  ASSUME TypeOK, Repair
  PROVE  TypeOK'
<1>1. CASE repair_selects
  BY <1>1 DEF TypeOK, repair_selects, Missing
<1>2. ASSUME NEW c \in missing, repair_inserts(c)
      PROVE  TypeOK'
  <2>1. c \in Code
    BY DEF TypeOK
  <2>2. redemption' \in [Code -> Redemptions \cup {NoRedemption}]
    BY <1>2, <2>1, InsertType DEF repair_inserts
  <2>3. QED
    BY <1>2, <2>2 DEF TypeOK, repair_inserts
<1>3. ASSUME NEW skipped, repair_fails(skipped)
      PROVE  TypeOK'
  BY <1>3, ErrorType DEF TypeOK, repair_fails
<1>4. QED
  BY <1>1, <1>2, <1>3 DEF Repair

\* The variables keep their types; in particular every amount recorded is a
\* number of pesewas, at any price and under any sequence of legal rates.
THEOREM TypeCorrect == Spec => []TypeOK
<1>1. TypeOK /\ [Next]_vars => TypeOK'
  <2>1. TypeOK /\ UNCHANGED vars => TypeOK'
    BY DEF TypeOK, vars
  <2>2. QED
    BY <2>1, OperatorType, ReadsType, WritesType, RepairType DEF Next
<1>2. QED
  BY <1>1, InitType, PTL DEF Spec

-----------------------------------------------------------------------------
(* What the reseller owes for.                                              *)

\* A charge is for a use; a repair run goes through used codes only; a code not
\* yet printed has neither.  A use is never forgotten, and only an unused code
\* is taken back, so this is inductive.
UseInv ==
  /\ OwesOnlyForUse
  /\ \A c \in missing : activated[c]
  /\ \A c \in Code : status[c] = "none" => allocation[c] = "none" /\ ~activated[c]

\* A charge goes to the code that is used or repaired, if it is chargeable.
LEMMA InsertOnly ==
  ASSUME TypeOK, NEW c \in Code, NEW source \in {"trigger", "repair"},
         redemption_insert(c, source)
  PROVE  /\ \A d \in Code : d # c => redemption'[d] = redemption[d]
         /\ ~Chargeable(c) => redemption' = redemption
         /\ Chargeable(c) => redemption'[c] \in Redemptions
BY ChargeType DEF redemption_insert, TypeOK

LEMMA TriggerOnly ==
  ASSUME TypeOK, NEW c \in Code, record_redemption(c)
  PROVE  /\ \A d \in Code : d # c => redemption'[d] = redemption[d]
         /\ ~Chargeable(c) => redemption' = redemption
         /\ Chargeable(c) => \/ redemption'[c] \in Redemptions
                             \/ redemption' = redemption
<1>1. CASE redemption_insert(c, "trigger")
  BY <1>1, InsertOnly
<1>2. CASE UNCHANGED redemption
  BY <1>2
<1>3. QED
  BY <1>1, <1>2 DEF record_redemption

\* What a status write does: the status becomes "to", a use is noted, and one may
\* be charged.  Both ways into "active" are of this form.
Writes(c, to) ==
  /\ status' = [status EXCEPT ![c] = to]
  /\ activated' = [activated EXCEPT ![c] = @ \/ to = "active"]
  /\ \/ to = "active" /\ record_redemption(c)
     \/ UNCHANGED redemption
  /\ UNCHANGED <<allocation, price, missing>>

LEMMA SqlWrites ==
  ASSUME TypeOK, NEW c \in Code, accounting_start_sql(c)
  PROVE  Writes(c, "active")
BY DEF Writes, accounting_start_sql, TypeOK

LEMMA TransitionWrites ==
  ASSUME TypeOK, NEW r \in Request, transition_writes(r)
  PROVE  \E c \in Code, to \in Statuses \ {"none"} : Writes(c, to)
<1>1. request[r].code \in Code /\ request[r].to \in Statuses \ {"none"}
  BY DEF TypeOK, transition_writes, Transitions
<1>2. Writes(request[r].code, request[r].to)
  BY DEF transition_writes, Writes
<1>3. QED
  BY <1>1, <1>2

LEMMA WritesKeepUse ==
  ASSUME TypeOK, UseInv, NEW c \in Code, NEW to \in Statuses \ {"none"}, Writes(c, to)
  PROVE  UseInv'
<1>1. \A d \in Code : activated[d] => activated'[d]
  BY DEF Writes, TypeOK
<1>2. ASSUME NEW d \in Code, redemption'[d] # NoRedemption
      PROVE  activated'[d] /\ allocation'[d] = "allocated"
  <2>1. CASE redemption'[d] = redemption[d]
    BY <1>1, <1>2, <2>1 DEF UseInv, OwesOnlyForUse, Writes
  <2>2. CASE redemption'[d] # redemption[d]
    <3>1. to = "active" /\ d = c /\ Chargeable(c)
      BY <2>2, TriggerOnly DEF Writes
    <3>2. QED
      BY <3>1 DEF Writes, Chargeable, TypeOK
  <2>3. QED
    BY <2>1, <2>2
<1>3. \A d \in missing' : activated'[d]
  BY <1>1 DEF UseInv, Writes, TypeOK
<1>4. \A d \in Code : status'[d] = "none" => allocation'[d] = "none" /\ ~activated'[d]
  BY DEF UseInv, Writes, TypeOK
<1>5. QED
  BY <1>2, <1>3, <1>4 DEF UseInv, OwesOnlyForUse

LEMMA OperatorKeepsUse ==
  ASSUME TypeOK, UseInv, Operator
  PROVE  UseInv'
<1>1. ASSUME NEW cs \in SUBSET Code, NEW p \in Prices, allocate(cs, p)
      PROVE  UseInv'
  <2>1. \A c \in cs : ~activated[c] /\ redemption[c] = NoRedemption
    BY <1>1 DEF allocate, UseInv, OwesOnlyForUse
  <2>2. QED
    BY <1>1, <2>1 DEF UseInv, OwesOnlyForUse, allocate, TypeOK
<1>2. ASSUME NEW cs \in SUBSET Code, reclaim(cs)
      PROVE  UseInv'
  <2>1. \A c \in cs : redemption[c] = NoRedemption
    BY <1>2 DEF reclaim, Reclaimable, UseInv, OwesOnlyForUse
  <2>2. QED
    BY <1>2, <2>1 DEF UseInv, OwesOnlyForUse, reclaim, Reclaimable, TypeOK
<1>3. ASSUME NEW rt \in Rates, set_commission(rt)
      PROVE  UseInv'
  BY <1>3 DEF UseInv, OwesOnlyForUse, set_commission
<1>4. QED
  BY <1>1, <1>2, <1>3 DEF Operator

\* Reading a voucher, or giving a request up, touches none of this.
Aside == UNCHANGED <<status, activated, allocation, redemption, missing>>

LEMMA ReadsAside == VoucherReads => Aside
BY DEF VoucherReads, disable_reads, accounting_start_reads, restore_reads, end_reads,
       Reads, Aside

LEMMA AsideKeepsUse == UseInv /\ Aside => UseInv'
BY DEF UseInv, OwesOnlyForUse, Aside

LEMMA VouchersKeepUse ==
  ASSUME TypeOK, UseInv, VoucherWrites
  PROVE  UseInv'
<1>1. ASSUME NEW c \in Code, accounting_start_sql(c)
      PROVE  UseInv'
  BY <1>1, SqlWrites, WritesKeepUse DEF Statuses
<1>2. ASSUME NEW cs \in SUBSET Code, expire_past_sell_by(cs)
      PROVE  UseInv'
  BY <1>2 DEF UseInv, OwesOnlyForUse, expire_past_sell_by, TypeOK
<1>3. ASSUME NEW r \in Request, transition_writes(r)
      PROVE  UseInv'
  BY <1>3, TransitionWrites, WritesKeepUse
<1>4. ASSUME NEW r \in Request, request_fails(r)
      PROVE  UseInv'
  BY <1>4, AsideKeepsUse DEF request_fails, Aside
<1>5. QED
  BY <1>1, <1>2, <1>3, <1>4 DEF VoucherWrites

LEMMA RepairKeepsUse ==
  ASSUME TypeOK, UseInv, Repair
  PROVE  UseInv'
<1>1. CASE repair_selects
  BY <1>1 DEF UseInv, OwesOnlyForUse, repair_selects, Missing
<1>2. ASSUME NEW c \in missing, repair_inserts(c)
      PROVE  UseInv'
  <2>1. c \in Code /\ activated[c]
    BY DEF TypeOK, UseInv
  <2>2. \A d \in Code : redemption'[d] # redemption[d] => d = c /\ Chargeable(c)
    BY <1>2, <2>1, InsertOnly DEF repair_inserts
  <2>3. QED
    BY <1>2, <2>1, <2>2 DEF UseInv, OwesOnlyForUse, repair_inserts, Chargeable
<1>3. ASSUME NEW skipped, repair_fails(skipped)
      PROVE  UseInv'
  BY <1>3 DEF UseInv, OwesOnlyForUse, repair_fails
<1>4. QED
  BY <1>1, <1>2, <1>3 DEF Repair

\* UseInv is inductive.
THEOREM UseHolds == Spec => []UseInv
<1>1. Init => UseInv
  BY DEF Init, UseInv, OwesOnlyForUse
<1>2. TypeOK /\ UseInv /\ [Next]_vars => UseInv'
  <2>1. UseInv /\ UNCHANGED vars => UseInv'
    BY AsideKeepsUse DEF Aside, vars
  <2>2. QED
    BY <2>1, OperatorKeepsUse, ReadsAside, AsideKeepsUse, VouchersKeepUse,
       RepairKeepsUse DEF Next
<1>3. QED
  BY <1>1, <1>2, TypeCorrect, PTL DEF Spec

\* Whatever the order of allocations, uses, reclaims, repairs, failing triggers
\* and stale status writes, the reseller owes only for codes that a customer used
\* and that were not taken back.
THEOREM OwesOnlyForUseAlways == Spec => []OwesOnlyForUse
<1>1. UseInv => OwesOnlyForUse
  BY DEF UseInv
<1>2. QED
  BY <1>1, UseHolds, PTL

-----------------------------------------------------------------------------
(* The promise.                                                             *)

\* Stage without the voucher's status, on which it does not depend.
StageOf(c) ==
  IF allocation[c] = "none" THEN "none"
  ELSE IF allocation[c] = "reclaimed" THEN "returned"
  ELSE IF redemption[c] # NoRedemption THEN "owed"
  ELSE IF activated[c] THEN "sold"
  ELSE "held"

StageMap == [c \in Code |-> Stage(c)]

LEMMA StageIsStageOf == TypeOK => StageMap = [c \in Code |-> StageOf(c)]
<1> SUFFICES ASSUME TypeOK
             PROVE  StageMap = [c \in Code |-> StageOf(c)]
  OBVIOUS
<1>1. \A c \in Code : allocation[c] \in {"none", "allocated", "reclaimed"}
  BY DEF TypeOK
<1>2. \A c \in Code : CodeState(c) =
        IF allocation[c] = "none" THEN "none"
        ELSE IF allocation[c] = "reclaimed" THEN "reclaimed"
        ELSE IF redemption[c] # NoRedemption \/ activated[c] THEN "redeemed"
        ELSE IF status[c] = "expired" THEN "expired"
        ELSE IF status[c] = "unused" THEN "remaining"
        ELSE "disabled"
  BY <1>1 DEF CodeState
<1>3. \A c \in Code : Stage(c) = StageOf(c)
  BY <1>1, <1>2 DEF Stage, StageOf
<1>4. QED
  BY <1>3 DEF StageMap

LEMMA StageAfterwards == TypeOK' => (StageMap = [c \in Code |-> StageOf(c)])'
BY StageIsStageOf, PTL

\* A step that moves the stages of the codes of cs and of no others.
LEMMA MoveOfCodes ==
  ASSUME TypeOK, TypeOK', NEW cs \in SUBSET Code, NEW from, NEW to,
         \A c \in cs : StageOf(c) \in from /\ StageOf(c)' = to,
         \A c \in Code \ cs : StageOf(c)' = StageOf(c)
  PROVE  Promise!Move(cs, from, to)
<1>1. /\ StageMap = [c \in Code |-> StageOf(c)]
      /\ StageMap' = [c \in Code |-> StageOf(c)']
  BY StageIsStageOf, StageAfterwards
<1>2. \A c \in cs : StageMap[c] \in from
  BY <1>1
<1>3. StageMap' = [c \in Code |-> IF c \in cs THEN to ELSE StageMap[c]]
  BY <1>1
<1>4. QED
  BY <1>2, <1>3 DEF Promise!Move, StageMap

Shown == <<StageMap, redemption>>

LEMMA NothingShown ==
  ASSUME TypeOK, TypeOK', UNCHANGED <<allocation, activated, redemption>>
  PROVE  UNCHANGED Shown
<1>1. /\ StageMap = [c \in Code |-> StageOf(c)]
      /\ StageMap' = [c \in Code |-> StageOf(c)']
  BY StageIsStageOf, StageAfterwards
<1>2. \A c \in Code : StageOf(c)' = StageOf(c)
  BY DEF StageOf
<1>3. QED
  BY <1>1, <1>2 DEF Shown

\* A use of code c, or its repair: sold, owed, or nothing new.
LEMMA UseShown ==
  ASSUME TypeOK, TypeOK', UseInv, NEW c \in Code,
         activated' = [activated EXCEPT ![c] = TRUE],
         UNCHANGED allocation,
         \A d \in Code : d # c => redemption'[d] = redemption[d],
         ~Chargeable(c) => redemption' = redemption,
         Chargeable(c) => redemption'[c] \in Redemptions \/ redemption' = redemption
  PROVE  Promise!Next \/ UNCHANGED Shown
<1>1. /\ activated'[c] = TRUE
      /\ \A d \in Code \ {c} : activated'[d] = activated[d]
  BY DEF TypeOK
<1>2. \A d \in Code \ {c} : StageOf(d)' = StageOf(d)
  BY <1>1 DEF StageOf
<1>3. CASE StageOf(c)' = StageOf(c) /\ redemption' = redemption
  <2>1. \A d \in Code : StageOf(d)' = StageOf(d)
    BY <1>2, <1>3
  <2>2. /\ StageMap = [d \in Code |-> StageOf(d)]
        /\ StageMap' = [d \in Code |-> StageOf(d)']
    BY StageIsStageOf, StageAfterwards
  <2>3. QED
    BY <1>3, <2>1, <2>2 DEF Shown
<1>4. CASE ~Chargeable(c)
  <2>1. StageOf(c)' = StageOf(c)
    BY <1>1, <1>4 DEF StageOf, Chargeable, TypeOK
  <2>2. QED
    BY <1>3, <1>4, <2>1
<1>5. CASE Chargeable(c) /\ redemption' = redemption
  <2>1. CASE activated[c]
    <3>1. StageOf(c)' = StageOf(c)
      BY <1>1, <1>5, <2>1 DEF StageOf
    <3>2. QED
      BY <1>3, <1>5, <3>1
  <2>2. CASE ~activated[c]
    <3>1. StageOf(c) = "held" /\ StageOf(c)' = "sold"
      BY <1>1, <1>5, <2>2 DEF StageOf, Chargeable
    <3>2. Promise!Move({c}, {"held"}, "sold")
      BY <1>2, <3>1, MoveOfCodes
    <3>3. QED
      BY <1>5, <3>2 DEF Promise!Next, Promise!Sell
  <2>3. QED
    BY <2>1, <2>2
<1>6. CASE Chargeable(c) /\ redemption'[c] \in Redemptions
  <2>1. StageOf(c) \in {"held", "sold"} /\ StageOf(c)' = "owed"
    BY <1>6, ConsignmentAssumption DEF StageOf, Chargeable
  <2>2. Promise!Move({c}, {"held", "sold"}, "owed")
    BY <1>2, <2>1, MoveOfCodes
  <2>3. redemption' = [redemption EXCEPT ![c] = redemption'[c]]
    BY DEF TypeOK
  <2>4. QED
    BY <1>6, <2>2, <2>3 DEF Promise!Next, Promise!Owe
<1>7. QED
  BY <1>4, <1>5, <1>6

LEMMA WritesShown ==
  ASSUME TypeOK, TypeOK', UseInv, NEW c \in Code, NEW to \in Statuses, Writes(c, to)
  PROVE  Promise!Next \/ UNCHANGED Shown
<1>1. CASE to = "active" /\ record_redemption(c)
  <2>1. activated' = [activated EXCEPT ![c] = TRUE]
    BY <1>1 DEF Writes, TypeOK
  <2>2. QED
    BY <1>1, <2>1, TriggerOnly, UseShown DEF Writes
<1>2. CASE UNCHANGED redemption
  <2>1. CASE to = "active"
    <3>1. activated' = [activated EXCEPT ![c] = TRUE]
      BY <2>1 DEF Writes, TypeOK
    <3>2. QED
      BY <1>2, <3>1, UseShown DEF Writes
  <2>2. CASE to # "active"
    <3>1. activated' = activated
      BY <2>2 DEF Writes, TypeOK
    <3>2. QED
      BY <1>2, <3>1, NothingShown DEF Writes
  <2>3. QED
    BY <2>1, <2>2
<1>3. QED
  BY <1>1, <1>2 DEF Writes

LEMMA OperatorShown ==
  ASSUME TypeOK, TypeOK', UseInv, Operator
  PROVE  Promise!Next \/ UNCHANGED Shown
<1>1. ASSUME NEW cs \in SUBSET Code, NEW p \in Prices, allocate(cs, p)
      PROVE  Promise!Next
  <2>1. \A c \in cs : StageOf(c) \in {"none"} /\ StageOf(c)' = "held"
    BY <1>1 DEF allocate, StageOf, UseInv, OwesOnlyForUse
  <2>2. \A c \in Code \ cs : StageOf(c)' = StageOf(c)
    BY <1>1 DEF allocate, StageOf
  <2>3. Promise!Move(cs, {"none"}, "held")
    BY <2>1, <2>2, MoveOfCodes
  <2>4. QED
    BY <1>1, <2>3 DEF allocate, Promise!Next, Promise!HandOut
<1>2. ASSUME NEW cs \in SUBSET Code, reclaim(cs)
      PROVE  Promise!Next
  <2>1. \A c \in cs : StageOf(c) \in {"held"} /\ StageOf(c)' = "returned"
    BY <1>2 DEF reclaim, Reclaimable, StageOf, UseInv, OwesOnlyForUse
  <2>2. \A c \in Code \ cs : StageOf(c)' = StageOf(c)
    BY <1>2 DEF reclaim, StageOf
  <2>3. Promise!Move(cs, {"held"}, "returned")
    BY <2>1, <2>2, MoveOfCodes
  <2>4. QED
    BY <1>2, <2>3 DEF reclaim, Promise!Next, Promise!Return
<1>3. ASSUME NEW rt \in Rates, set_commission(rt)
      PROVE  UNCHANGED Shown
  BY <1>3, NothingShown DEF set_commission
<1>4. QED
  BY <1>1, <1>2, <1>3 DEF Operator

LEMMA VouchersShown ==
  ASSUME TypeOK, TypeOK', UseInv, VoucherWrites
  PROVE  Promise!Next \/ UNCHANGED Shown
<1>1. ASSUME NEW c \in Code, accounting_start_sql(c)
      PROVE  Promise!Next \/ UNCHANGED Shown
  BY <1>1, SqlWrites, WritesShown DEF Statuses
<1>2. ASSUME NEW cs \in SUBSET Code, expire_past_sell_by(cs)
      PROVE  UNCHANGED Shown
  BY <1>2, NothingShown DEF expire_past_sell_by
<1>3. ASSUME NEW r \in Request, transition_writes(r)
      PROVE  Promise!Next \/ UNCHANGED Shown
  BY <1>3, TransitionWrites, WritesShown
<1>4. ASSUME NEW r \in Request, request_fails(r)
      PROVE  UNCHANGED Shown
  BY <1>4, NothingShown DEF request_fails
<1>5. QED
  BY <1>1, <1>2, <1>3, <1>4 DEF VoucherWrites

LEMMA RepairShown ==
  ASSUME TypeOK, TypeOK', UseInv, Repair
  PROVE  Promise!Next \/ UNCHANGED Shown
<1>1. CASE repair_selects
  BY <1>1, NothingShown DEF repair_selects
<1>2. ASSUME NEW c \in missing, repair_inserts(c)
      PROVE  Promise!Next \/ UNCHANGED Shown
  <2>1. c \in Code /\ activated[c] = TRUE
    BY DEF TypeOK, UseInv
  <2>2. activated' = [activated EXCEPT ![c] = TRUE]
    BY <1>2, <2>1 DEF repair_inserts, TypeOK
  <2>3. QED
    BY <1>2, <2>1, <2>2, InsertOnly, UseShown DEF repair_inserts
<1>3. ASSUME NEW skipped, repair_fails(skipped)
      PROVE  UNCHANGED Shown
  BY <1>3, NothingShown DEF repair_fails
<1>4. QED
  BY <1>1, <1>2, <1>3 DEF Repair

\* What the operator and the reseller see implements ConsignmentPromise: for any
\* number of codes and of requests at once, a code is returned unsold or charged
\* once, and the charge and the return are final.
THEOREM PromiseIsKept == Spec => KeepsPromise
<1>1. Init => Promise!Init
  <2>1. Init => StageMap = [c \in Code |-> "none"]
    BY DEF Init, StageMap, Stage, CodeState
  <2>2. QED
    BY <2>1 DEF Init, Promise!Init, StageMap
<1>2. TypeOK /\ TypeOK' /\ UseInv /\ [Next]_vars => [Promise!Next]_Shown
  <2>1. TypeOK /\ TypeOK' /\ (UNCHANGED vars \/ VoucherReads) => UNCHANGED Shown
    <3>1. UNCHANGED vars \/ VoucherReads => UNCHANGED <<allocation, activated, redemption>>
      BY ReadsAside DEF Aside, vars
    <3>2. QED
      BY <3>1, NothingShown
  <2>2. QED
    BY <2>1, OperatorShown, VouchersShown, RepairShown DEF Next
<1>3. QED
  BY <1>1, <1>2, TypeCorrect, UseHolds, PTL
  DEF Spec, KeepsPromise, Promise!Spec, Shown, StageMap
-----------------------------------------------------------------------------
(* A code taken back.                                                       *)

\* No status change that was decided before a code was taken back, and none
\* that restores it, is about to make it usable.
NoRevival ==
  \A r \in Request :
    request[r] # NoTransition /\ allocation[request[r].code] = "reclaimed"
      => request[r].to \notin {"unused", "active"}

\* A code taken back was never used, and what ends a use is written to used
\* codes only.
DeadInv ==
  /\ ReclaimedIsDead
  /\ \A c \in Code : status[c] = "active" => activated[c]
  /\ \A c \in Code : allocation[c] = "reclaimed" => ~activated[c]
  /\ \A r \in Request : request[r] # NoTransition /\ request[r].to \in {"expired", "exhausted"}
                          => activated[request[r].code]

LEMMA OperatorKeepsDead ==
  ASSUME TypeOK, UseInv, DeadInv, Operator
  PROVE  DeadInv'
<1>1. ASSUME NEW cs \in SUBSET Code, NEW p \in Prices, allocate(cs, p)
      PROVE  DeadInv'
  BY <1>1 DEF DeadInv, ReclaimedIsDead, UseInv, allocate, TypeOK
<1>2. ASSUME NEW cs \in SUBSET Code, reclaim(cs)
      PROVE  DeadInv'
  BY <1>2 DEF DeadInv, ReclaimedIsDead, reclaim, Reclaimable, TypeOK
<1>3. ASSUME NEW rt \in Rates, set_commission(rt)
      PROVE  DeadInv'
  BY <1>3 DEF DeadInv, ReclaimedIsDead, set_commission
<1>4. QED
  BY <1>1, <1>2, <1>3 DEF Operator

LEMMA ReadsKeepDead ==
  ASSUME TypeOK, DeadInv, VoucherReads
  PROVE  DeadInv'
<1>1. PICK r \in Request, c \in Code, to \in Statuses :
        Reads(r, c, to) /\ (to \in {"expired", "exhausted"} => activated[c])
  <2>1. PICK r \in Request, c \in Code :
          \/ disable_reads(r, c)
          \/ accounting_start_reads(r, c)
          \/ \E to \in Statuses : restore_reads(r, c, to) \/ end_reads(r, c, to)
    BY DEF VoucherReads
  <2>2. CASE disable_reads(r, c) \/ accounting_start_reads(r, c)
    BY <2>2 DEF disable_reads, accounting_start_reads, Statuses
  <2>3. ASSUME NEW to \in Statuses, restore_reads(r, c, to) \/ end_reads(r, c, to)
        PROVE  Reads(r, c, to) /\ (to \in {"expired", "exhausted"} => activated[c])
    BY <2>3 DEF restore_reads, end_reads, RestoredStatuses, DeadInv
  <2>4. QED
    BY <2>1, <2>2, <2>3
<1>2. \A q \in Request : request'[q] = IF q = r THEN [code |-> c, to |-> to] ELSE request[q]
  BY <1>1 DEF Reads, TypeOK
<1>3. \A q \in Request : request'[q] # NoTransition /\ request'[q].to \in {"expired", "exhausted"}
                           => activated'[request'[q].code]
  BY <1>1, <1>2 DEF Reads, DeadInv
<1>4. QED
  BY <1>1, <1>3 DEF Reads, DeadInv, ReclaimedIsDead

LEMMA WritesKeepDead ==
  ASSUME TypeOK, DeadInv, NoRevival, VoucherWrites
  PROVE  DeadInv'
<1>1. ASSUME NEW c \in Code, accounting_start_sql(c)
      PROVE  DeadInv'
  BY <1>1 DEF DeadInv, ReclaimedIsDead, accounting_start_sql, TypeOK, Transitions
<1>2. ASSUME NEW cs \in SUBSET Code, expire_past_sell_by(cs)
      PROVE  DeadInv'
  BY <1>2 DEF DeadInv, ReclaimedIsDead, expire_past_sell_by, TypeOK
<1>3. ASSUME NEW r \in Request, transition_writes(r)
      PROVE  DeadInv'
  <2> DEFINE c == request[r].code
             to == request[r].to
  <2>1. c \in Code /\ to \in Statuses \ {"none"}
    BY <1>3 DEF TypeOK, transition_writes, Transitions
  <2>2. allocation[c] = "reclaimed" => to = "disabled"
    BY <1>3, <2>1 DEF DeadInv, NoRevival, transition_writes, Statuses
  <2>3. /\ \A d \in Code : status'[d] = IF d = c THEN to ELSE status[d]
        /\ \A d \in Code : activated'[d] = IF d = c THEN activated[d] \/ to = "active"
                                                     ELSE activated[d]
    BY <1>3, <2>1 DEF transition_writes, TypeOK
  <2>4. allocation' = allocation
    BY <1>3 DEF transition_writes
  <2>5. \A q \in Request : request'[q] = IF q = r THEN NoTransition ELSE request[q]
    BY <1>3 DEF transition_writes, TypeOK
  <2> HIDE DEF c, to
  <2>6. \A d \in Code : allocation'[d] = "reclaimed" => status'[d] = "disabled" /\ ~activated'[d]
    BY <2>2, <2>3, <2>4 DEF DeadInv, ReclaimedIsDead
  <2>7. \A d \in Code : status'[d] = "active" => activated'[d]
    BY <2>3 DEF DeadInv
  <2>8. \A d \in Code : activated[d] => activated'[d]
    BY <2>3
  <2>9. \A q \in Request : request'[q] # NoTransition /\ request'[q].to \in {"expired", "exhausted"}
                             => activated'[request'[q].code]
    BY <2>5, <2>8 DEF DeadInv, TypeOK, Transitions
  <2>10. QED
    BY <2>6, <2>7, <2>9 DEF DeadInv, ReclaimedIsDead
<1>4. ASSUME NEW r \in Request, request_fails(r)
      PROVE  DeadInv'
  BY <1>4 DEF DeadInv, ReclaimedIsDead, request_fails, TypeOK
<1>5. QED
  BY <1>1, <1>2, <1>3, <1>4 DEF VoucherWrites

\* A code taken back stays disabled unless the vouchers page restores it, or an
\* Accounting-Start that read it before is written after: no other writer, stale
\* or not, brings it back.
THEOREM ReclaimedUnlessRevived == Spec /\ []NoRevival => []ReclaimedIsDead
<1>1. Init => DeadInv
  BY DEF Init, DeadInv, ReclaimedIsDead
<1>2. TypeOK /\ UseInv /\ DeadInv /\ NoRevival /\ [Next]_vars => DeadInv'
  <2>1. Repair \/ UNCHANGED vars => UNCHANGED <<status, activated, allocation, request>>
    BY DEF Repair, repair_selects, repair_inserts, repair_fails, vars
  <2>2. DeadInv /\ UNCHANGED <<status, activated, allocation, request>> => DeadInv'
    BY DEF DeadInv, ReclaimedIsDead
  <2>3. QED
    BY <2>1, <2>2, OperatorKeepsDead, ReadsKeepDead, WritesKeepDead DEF Next
<1>3. DeadInv => ReclaimedIsDead
  BY DEF DeadInv
<1>4. QED
  BY <1>1, <1>2, <1>3, TypeCorrect, UseHolds, PTL DEF Spec
==============================================================================
