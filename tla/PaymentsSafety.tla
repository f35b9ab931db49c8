--------------------------- MODULE PaymentsSafety ---------------------------
(***************************************************************************)
(* The safety properties of Payments, from invariants that are inductive:  *)
(* SaleInv (what rows and loaded objects know of vouchers), PaidInv (who   *)
(* has heard of a success) and LiveInv (which objects are still pending);  *)
(* and, when no session holds a stale copy of the row, from StageInv and   *)
(* TextInv, that a payment keeps its promise.                              *)
(***************************************************************************)
EXTENDS PaymentsProofs

\* Rows and objects only name vouchers that were issued.
SaleInv ==
  /\ row.voucher <= issued
  /\ row.status = "success" => row.voucher # 0
  /\ \A s \in Session : obj[s].voucher <= issued

-----------------------------------------------------------------------------
(* SuccessHasVoucher.                                                       *)

\* How a session's end changes the objects.
LEMMA EndSale ==
  ASSUME SessionOK, NEW s \in Session, NEW n \in Nat,
         \A t \in Session : obj[t].voucher <= n,
         End(s) \/ Done(s)
  PROVE  \A t \in Session : obj'[t].voucher <= n
  BY DEF End, Done, SessionOK, NoRow

LEMMA DoneRefreshedSale ==
  ASSUME SessionOK, NEW s \in Session, NEW n \in Nat, NEW r \in Rows,
         r.voucher <= n, \A t \in Session : obj[t].voucher <= n,
         DoneRefreshed(s, r)
  PROVE  \A t \in Session : obj'[t].voucher <= n
  BY DEF DoneRefreshed, End, Load, SessionOK, NoRow

LEMMA LoadSale ==
  ASSUME SessionOK, NEW s \in Session, NEW n \in Nat, NEW r \in Rows,
         r.voucher <= n, \A t \in Session : obj[t].voucher <= n,
         Load(s, r)
  PROVE  \A t \in Session : obj'[t].voucher <= n
  BY DEF Load, SessionOK

\* A flush that sells nothing keeps the row's voucher and makes no success.
LEMMA FlushedSale ==
  ASSUME NEW old \in Rows, NEW new \in Rows, row \in Rows,
         new.voucher = old.voucher,
         new.status = old.status \/ new.status # "success"
  PROVE  /\ Flushed(old, new).voucher = row.voucher
         /\ Flushed(old, new).status = "success" => row.status = "success"
  BY DEF Flushed, Put

LEMMA SaleInit == Init => SaleInv
  BY DEF Init, SaleInv, NoRow

LEMMA SalePortal ==
  ASSUME TypeOK, SaleInv, NEW s \in Session,
         \/ create_pending_transaction(s) \/ initiate_payment(s)
         \/ resolve_failed_initiation(s) \/ continue_payment(s)
         \/ submit_input(s) \/ portal_payment_status(s)
         \/ verify_payment(s) \/ verify_answers(s) \/ verify_unreachable(s)
  PROVE  SaleInv'
  <1> USE DEF TypeOK, StateOK, SaleInv
  <1>1. CASE create_pending_transaction(s)
    <2>1. row' \in Rows /\ row'.voucher = 0 /\ row'.status = "pending"
      BY <1>1 DEF create_pending_transaction, NoRow, Rows, Statuses, Reasons, Actions
    <2>2. Load(s, row') /\ UNCHANGED issued
      BY <1>1 DEF create_pending_transaction, Start
    <2>3. \A t \in Session : obj'[t].voucher <= issued
      BY <2>1, <2>2, LoadSale
    <2> QED  BY <2>1, <2>2, <2>3
  <1>2. CASE initiate_payment(s)
    BY <1>2, EndSale DEF initiate_payment
  <1>3. CASE resolve_failed_initiation(s)
    <2> DEFINE new == [obj[s] EXCEPT !.status = "failed", !.reason = "provider",
                                     !.next = "none"]
    <2>1. new \in Rows /\ new.voucher = obj[s].voucher /\ new.status = "failed"
      BY DEF SessionOK, Rows, Statuses, Reasons, Actions
    <2>2. /\ row'.voucher = row.voucher
          /\ row'.status = "success" => row.status = "success"
      BY <1>3, <2>1, FlushedSale DEF resolve_failed_initiation, SessionOK
    <2> QED  BY <1>3, <2>2, EndSale DEF resolve_failed_initiation
  <1>4. CASE continue_payment(s) \/ portal_payment_status(s) \/ verify_payment(s)
    BY <1>4, LoadSale DEF continue_payment, portal_payment_status, verify_payment, Start
  <1>5. CASE submit_input(s)
    BY <1>5, EndSale DEF submit_input
  <1>6. CASE verify_answers(s)
    BY <1>6 DEF verify_answers
  <1>7. CASE verify_unreachable(s)
    BY <1>7, EndSale DEF verify_unreachable
  <1> QED  BY <1>1, <1>2, <1>3, <1>4, <1>5, <1>6, <1>7

LEMMA SaleSettle ==
  ASSUME TypeOK, SaleInv, NEW s \in Session,
         \/ apply_provider_result(s) \/ apply_late_result(s)
         \/ resolve_successful_payment(s) \/ enqueue_voucher_sms(s)
         \/ apply_webhook_update(s) \/ fail_by_webhook(s)
  PROVE  SaleInv'
  <1> USE DEF TypeOK, StateOK, SaleInv
  <1> obj[s] \in Rows /\ ans[s] \in Answers
    BY DEF SessionOK
  <1>1. CASE apply_provider_result(s)
    <2> DEFINE v == ans[s].status
               heard == [obj[s] EXCEPT !.ref = TRUE, !.next = ans[s].next,
                           !.reason = IF v = "failed" THEN "provider" ELSE @]
               new == IF Confirms(v) THEN heard ELSE [heard EXCEPT !.status = v]
    <2>1. /\ new \in Rows
          /\ new.voucher = obj[s].voucher
          /\ new.status = obj[s].status \/ new.status # "success"
      BY DEF Rows, Answers, Statuses, Reasons, Verdicts, Confirms
    <2>2. /\ row' = Flushed(obj[s], new)
          /\ row' \in Rows
          /\ row'.voucher = row.voucher
          /\ row'.status = "success" => row.status = "success"
      BY <1>1, <2>1, FlushedSale, FlushedType DEF apply_provider_result
    <2>3. \/ Load(s, new)
          \/ Load(s, row')
          \/ DoneRefreshed(s, row')
      BY <1>1 DEF apply_provider_result
    <2>4. \A t \in Session : obj'[t].voucher <= issued
      <3>1. CASE Load(s, new)
        BY <3>1, <2>1, LoadSale
      <3>2. CASE Load(s, row')
        BY <3>2, <2>2, LoadSale
      <3>3. CASE DoneRefreshed(s, row')
        BY <3>3, <2>2, DoneRefreshedSale
      <3> QED  BY <2>3, <3>1, <3>2, <3>3
    <2> QED  BY <1>1, <2>2, <2>4 DEF apply_provider_result
  <1>2. CASE apply_late_result(s)
    <2> DEFINE v == ans[s].status
               new == IF Confirms(v) THEN [obj[s] EXCEPT !.ref = TRUE]
                      ELSE [obj[s] EXCEPT !.reason = IF v = "failed" THEN "provider" ELSE @]
    <2>1. new \in Rows /\ new.voucher = obj[s].voucher /\ new.status = obj[s].status
      BY DEF Rows, Reasons
    <2>2. /\ row'.voucher = row.voucher
          /\ row'.status = "success" => row.status = "success"
      BY <1>2, <2>1, FlushedSale DEF apply_late_result
    <2>3. Load(s, new) \/ End(s)
      BY <1>2 DEF apply_late_result
    <2>4. \A t \in Session : obj'[t].voucher <= issued
      BY <2>1, <2>3, LoadSale, EndSale
    <2> QED  BY <1>2, <2>2, <2>4 DEF apply_late_result
  <1>3. CASE resolve_successful_payment(s)
    <2>1. CASE AlreadySold(obj[s]) \/ Contradicted(obj[s])
      BY <1>3, <2>1, EndSale DEF resolve_successful_payment
    <2>2. CASE ~(AlreadySold(obj[s]) \/ Contradicted(obj[s]))
      <3> DEFINE new == Sold(obj[s], issued + 1)
      <3>1. issued' = issued + 1 /\ row' = Flushed(obj[s], new)
        BY <1>3, <2>2 DEF resolve_successful_payment
      <3> HIDE DEF TypeOK, StateOK, SaleInv
      <3>2. new \in Rows /\ new.voucher = issued + 1
        <4>1. ASSUME NEW n \in Nat
              PROVE  Sold(obj[s], n) \in Rows /\ Sold(obj[s], n).voucher = n
          BY <4>1 DEF Sold, Rows, Statuses, Reasons, Actions
        <4>2. issued + 1 \in Nat
          BY DEF TypeOK, StateOK
        <4> QED  BY <4>1, <4>2
      <3> USE DEF TypeOK, StateOK, SaleInv
      <3>3. row' \in Rows
        BY <3>1, <3>2, FlushedType
      <3>4. obj[s].voucher \in Nat /\ obj[s].voucher <= issued
        BY DEF Rows
      <3>5. row'.voucher = issued'
        BY <3>1, <3>2, <3>4 DEF Flushed, Put
      <3>6. Load(s, row') \/ DoneRefreshed(s, row')
        BY <1>3, <2>2 DEF resolve_successful_payment
      <3>7. \A t \in Session : obj[t].voucher <= issued'
        BY <3>1 DEF SessionOK, Rows
      <3>8. \A t \in Session : obj'[t].voucher <= issued'
        BY <3>1, <3>3, <3>5, <3>6, <3>7, LoadSale, DoneRefreshedSale
      <3> QED  BY <3>1, <3>5, <3>8
    <2> QED  BY <2>1, <2>2
  <1>4. CASE enqueue_voucher_sms(s)
    BY <1>4, EndSale DEF enqueue_voucher_sms
  <1>5. CASE apply_webhook_update(s)
    <2> DEFINE new == [obj[s] EXCEPT !.next = IF ans[s].status = "pending" THEN @ ELSE "none"]
    <2>1. new \in Rows /\ new.voucher = obj[s].voucher /\ new.status = obj[s].status
      BY DEF Rows, Actions
    <2>2. /\ row'.voucher = row.voucher
          /\ row'.status = "success" => row.status = "success"
      BY <1>5, <2>1, FlushedSale DEF apply_webhook_update
    <2>3. Load(s, new) \/ End(s)
      BY <1>5 DEF apply_webhook_update
    <2>4. \A t \in Session : obj'[t].voucher <= issued
      BY <2>1, <2>3, LoadSale, EndSale
    <2> QED  BY <1>5, <2>2, <2>4 DEF apply_webhook_update
  <1>6. CASE fail_by_webhook(s)
    <2> DEFINE new == [obj[s] EXCEPT !.status = "failed", !.reason = "provider",
                                     !.next = "none"]
    <2>1. new \in Rows /\ new.voucher = obj[s].voucher /\ new.status = "failed"
      BY DEF Rows, Statuses, Reasons, Actions
    <2>2. /\ row'.voucher = row.voucher
          /\ row'.status = "success" => row.status = "success"
      BY <1>6, <2>1, FlushedSale DEF fail_by_webhook
    <2> QED  BY <1>6, <2>2, EndSale DEF fail_by_webhook
  <1> QED  BY <1>1, <1>2, <1>3, <1>4, <1>5, <1>6

LEMMA SaleJobs ==
  ASSUME TypeOK, SaleInv, NEW s \in Session,
         \/ process_paystack_event(s) \/ process_flutterwave_event(s)
         \/ run_payment_reconciliation(s) \/ reconcile_item(s)
         \/ reconcile_timeout(s) \/ recheck_timed_out(s) \/ Crash(s)
  PROVE  SaleInv'
  <1> USE DEF TypeOK, StateOK, SaleInv
  <1> obj[s] \in Rows
    BY DEF SessionOK
  <1> DEFINE new == TimedOut(obj[s])
  <1>1. new \in Rows /\ new.voucher = obj[s].voucher /\ new.status = "failed"
    BY DEF TimedOut, Rows, Statuses, Reasons
  <1>2. /\ Flushed(obj[s], new).voucher = row.voucher
        /\ Flushed(obj[s], new).status = "success" => row.status = "success"
    BY <1>1, FlushedSale
  <1>3. CASE process_paystack_event(s) \/ process_flutterwave_event(s)
    <2>1. row' = [row EXCEPT !.ref = TRUE]
      BY <1>3 DEF process_paystack_event, process_flutterwave_event
    <2>2. row' \in Rows /\ row'.voucher = row.voucher /\ row'.status = row.status
      BY <2>1 DEF Rows
    <2>3. Load(s, row') \/ UNCHANGED obj
      BY <1>3 DEF process_paystack_event, process_flutterwave_event, Start, session
    <2>4. UNCHANGED issued
      BY <1>3 DEF process_paystack_event, process_flutterwave_event
    <2> QED  BY <2>2, <2>3, <2>4, LoadSale
  <1>4. CASE run_payment_reconciliation(s)
    BY <1>4, LoadSale DEF run_payment_reconciliation
  <1>5. CASE reconcile_item(s)
    <2>1. CASE UNCHANGED <<row, obj>>
      BY <1>5, <2>1 DEF reconcile_item
    <2>2. CASE Done(s) /\ UNCHANGED row
      BY <1>5, <2>2, EndSale DEF reconcile_item
    <2>3. CASE row' = Flushed(obj[s], new) /\ DoneRefreshed(s, new)
      BY <1>5, <2>3, <1>1, <1>2, DoneRefreshedSale DEF reconcile_item
    <2> QED  BY <1>5, <2>1, <2>2, <2>3 DEF reconcile_item
  <1>6. CASE reconcile_timeout(s)
    BY <1>6, <1>1, <1>2, DoneRefreshedSale DEF reconcile_timeout
  <1>7. CASE recheck_timed_out(s)
    <2>1. Load(s, row) \/ Load(s, obj[s]) \/ End(s)
      BY <1>7 DEF recheck_timed_out
    <2> QED  BY <1>7, <2>1, LoadSale, EndSale DEF recheck_timed_out
  <1>8. CASE Crash(s)
    BY <1>8, EndSale DEF Crash
  <1> QED  BY <1>3, <1>4, <1>5, <1>6, <1>7, <1>8

LEMMA SaleOther ==
  ASSUME TypeOK, SaleInv,
         \/ ProviderMoves \/ send_voucher_sms \/ sms_result_expires
         \/ refund_payment \/ TimePasses \/ CheckAges \/ UNCHANGED vars
  PROVE  SaleInv'
  <1>1. UNCHANGED <<obj, issued>>
    BY DEF ProviderMoves, send_voucher_sms, sms_result_expires, refund_payment,
           TimePasses, CheckAges, vars, session
  <1>2. row' = row \/ row' = [row EXCEPT !.status = "refunded"]
    BY DEF ProviderMoves, send_voucher_sms, sms_result_expires, refund_payment,
           TimePasses, CheckAges, vars
  <1> QED  BY <1>1, <1>2 DEF SaleInv, TypeOK, StateOK, Rows

LEMMA SaleStep == TypeOK /\ SaleInv /\ [Next]_vars => SaleInv'
  BY SalePortal, SaleSettle, SaleJobs, SaleOther DEF Next, SessionStep

\* A payment that says success always names a voucher that was issued.
THEOREM SuccessAlwaysHasVoucher == Spec => []SuccessHasVoucher
  <1>1. TypeOK /\ SaleInv => SuccessHasVoucher
    BY DEF TypeOK, StateOK, SaleInv, SuccessHasVoucher, Rows
  <1> QED  BY <1>1, SaleInit, SaleStep, TypeCorrect, PTL DEF Spec

-----------------------------------------------------------------------------
(* VoucherOnlyWhenPaid.                                                     *)

\* Nobody has heard of a success, or sold a voucher, unless the charge was
\* paid; a charge is only opened once, by the one session that initiates.
PaidInv ==
  /\ issued > 0 => Paid
  /\ "success" \in said => Paid
  /\ \A s \in Session : ans[s].status = "success" => Paid
  /\ \A s \in Session : pc[s] = "resolve" => Paid
  /\ row.status = "absent" => charge = "none" /\ \A s \in Session : pc[s] = "idle"
  /\ \A s \in Session : pc[s] = "initiate" => charge = "none"
  /\ \A s, t \in Session : pc[s] = "initiate" /\ pc[t] = "initiate" => s = t

\* How a session's end changes its step and its answer.
LEMMA EndPaid ==
  ASSUME SessionOK, NEW s \in Session, NEW r,
         End(s) \/ Done(s) \/ DoneRefreshed(s, r)
  PROVE  /\ pc'[s] \in {"idle", "recheck"}
         /\ ans'[s].status = "pending"
         /\ \A t \in Session \ {s} : pc'[t] = pc[t] /\ ans'[t] = ans[t]
  BY DEF End, Done, DoneRefreshed, Goto, Answer, SessionOK, NoAnswer

\* A session that goes to any other step than resolve and initiate, with no
\* new news of a success, keeps PaidInv whatever it does to the row.
LEMMA QuietPaid ==
  ASSUME TypeOK, PaidInv, NEW s \in Session,
         UNCHANGED <<charge, said, issued>>,
         row'.status # "absent",
         pc'[s] = "resolve" => Paid,
         pc'[s] # "initiate",
         ans'[s].status = "success" => Paid,
         \A t \in Session \ {s} : pc'[t] = pc[t] /\ ans'[t] = ans[t]
  PROVE  PaidInv'
  BY DEF PaidInv, Paid

\* A flush leaves a payment that exists.
LEMMA FlushedExists ==
  ASSUME NEW old \in Rows, NEW new \in Rows, row \in Rows,
         row.status # "absent",
         new.status = old.status \/ new.status # "absent"
  PROVE  Flushed(old, new).status # "absent"
  BY DEF Flushed, Put

\* What the provider's moves preserve: a success is only spoken of a paid
\* charge, and a paid charge stays one.
LEMMA SettlePaid ==
  ASSUME TypeOK, PaidInv, NEW c \in {"none", "open", "failed", "paid", "reversed"},
         Settle(c), Paid => c \in {"paid", "reversed"}
  PROVE  /\ Paid => Paid'
         /\ "success" \in said' => Paid'
         /\ \A a \in VerdictOf(c) : a.status = "success" => Paid'
  BY DEF PaidInv, Paid, Settle, Told, VerdictOf

LEMMA PaidInit == Init => PaidInv
  BY DEF Init, PaidInv, NoRow, NoAnswer

LEMMA PaidPortal ==
  ASSUME TypeOK, PaidInv, NEW s \in Session,
         \/ create_pending_transaction(s) \/ initiate_payment(s)
         \/ resolve_failed_initiation(s) \/ continue_payment(s)
         \/ submit_input(s) \/ portal_payment_status(s)
  PROVE  PaidInv'
  <1>0. SessionOK /\ row \in Rows /\ obj[s] \in Rows /\ ans[s] \in Answers
    BY DEF TypeOK, StateOK, SessionOK
  <1>1. CASE create_pending_transaction(s)
    <2>1. row'.status = "pending"
      BY <1>1 DEF create_pending_transaction, NoRow
    <2>2. /\ UNCHANGED <<charge, said, issued, ans>>
          /\ row.status = "absent"
          /\ pc' = [pc EXCEPT ![s] = "initiate"]
      BY <1>1 DEF create_pending_transaction, Start, Goto, provider
    <2> QED  BY <1>0, <2>1, <2>2 DEF PaidInv, Paid, SessionOK
  <1>2. CASE initiate_payment(s)
    <2>1. /\ pc[s] = "initiate" /\ charge = "none" /\ ~Paid
          /\ row' = row /\ row.status # "absent" /\ issued' = issued
          /\ \A t \in Session \ {s} : pc[t] # "initiate"
      BY <1>2 DEF initiate_payment, PaidInv, Paid
    <2>2. /\ \A t \in Session \ {s} : pc'[t] = pc[t] /\ ans'[t] = ans[t]
          /\ pc'[s] \in {"apply", "rejected", "idle"}
      BY <1>0, <1>2, EndPaid DEF initiate_payment, Goto, Answer, SessionOK, End, NoAnswer
    <2>3. ("success" \in said' => Paid') /\ (ans'[s].status = "success" => Paid')
      <3>1. ASSUME NEW c \in {"open", "paid", "failed"}, Settle(c),
                   NEW a \in VerdictOf(c), Answer(s, a)
            PROVE  ("success" \in said' => Paid') /\ (ans'[s].status = "success" => Paid')
        BY <1>0, <2>1, <3>1, SettlePaid DEF Answer, SessionOK
      <3>2. CASE UNCHANGED <<charge, said>> /\ Answer(s, [status |-> "failed", next |-> "none"])
        BY <1>0, <2>1, <3>2 DEF Answer, SessionOK, PaidInv
      <3>3. CASE UNCHANGED <<said, ans>>
        BY <2>1, <3>3 DEF PaidInv
      <3>4. CASE UNCHANGED said /\ End(s)
        BY <1>0, <2>1, <3>4, EndPaid DEF PaidInv
      <3> QED  BY <1>2, <3>1, <3>2, <3>3, <3>4 DEF initiate_payment
    <2> QED  BY <2>1, <2>2, <2>3 DEF PaidInv
  <1>3. CASE resolve_failed_initiation(s)
    <2> DEFINE new == [obj[s] EXCEPT !.status = "failed", !.reason = "provider",
                                     !.next = "none"]
    <2>1. new \in Rows /\ new.status = "failed"
      BY <1>0 DEF Rows, Statuses, Reasons, Actions
    <2>2. row.status # "absent"
      BY <1>3 DEF resolve_failed_initiation, PaidInv
    <2>3. row'.status # "absent"
      BY <1>0, <1>3, <2>1, <2>2, FlushedExists DEF resolve_failed_initiation
    <2> QED  BY <1>0, <1>3, <2>3, EndPaid, QuietPaid
             DEF resolve_failed_initiation, provider
  <1>4. CASE continue_payment(s) \/ portal_payment_status(s)
    <2>1. /\ UNCHANGED <<row, charge, said, issued, ans>>
          /\ row.status # "absent"
          /\ \/ pc' = [pc EXCEPT ![s] = "submit"]
             \/ pc' = [pc EXCEPT ![s] = "verify"]
      BY <1>4 DEF continue_payment, portal_payment_status, Start, Goto, provider
    <2> QED  BY <1>0, <2>1, QuietPaid DEF SessionOK, PaidInv
  <1>5. CASE submit_input(s)
    <2>1. PICK c \in {"none", "open", "failed", "paid", "reversed"} :
            /\ Settle(c)
            /\ Paid => c \in {"paid", "reversed"}
            /\ \/ \E a \in VerdictOf(c) : Answer(s, a) /\ Goto(s, "apply")
               \/ End(s)
      BY <1>5 DEF submit_input, Paid, TypeOK, StateOK
    <2>2. /\ row' = row /\ row.status # "absent" /\ issued' = issued
          /\ \A t \in Session : pc[t] = "initiate" => charge' = "none"
      BY <1>5 DEF submit_input, PaidInv, Settle, Paid
    <2>3. /\ \A t \in Session \ {s} : pc'[t] = pc[t] /\ ans'[t] = ans[t]
          /\ pc'[s] \in {"apply", "idle"}
      BY <1>0, <2>1, EndPaid DEF Goto, Answer, SessionOK, End, NoAnswer
    <2>4. /\ Paid => Paid'
          /\ "success" \in said' => Paid'
          /\ ans'[s].status = "success" => Paid'
      BY <1>0, <2>1, SettlePaid, EndPaid DEF Answer, SessionOK
    <2> QED  BY <2>2, <2>3, <2>4 DEF PaidInv
  <1> QED  BY <1>1, <1>2, <1>3, <1>4, <1>5

LEMMA PaidSettle ==
  ASSUME TypeOK, PaidInv, NEW s \in Session,
         \/ verify_payment(s) \/ verify_answers(s) \/ verify_unreachable(s)
         \/ apply_provider_result(s) \/ apply_late_result(s)
         \/ resolve_successful_payment(s) \/ enqueue_voucher_sms(s)
  PROVE  PaidInv'
  <1>0. SessionOK /\ row \in Rows /\ obj[s] \in Rows /\ ans[s] \in Answers
    BY DEF TypeOK, StateOK, SessionOK
  <1>1. CASE verify_payment(s)
    <2>1. /\ UNCHANGED <<row, charge, said, issued, ans>>
          /\ row.status # "absent"
          /\ pc' = [pc EXCEPT ![s] = "verify"]
      BY <1>1 DEF verify_payment, CanForce, Start, Goto, provider
    <2> QED  BY <1>0, <2>1, QuietPaid DEF SessionOK, PaidInv
  <1>2. CASE verify_answers(s)
    <2>1. /\ UNCHANGED <<row, charge, said, issued>>
          /\ row.status # "absent"
          /\ pc' = [pc EXCEPT ![s] = AfterVerify(s)]
      BY <1>2 DEF verify_answers, Goto, provider, PaidInv
    <2>2. PICK a \in VerdictOf(charge) : ans' = [ans EXCEPT ![s] = a]
      BY <1>2 DEF verify_answers, Answer
    <2>3. a.status = "success" => Paid
      BY DEF VerdictOf, Paid
    <2>4. AfterVerify(s) \in {"apply", "late_result"}
      BY DEF AfterVerify
    <2> QED  BY <1>0, <2>1, <2>2, <2>3, <2>4, QuietPaid DEF SessionOK
  <1>3. CASE verify_unreachable(s) \/ enqueue_voucher_sms(s)
    <2>1. UNCHANGED <<row, charge, said, issued>> /\ row.status # "absent" /\ Done(s)
      BY <1>3 DEF verify_unreachable, enqueue_voucher_sms, provider, PaidInv
    <2> QED  BY <1>0, <2>1, EndPaid, QuietPaid
  <1>4. CASE apply_provider_result(s)
    <2> DEFINE v == ans[s].status
               heard == [obj[s] EXCEPT !.ref = TRUE, !.next = ans[s].next,
                           !.reason = IF v = "failed" THEN "provider" ELSE @]
               new == IF Confirms(v) THEN heard ELSE [heard EXCEPT !.status = v]
    <2>1. new \in Rows /\ (new.status = obj[s].status \/ new.status # "absent")
      BY <1>0 DEF Rows, Answers, Statuses, Reasons, Verdicts
    <2>2. row' = Flushed(obj[s], new) /\ row.status # "absent"
      BY <1>4 DEF apply_provider_result, PaidInv
    <2>3. row'.status # "absent"
      BY <1>0, <2>1, <2>2, FlushedExists
    <2>4. /\ UNCHANGED <<charge, said, issued>>
          /\ \/ Confirms(v) /\ Goto(s, "resolve") /\ UNCHANGED ans
             \/ Goto(s, "timeout") /\ UNCHANGED ans
             \/ DoneRefreshed(s, row')
      BY <1>4 DEF apply_provider_result, provider
    <2>5. CASE Confirms(v) /\ Goto(s, "resolve") /\ UNCHANGED ans
      BY <1>0, <2>3, <2>4, <2>5, QuietPaid DEF Confirms, Goto, SessionOK, PaidInv
    <2>6. CASE Goto(s, "timeout") /\ UNCHANGED ans
      BY <1>0, <2>3, <2>4, <2>6, QuietPaid DEF Goto, SessionOK, PaidInv
    <2>7. CASE DoneRefreshed(s, row')
      BY <1>0, <2>3, <2>4, <2>7, EndPaid, QuietPaid
    <2> QED  BY <2>4, <2>5, <2>6, <2>7
  <1>5. CASE apply_late_result(s)
    <2> DEFINE v == ans[s].status
               new == IF Confirms(v) THEN [obj[s] EXCEPT !.ref = TRUE]
                      ELSE [obj[s] EXCEPT !.reason = IF v = "failed" THEN "provider" ELSE @]
    <2>1. new \in Rows /\ new.status = obj[s].status
      BY <1>0 DEF Rows, Reasons
    <2>2. row'.status # "absent"
      BY <1>0, <1>5, <2>1, FlushedExists DEF apply_late_result, PaidInv
    <2>3. /\ UNCHANGED <<charge, said, issued>>
          /\ \/ Confirms(v) /\ Goto(s, "resolve") /\ UNCHANGED ans
             \/ End(s)
      BY <1>5 DEF apply_late_result, provider
    <2>4. CASE Confirms(v) /\ Goto(s, "resolve") /\ UNCHANGED ans
      BY <1>0, <2>2, <2>3, <2>4, QuietPaid DEF Confirms, Goto, SessionOK, PaidInv
    <2>5. CASE End(s)
      BY <1>0, <2>2, <2>3, <2>5, EndPaid, QuietPaid
    <2> QED  BY <2>3, <2>4, <2>5
  <1>6. CASE resolve_successful_payment(s)
    <2>1. Paid /\ row.status # "absent" /\ UNCHANGED <<charge, said>>
      BY <1>6 DEF resolve_successful_payment, PaidInv, provider
    <2>2. row'.status # "absent"
      <3>1. CASE UNCHANGED row
        BY <2>1, <3>1
      <3>2. CASE ~UNCHANGED row
        <4>1. row' = Flushed(obj[s], Sold(obj[s], issued + 1))
          BY <1>6, <3>2 DEF resolve_successful_payment
        <4>2. Sold(obj[s], issued + 1).status = "success"
          BY <1>0 DEF Sold, Rows
        <4> QED  BY <2>1, <4>1, <4>2 DEF Flushed, Put
      <3> QED  BY <3>1, <3>2
    <2>3. /\ pc'[s] \in {"idle", "recheck", "enqueue"}
          /\ \A t \in Session \ {s} : pc'[t] = pc[t]
      <3>1. CASE Goto(s, "enqueue")
        BY <1>0, <3>1 DEF Goto, SessionOK
      <3>2. CASE ~Goto(s, "enqueue")
        BY <1>0, <1>6, <3>2, EndPaid DEF resolve_successful_payment
      <3> QED  BY <3>1, <3>2
    <2> QED  BY <2>1, <2>2, <2>3 DEF PaidInv, Paid
  <1> QED  BY <1>1, <1>2, <1>3, <1>4, <1>5, <1>6

LEMMA PaidJobs ==
  ASSUME TypeOK, PaidInv, NEW s \in Session,
         \/ process_paystack_event(s) \/ process_flutterwave_event(s)
         \/ apply_webhook_update(s) \/ fail_by_webhook(s)
         \/ run_payment_reconciliation(s) \/ reconcile_item(s)
         \/ reconcile_timeout(s) \/ recheck_timed_out(s) \/ Crash(s)
  PROVE  PaidInv'
  <1>0. SessionOK /\ row \in Rows /\ obj[s] \in Rows /\ ans[s] \in Answers
    BY DEF TypeOK, StateOK, SessionOK
  <1>1. CASE process_paystack_event(s)
    <2>1. /\ UNCHANGED <<charge, said, issued>>
          /\ pc' = [pc EXCEPT ![s] = "webhook"]
          /\ row' = [row EXCEPT !.ref = TRUE] /\ row.status # "absent"
      BY <1>1 DEF process_paystack_event, provider, Goto
    <2>2. PICK v \in said \cup {"pending"} :
            ans' = [ans EXCEPT ![s] = [status |-> v, next |-> "none"]]
      BY <1>1 DEF process_paystack_event, Answer
    <2>3. v = "success" => Paid
      BY DEF PaidInv
    <2>4. row'.status # "absent"
      BY <1>0, <2>1 DEF Rows
    <2> QED  BY <1>0, <2>1, <2>2, <2>3, <2>4, QuietPaid DEF SessionOK
  <1>2. CASE process_flutterwave_event(s)
    <2>1. /\ UNCHANGED <<charge, said, issued, ans>>
          /\ pc' = [pc EXCEPT ![s] = "verify"] \/ UNCHANGED pc
          /\ pc[s] = "idle"
          /\ row' = [row EXCEPT !.ref = TRUE] /\ row.status # "absent"
      BY <1>2 DEF process_flutterwave_event, provider, session, Start, Goto
    <2>2. row'.status # "absent"
      BY <1>0, <2>1 DEF Rows
    <2> QED  BY <1>0, <2>1, <2>2, QuietPaid DEF SessionOK, PaidInv
  <1>3. CASE apply_webhook_update(s)
    <2> DEFINE v == ans[s].status
               new == [obj[s] EXCEPT !.next = IF v = "pending" THEN @ ELSE "none"]
    <2>1. new \in Rows /\ new.status = obj[s].status
      BY <1>0 DEF Rows, Actions
    <2>2. row'.status # "absent"
      BY <1>0, <1>3, <2>1, FlushedExists DEF apply_webhook_update, PaidInv
    <2>3. /\ UNCHANGED <<charge, said, issued>>
          /\ \/ Confirms(v) /\ Goto(s, "resolve") /\ UNCHANGED ans
             \/ Goto(s, "webhook_failed") /\ UNCHANGED ans
             \/ End(s)
      BY <1>3 DEF apply_webhook_update, provider
    <2>4. CASE Confirms(v) /\ Goto(s, "resolve") /\ UNCHANGED ans
      BY <1>0, <2>2, <2>3, <2>4, QuietPaid DEF Confirms, Goto, SessionOK, PaidInv
    <2>5. CASE Goto(s, "webhook_failed") /\ UNCHANGED ans
      BY <1>0, <2>2, <2>3, <2>5, QuietPaid DEF Goto, SessionOK, PaidInv
    <2>6. CASE End(s)
      BY <1>0, <2>2, <2>3, <2>6, EndPaid, QuietPaid
    <2> QED  BY <2>3, <2>4, <2>5, <2>6
  <1>4. CASE fail_by_webhook(s)
    <2> DEFINE new == [obj[s] EXCEPT !.status = "failed", !.reason = "provider",
                                     !.next = "none"]
    <2>1. new \in Rows /\ new.status = "failed"
      BY <1>0 DEF Rows, Statuses, Reasons, Actions
    <2>2. row'.status # "absent"
      BY <1>0, <1>4, <2>1, FlushedExists DEF fail_by_webhook, PaidInv
    <2> QED  BY <1>0, <1>4, <2>2, EndPaid, QuietPaid DEF fail_by_webhook, provider
  <1>5. CASE run_payment_reconciliation(s)
    <2>1. /\ UNCHANGED <<row, charge, said, issued, ans>>
          /\ row.status # "absent"
          /\ pc' = [pc EXCEPT ![s] = "item"] \/ pc' = [pc EXCEPT ![s] = "recheck"]
      BY <1>5 DEF run_payment_reconciliation, Goto, provider
    <2> QED  BY <1>0, <2>1, QuietPaid DEF SessionOK, PaidInv
  <1> DEFINE late == Flushed(obj[s], TimedOut(obj[s]))
  <1>10. row.status # "absent" => late.status # "absent"
    <2>1. TimedOut(obj[s]) \in Rows /\ TimedOut(obj[s]).status = "failed"
      BY <1>0 DEF TimedOut, Rows, Statuses, Reasons
    <2> QED  BY <1>0, <2>1, FlushedExists
  <1>6. CASE reconcile_item(s)
    <2>1. /\ UNCHANGED <<charge, said, issued>>
          /\ row.status # "absent"
          /\ row' = row \/ row' = late
          /\ \/ Goto(s, "verify") /\ UNCHANGED ans
             \/ DoneRefreshed(s, TimedOut(obj[s]))
             \/ Done(s)
      BY <1>6 DEF reconcile_item, provider, PaidInv
    <2>2. CASE Goto(s, "verify") /\ UNCHANGED ans
      BY <1>0, <1>10, <2>1, <2>2, QuietPaid DEF Goto, SessionOK, PaidInv
    <2>3. CASE DoneRefreshed(s, TimedOut(obj[s])) \/ Done(s)
      BY <1>0, <1>10, <2>1, <2>3, EndPaid, QuietPaid
    <2> QED  BY <2>1, <2>2, <2>3
  <1>7. CASE reconcile_timeout(s)
    <2>1. /\ UNCHANGED <<charge, said, issued>>
          /\ row.status # "absent"
          /\ row' = late
          /\ DoneRefreshed(s, TimedOut(obj[s]))
      BY <1>7 DEF reconcile_timeout, provider, PaidInv
    <2> QED  BY <1>0, <1>10, <2>1, EndPaid, QuietPaid
  <1>8. CASE recheck_timed_out(s)
    <2>1. /\ UNCHANGED <<row, charge, said, issued>>
          /\ row.status # "absent"
          /\ (Goto(s, "verify") /\ UNCHANGED ans) \/ End(s)
      BY <1>8 DEF recheck_timed_out, provider, PaidInv
    <2>2. CASE Goto(s, "verify") /\ UNCHANGED ans
      BY <1>0, <2>1, <2>2, QuietPaid DEF Goto, SessionOK, PaidInv
    <2>3. CASE End(s)
      BY <1>0, <2>1, <2>3, EndPaid, QuietPaid
    <2> QED  BY <2>1, <2>2, <2>3
  <1>9. CASE Crash(s)
    <2>1. UNCHANGED <<row, charge, said, issued>> /\ row.status # "absent" /\ End(s)
      BY <1>9 DEF Crash, provider, PaidInv
    <2> QED  BY <1>0, <2>1, EndPaid, QuietPaid
  <1> QED  BY <1>1, <1>2, <1>3, <1>4, <1>5, <1>6, <1>7, <1>8, <1>9

LEMMA PaidOther ==
  ASSUME TypeOK, PaidInv,
         \/ ProviderMoves \/ send_voucher_sms \/ sms_result_expires
         \/ refund_payment \/ TimePasses \/ CheckAges \/ UNCHANGED vars
  PROVE  PaidInv'
  <1>1. CASE ProviderMoves
    <2>1. PICK c \in {"paid", "failed", "reversed"} :
            /\ charge # "none"
            /\ Settle(c)
            /\ Paid => c \in {"paid", "reversed"}
      BY <1>1 DEF ProviderMoves, Paid
    <2>2. (Paid => Paid') /\ ("success" \in said' => Paid')
      BY <2>1, SettlePaid
    <2>3. UNCHANGED <<row, issued, pc, ans>>
      BY <1>1 DEF ProviderMoves, session
    <2> QED  BY <2>1, <2>2, <2>3 DEF PaidInv
  <1>2. CASE ~ProviderMoves
    <2>1. UNCHANGED <<charge, said, issued, pc, ans>>
      BY <1>2 DEF send_voucher_sms, sms_result_expires, refund_payment,
                  TimePasses, CheckAges, vars, provider, session
    <2>2. row' = row \/ (row' = [row EXCEPT !.status = "refunded"] /\ row.status # "absent")
      BY <1>2 DEF send_voucher_sms, sms_result_expires, refund_payment,
                  TimePasses, CheckAges, vars
    <2>3. row'.status = "absent" => row.status = "absent"
      BY <2>2 DEF TypeOK, StateOK, Rows
    <2> QED  BY <2>1, <2>3 DEF PaidInv, Paid
  <1> QED  BY <1>1, <1>2

LEMMA PaidStep == TypeOK /\ PaidInv /\ [Next]_vars => PaidInv'
  BY PaidPortal, PaidSettle, PaidJobs, PaidOther DEF Next, SessionStep

\* No voucher is ever sold for a charge the provider did not take.
THEOREM VouchersArePaidFor == Spec => []VoucherOnlyWhenPaid
  <1>1. PaidInv => VoucherOnlyWhenPaid
    BY DEF PaidInv, VoucherOnlyWhenPaid
  <1> QED  BY <1>1, PaidInit, PaidStep, TypeCorrect, PTL DEF Spec

-----------------------------------------------------------------------------
(* SettledNotRevived.                                                       *)

\* Until a refund, the objects a verdict may be written through are pending;
\* only a re-check asked for by hand may hold one that failed.
LiveInv ==
  /\ \A s \in Session : pc[s] = "idle" => job[s] = "request"
  /\ refunds = 0 =>
       /\ row.status # "refunded"
       /\ \A s \in Session :
            /\ pc[s] \in {"initiate", "submit", "apply", "item"} => obj[s].status = "pending"
            /\ pc[s] = "verify" /\ job[s] = "batch" => obj[s].status = "pending"
            /\ pc[s] = "verify" /\ job[s] = "request" => obj[s].status \in {"pending", "failed"}

\* What a step of session s may do to the others: nothing.
OthersStay(s) ==
  \A t \in Session \ {s} : pc'[t] = pc[t] /\ job'[t] = job[t] /\ obj'[t] = obj[t]

\* The row is neither revived nor refunded.
RowStays == row'.status = row.status \/ row'.status \notin {"pending", "refunded"}

\* The goal of a step: LiveInv, and no revival.
LiveGoal ==
  LiveInv' /\ (row.status \in {"failed", "success"} /\ refunds = 0 => row'.status # "pending")

LEMMA EndLive ==
  ASSUME SessionOK, NEW s \in Session, NEW r,
         End(s) \/ Done(s) \/ DoneRefreshed(s, r)
  PROVE  /\ OthersStay(s)
         /\ pc'[s] \in {"idle", "recheck"}
         /\ pc'[s] = "idle" => job'[s] = "request"
  BY DEF End, Done, DoneRefreshed, Goto, Load, SessionOK, OthersStay

LEMMA GotoLive ==
  ASSUME SessionOK, NEW s \in Session, NEW r \in Rows, NEW step, Goto(s, step),
         UNCHANGED job, UNCHANGED obj \/ Load(s, r)
  PROVE  /\ OthersStay(s) /\ pc'[s] = step /\ job'[s] = job[s]
         /\ Load(s, r) => obj'[s] = r
         /\ UNCHANGED obj => obj'[s] = obj[s]
  BY DEF Goto, Load, SessionOK, OthersStay

\* A step that leaves its session where no verdict is at hand.
LEMMA QuietLive ==
  ASSUME TypeOK, LiveInv, NEW s \in Session, UNCHANGED refunds, RowStays,
         OthersStay(s),
         pc'[s] \notin {"initiate", "submit", "apply", "item", "verify"},
         pc'[s] = "idle" => job'[s] = "request"
  PROVE  LiveGoal
  BY DEF LiveInv, LiveGoal, RowStays, OthersStay

\* A step that loads the row, or keeps its object, for a verdict to come.
LEMMA VerdictAwaited ==
  ASSUME TypeOK, LiveInv, NEW s \in Session, UNCHANGED refunds, RowStays,
         OthersStay(s), pc'[s] # "idle",
         refunds = 0 =>
           /\ pc'[s] \in {"initiate", "submit", "apply", "item"} => obj'[s].status = "pending"
           /\ pc'[s] = "verify" /\ job'[s] = "batch" => obj'[s].status = "pending"
           /\ pc'[s] = "verify" /\ job'[s] = "request" =>
                obj'[s].status \in {"pending", "failed"}
  PROVE  LiveGoal
  BY DEF LiveInv, LiveGoal, RowStays, OthersStay

LEMMA FlushedLive ==
  ASSUME NEW old \in Rows, NEW new \in Rows, row \in Rows,
         row' = Flushed(old, new),
         new.status = old.status \/ new.status \notin {"pending", "refunded"}
  PROVE  RowStays
  BY DEF Flushed, Put, RowStays

LEMMA LiveInit == Init => LiveInv
  BY DEF Init, LiveInv, NoRow

LEMMA LivePortal ==
  ASSUME TypeOK, LiveInv, NEW s \in Session,
         \/ create_pending_transaction(s) \/ initiate_payment(s)
         \/ resolve_failed_initiation(s) \/ continue_payment(s)
         \/ submit_input(s) \/ portal_payment_status(s)
         \/ verify_payment(s) \/ process_flutterwave_event(s)
  PROVE  LiveGoal
  <1>0. SessionOK /\ row \in Rows /\ obj[s] \in Rows
    BY DEF TypeOK, StateOK, SessionOK
  <1>1. CASE create_pending_transaction(s)
    <2>1. row' \in Rows /\ row'.status = "pending" /\ row.status = "absent"
      BY <1>1 DEF create_pending_transaction, NoRow, Rows, Statuses, Reasons, Actions
    <2>2. Goto(s, "initiate") /\ Load(s, row') /\ UNCHANGED <<job, refunds>>
      BY <1>1 DEF create_pending_transaction, Start
    <2> QED  BY <1>0, <2>1, <2>2, GotoLive DEF LiveGoal, LiveInv, OthersStay
  <1>2. CASE initiate_payment(s)
    <2>1. /\ UNCHANGED <<row, refunds>>
          /\ pc[s] = "initiate"
          /\ \/ Goto(s, "apply") /\ UNCHANGED <<job, obj>>
             \/ Goto(s, "rejected") /\ UNCHANGED <<job, obj>>
             \/ End(s)
      BY <1>2 DEF initiate_payment
    <2>2. CASE (Goto(s, "apply") \/ Goto(s, "rejected")) /\ UNCHANGED <<job, obj>>
      BY <1>0, <2>1, <2>2, GotoLive, VerdictAwaited DEF RowStays, LiveInv
    <2>3. CASE End(s)
      BY <1>0, <2>1, <2>3, EndLive, QuietLive DEF RowStays
    <2> QED  BY <2>1, <2>2, <2>3
  <1>3. CASE resolve_failed_initiation(s)
    <2> DEFINE new == [obj[s] EXCEPT !.status = "failed", !.reason = "provider",
                                     !.next = "none"]
    <2>1. new \in Rows /\ new.status = "failed"
      BY <1>0 DEF Rows, Statuses, Reasons, Actions
    <2>2. RowStays
      <3>1. row' = row \/ row' = Flushed(obj[s], new)
        BY <1>3 DEF resolve_failed_initiation
      <3> QED  BY <1>0, <2>1, <3>1, FlushedLive DEF RowStays
    <2> QED  BY <1>0, <1>3, <2>2, EndLive, QuietLive DEF resolve_failed_initiation
  <1>4. CASE continue_payment(s) \/ portal_payment_status(s)
    <2>1. /\ UNCHANGED <<row, refunds, job>> /\ Load(s, row)
          /\ Goto(s, "submit") \/ Goto(s, "verify")
          /\ row.status \in {"pending", "refunded"}
      BY <1>0, <1>4 DEF continue_payment, portal_payment_status, Start, Rows, Statuses
    <2> QED  BY <1>0, <2>1, GotoLive, VerdictAwaited DEF RowStays, LiveInv
  <1>5. CASE submit_input(s)
    <2>1. /\ UNCHANGED <<row, refunds>>
          /\ pc[s] = "submit"
          /\ \/ Goto(s, "apply") /\ UNCHANGED <<job, obj>>
             \/ End(s)
      BY <1>5 DEF submit_input
    <2>2. CASE Goto(s, "apply") /\ UNCHANGED <<job, obj>>
      BY <1>0, <2>1, <2>2, GotoLive, VerdictAwaited DEF RowStays, LiveInv
    <2>3. CASE End(s)
      BY <1>0, <2>1, <2>3, EndLive, QuietLive DEF RowStays
    <2> QED  BY <2>1, <2>2, <2>3
  <1>6. CASE verify_payment(s)
    <2>1. /\ UNCHANGED <<row, refunds, job>> /\ Load(s, row) /\ Goto(s, "verify")
          /\ pc[s] = "idle" /\ row.status \in {"pending", "failed", "refunded"}
      BY <1>0, <1>6 DEF verify_payment, CanForce, Start, Rows, Statuses
    <2> QED  BY <1>0, <2>1, GotoLive, VerdictAwaited DEF RowStays, LiveInv
  <1>7. CASE process_flutterwave_event(s)
    <2>1. row' \in Rows /\ row'.status = row.status /\ UNCHANGED refunds
      BY <1>0, <1>7 DEF process_flutterwave_event, Rows
    <2>2. CASE CanForce(row)
      <3>1. /\ UNCHANGED job /\ Load(s, row') /\ Goto(s, "verify") /\ pc[s] = "idle"
            /\ row.status \in {"pending", "failed", "refunded"}
        BY <1>0, <1>7, <2>2 DEF process_flutterwave_event, CanForce, Start, Rows, Statuses
      <3> QED  BY <1>0, <2>1, <3>1, GotoLive, VerdictAwaited DEF RowStays, LiveInv
    <2>3. CASE ~CanForce(row)
      BY <1>7, <2>1, <2>3 DEF process_flutterwave_event, session, LiveInv, LiveGoal
    <2> QED  BY <2>2, <2>3
  <1> QED  BY <1>1, <1>2, <1>3, <1>4, <1>5, <1>6, <1>7

LEMMA LiveSettle ==
  ASSUME TypeOK, LiveInv, NEW s \in Session,
         \/ verify_answers(s) \/ verify_unreachable(s)
         \/ apply_provider_result(s) \/ apply_late_result(s)
         \/ resolve_successful_payment(s) \/ enqueue_voucher_sms(s)
  PROVE  LiveGoal
  <1>0. SessionOK /\ row \in Rows /\ obj[s] \in Rows /\ ans[s] \in Answers /\ issued \in Nat
    BY DEF TypeOK, StateOK, SessionOK
  <1>1. CASE verify_answers(s)
    <2>1. /\ UNCHANGED <<row, refunds, job, obj>>
          /\ Goto(s, AfterVerify(s))
          /\ pc[s] = "verify"
      BY <1>1 DEF verify_answers
    <2>2. /\ OthersStay(s) /\ pc'[s] = AfterVerify(s)
          /\ obj'[s] = obj[s]
      BY <1>0, <2>1, GotoLive
    <2>3. job[s] \in {"request", "batch", "late"}
      BY DEF TypeOK, SessionOK, Jobs
    <2>4. AfterVerify(s) = "apply" /\ refunds = 0 => obj[s].status = "pending"
      BY <2>1, <2>3 DEF AfterVerify, LiveInv
    <2>5. AfterVerify(s) \in {"apply", "late_result"}
      BY DEF AfterVerify
    <2> QED  BY <2>1, <2>2, <2>4, <2>5, VerdictAwaited DEF RowStays
  <1>2. CASE verify_unreachable(s) \/ enqueue_voucher_sms(s)
    <2>1. UNCHANGED <<row, refunds>> /\ Done(s)
      BY <1>2 DEF verify_unreachable, enqueue_voucher_sms
    <2> QED  BY <1>0, <2>1, EndLive, QuietLive DEF RowStays
  <1>3. CASE apply_provider_result(s)
    <2> DEFINE v == ans[s].status
               heard == [obj[s] EXCEPT !.ref = TRUE, !.next = ans[s].next,
                           !.reason = IF v = "failed" THEN "provider" ELSE @]
               new == IF Confirms(v) THEN heard ELSE [heard EXCEPT !.status = v]
    <2>1. new \in Rows /\ new.status \in {obj[s].status, v} /\ v \in Verdicts
      BY <1>0 DEF Rows, Answers, Statuses, Reasons, Verdicts
    <2>2. /\ UNCHANGED refunds
          /\ pc[s] = "apply"
          /\ row' = Flushed(obj[s], new)
          /\ \/ Goto(s, "resolve") /\ Load(s, new) /\ UNCHANGED job
             \/ Goto(s, "timeout") /\ Load(s, row') /\ UNCHANGED job
             \/ DoneRefreshed(s, row')
      BY <1>3 DEF apply_provider_result
    <2>3. row' \in Rows
      BY <1>0, <2>1, <2>2, FlushedType
    <2>4. refunds = 0 => RowStays
      <3>1. ASSUME refunds = 0 PROVE obj[s].status = "pending"
        BY <2>2, <3>1 DEF LiveInv
      <3> QED  BY <1>0, <2>1, <2>2, <3>1, FlushedLive DEF Verdicts
    <2>5. /\ OthersStay(s)
          /\ pc'[s] \in {"resolve", "timeout", "idle", "recheck"}
          /\ pc'[s] = "idle" => job'[s] = "request"
      BY <1>0, <2>1, <2>2, <2>3, GotoLive, EndLive
    <2> QED  BY <2>2, <2>4, <2>5 DEF LiveGoal, LiveInv, RowStays, OthersStay
  <1>4. CASE apply_late_result(s)
    <2> DEFINE v == ans[s].status
               new == IF Confirms(v) THEN [obj[s] EXCEPT !.ref = TRUE]
                      ELSE [obj[s] EXCEPT !.reason = IF v = "failed" THEN "provider" ELSE @]
    <2>1. new \in Rows /\ new.status = obj[s].status
      BY <1>0 DEF Rows, Reasons
    <2>2. RowStays /\ UNCHANGED refunds
      BY <1>0, <1>4, <2>1, FlushedLive DEF apply_late_result
    <2>3. (Goto(s, "resolve") /\ Load(s, new) /\ UNCHANGED job) \/ End(s)
      BY <1>4 DEF apply_late_result
    <2> QED  BY <1>0, <2>1, <2>2, <2>3, GotoLive, EndLive, QuietLive
  <1>5. CASE resolve_successful_payment(s)
    <2> DEFINE new == Sold(obj[s], issued + 1)
    <2>1. new \in Rows /\ new.status = "success"
      <3>1. ASSUME NEW n \in Nat PROVE Sold(obj[s], n) \in Rows /\ Sold(obj[s], n).status = "success"
        BY <1>0, <3>1 DEF Sold, Rows, Statuses, Reasons, Actions
      <3> QED  BY <1>0, <3>1
    <2>2. /\ UNCHANGED refunds
          /\ row' = row \/ row' = Flushed(obj[s], new)
          /\ \/ Goto(s, "enqueue") /\ Load(s, row') /\ UNCHANGED job
             \/ Done(s) \/ DoneRefreshed(s, row')
      BY <1>5 DEF resolve_successful_payment
    <2>3. RowStays /\ row' \in Rows
      BY <1>0, <2>1, <2>2, FlushedLive, FlushedType DEF RowStays
    <2> QED  BY <1>0, <2>2, <2>3, GotoLive, EndLive, QuietLive
  <1> QED  BY <1>1, <1>2, <1>3, <1>4, <1>5

LEMMA LiveJobs ==
  ASSUME TypeOK, LiveInv, NEW s \in Session,
         \/ process_paystack_event(s) \/ apply_webhook_update(s)
         \/ fail_by_webhook(s) \/ run_payment_reconciliation(s)
         \/ reconcile_item(s) \/ reconcile_timeout(s)
         \/ recheck_timed_out(s) \/ Crash(s)
  PROVE  LiveGoal
  <1>0. SessionOK /\ row \in Rows /\ obj[s] \in Rows
    BY DEF TypeOK, StateOK, SessionOK
  <1>1. CASE process_paystack_event(s)
    <2>1. row' \in Rows /\ row'.status = row.status /\ UNCHANGED <<refunds, job>>
      BY <1>0, <1>1 DEF process_paystack_event, Rows
    <2>2. Goto(s, "webhook") /\ Load(s, row')
      BY <1>1 DEF process_paystack_event
    <2> QED  BY <1>0, <2>1, <2>2, GotoLive, QuietLive DEF RowStays
  <1>2. CASE apply_webhook_update(s)
    <2> DEFINE new == [obj[s] EXCEPT !.next = IF ans[s].status = "pending" THEN @ ELSE "none"]
    <2>1. new \in Rows /\ new.status = obj[s].status
      BY <1>0 DEF Rows, Actions
    <2>2. RowStays /\ UNCHANGED refunds
      BY <1>0, <1>2, <2>1, FlushedLive DEF apply_webhook_update
    <2>3. \/ (Goto(s, "resolve") \/ Goto(s, "webhook_failed")) /\ Load(s, new) /\ UNCHANGED job
          \/ End(s)
      BY <1>2 DEF apply_webhook_update
    <2> QED  BY <1>0, <2>1, <2>2, <2>3, GotoLive, EndLive, QuietLive
  <1>3. CASE fail_by_webhook(s)
    <2> DEFINE new == [obj[s] EXCEPT !.status = "failed", !.reason = "provider",
                                     !.next = "none"]
    <2>1. new \in Rows /\ new.status = "failed"
      BY <1>0 DEF Rows, Statuses, Reasons, Actions
    <2> QED  BY <1>0, <1>3, <2>1, FlushedLive, EndLive, QuietLive DEF fail_by_webhook
  <1>4. CASE run_payment_reconciliation(s)
    <2>1. /\ UNCHANGED <<row, refunds>> /\ pc[s] = "idle"
          /\ job' = [job EXCEPT ![s] = "batch"]
          /\ \/ row.status = "pending" /\ Load(s, row) /\ Goto(s, "item")
             \/ Goto(s, "recheck") /\ UNCHANGED obj
      BY <1>4 DEF run_payment_reconciliation
    <2>2. /\ OthersStay(s)
          /\ \/ pc'[s] = "item" /\ obj'[s].status = "pending"
             \/ pc'[s] = "recheck"
      BY <1>0, <2>1 DEF Goto, Load, SessionOK, OthersStay
    <2> QED  BY <2>1, <2>2, VerdictAwaited DEF RowStays
  <1> DEFINE late == TimedOut(obj[s])
  <1>10. late \in Rows /\ late.status = "failed"
    BY <1>0 DEF TimedOut, Rows, Statuses, Reasons
  <1>5. CASE reconcile_item(s)
    <2>1. CASE Goto(s, "verify") /\ UNCHANGED <<row, job, obj>>
      BY <1>0, <1>5, <2>1, GotoLive, VerdictAwaited DEF reconcile_item, RowStays, LiveInv
    <2>2. CASE row' = Flushed(obj[s], late) /\ DoneRefreshed(s, late)
      BY <1>0, <1>5, <1>10, <2>2, FlushedLive, EndLive, QuietLive DEF reconcile_item
    <2>3. CASE Done(s) /\ UNCHANGED row
      BY <1>0, <1>5, <2>3, EndLive, QuietLive DEF reconcile_item, RowStays
    <2> QED  BY <1>5, <2>1, <2>2, <2>3 DEF reconcile_item
  <1>6. CASE reconcile_timeout(s)
    BY <1>0, <1>6, <1>10, FlushedLive, EndLive, QuietLive DEF reconcile_timeout
  <1>7. CASE recheck_timed_out(s)
    <2>1. CASE End(s)
      BY <1>0, <1>7, <2>1, EndLive, QuietLive DEF recheck_timed_out, RowStays
    <2>2. CASE ~End(s)
      <3>1. /\ UNCHANGED <<row, refunds>>
            /\ job' = [job EXCEPT ![s] = "late"] /\ Goto(s, "verify")
            /\ Load(s, row) \/ Load(s, obj[s])
        BY <1>7, <2>2 DEF recheck_timed_out
      <3>2. OthersStay(s) /\ pc'[s] = "verify" /\ job'[s] = "late"
        BY <1>0, <3>1 DEF Goto, Load, SessionOK, OthersStay
      <3> QED  BY <3>1, <3>2, VerdictAwaited DEF RowStays
    <2> QED  BY <2>1, <2>2
  <1>8. CASE Crash(s)
    BY <1>0, <1>8, EndLive, QuietLive DEF Crash, RowStays
  <1> QED  BY <1>1, <1>2, <1>3, <1>4, <1>5, <1>6, <1>7, <1>8

LEMMA LiveOther ==
  ASSUME TypeOK, LiveInv,
         \/ ProviderMoves \/ send_voucher_sms \/ sms_result_expires
         \/ refund_payment \/ TimePasses \/ CheckAges \/ UNCHANGED vars
  PROVE  LiveGoal
  <1>1. CASE refund_payment
    <2>1. /\ UNCHANGED <<pc, job, obj>>
          /\ refunds \in Nat /\ refunds' = refunds + 1
          /\ row' = [row EXCEPT !.status = "refunded"]
      BY <1>1, ConstantsAssumption DEF refund_payment, session, TypeOK, StateOK
    <2>2. row'.status = "refunded"
      BY <2>1 DEF TypeOK, StateOK, Rows
    <2> QED  BY <2>1, <2>2 DEF LiveInv, LiveGoal
  <1>2. CASE ~refund_payment
    <2>1. UNCHANGED <<row, refunds, pc, job, obj>>
      BY <1>2 DEF ProviderMoves, send_voucher_sms, sms_result_expires,
                  TimePasses, CheckAges, vars, session
    <2> QED  BY <2>1 DEF LiveInv, LiveGoal
  <1> QED  BY <1>1, <1>2

LEMMA LiveStep == TypeOK /\ LiveInv /\ [Next]_vars => LiveGoal
  BY LivePortal, LiveSettle, LiveJobs, LiveOther DEF Next, SessionStep

\* Until an operator records a refund, a settled payment never becomes pending
\* again, whatever stale objects the sessions hold.
THEOREM SettledStaysSettled == Spec => SettledNotRevived
  <1>1. TypeOK /\ LiveInv /\ [Next]_vars => LiveInv'
    BY LiveStep DEF LiveGoal
  <1>2. Spec => []LiveInv
    BY <1>1, LiveInit, TypeCorrect, PTL DEF Spec
  <1>3. TypeOK /\ LiveInv /\ [Next]_vars =>
          [row.status \in {"failed", "success"} /\ refunds = 0 => row'.status # "pending"]_vars
    BY LiveStep DEF LiveGoal
  <1> QED  BY <1>2, <1>3, TypeCorrect, PTL DEF Spec, SettledNotRevived

-----------------------------------------------------------------------------
(* OneVoucher, TextedOnce and KeepsPromise: no stale copies.               *)

Same(a, b) == a.status = b.status /\ a.reason = b.reason /\ a.voucher = b.voucher

\* What a session has loaded is what is committed.  The code does not see to
\* it (finding 1); requests that do not overlap do, see AloneIsCurrent.
CopiesCurrent ==
  refunds = 0 => \A s \in Session : obj[s].status # "absent" => Same(obj[s], row)

\* Failed by a timeout of ours: the provider may still say otherwise.
Provisional(r) == r.status = "failed" /\ r.reason = "timeout"
Unsettled(r) == r.status = "pending" \/ Provisional(r)

\* What the object of a session is at each of its steps.
HeldOK(s) ==
  /\ pc[s] = "idle" => job[s] = "request"
  /\ pc[s] = "item" => job[s] = "batch"
  /\ obj[s] = NoRow \/ obj[s].status # "absent"
  /\ pc[s] \notin {"idle", "recheck"} => obj[s].status # "absent"
  /\ pc[s] \in {"initiate", "rejected", "submit", "apply", "item", "timeout",
                "webhook_failed"} => obj[s].status = "pending"
  /\ pc[s] = "late_result" => Provisional(obj[s])
  /\ pc[s] = "verify" =>
       /\ Unsettled(obj[s])
       /\ job[s] = "batch" => obj[s].status = "pending"
       /\ job[s] = "late" => Provisional(obj[s])

\* A payment that says success has sold one voucher, any other none.
StageInv ==
  refunds = 0 =>
    /\ row.status # "refunded"
    /\ issued = IF row.status = "success" THEN 1 ELSE 0
    /\ \A s \in Session : HeldOK(s)

\* All that a step may do to a payment, as the promise sees it.
Quiet    == UNCHANGED issued /\ row'.status = row.status /\ row'.reason = row.reason
Opens    == UNCHANGED issued /\ row.status = "absent" /\ row'.status = "pending"
Fails    == UNCHANGED issued /\ Unsettled(row) /\ row'.status = "failed" /\ row'.reason = "provider"
TimesOut == UNCHANGED issued /\ row.status = "pending" /\ Provisional(row')
Sells    == issued' = issued + 1 /\ Unsettled(row) /\ row'.status = "success"
SaleMove == Quiet \/ Opens \/ Fails \/ TimesOut \/ Sells

\* And to the text of its voucher: only the session that sold enqueues it.
TextMove(s) ==
  /\ UNCHANGED texts
  /\ pc'[s] = "enqueue" => Sells
  /\ \/ UNCHANGED smsJob
     \/ pc[s] = "enqueue" /\ smsJob' = "queued"

StepGoal(s) ==
  UNCHANGED refunds /\ OthersStay(s) /\ HeldOK(s)' /\ SaleMove /\ TextMove(s)

LEMMA FlushedCurrent ==
  ASSUME NEW old \in Rows, NEW new \in Rows, row \in Rows, Same(old, row)
  PROVE  Same(new, Flushed(old, new))
  BY DEF Same, Flushed, Put

\* What a session that ends, or goes on to the re-checks, holds.
LEMMA EndHeld ==
  ASSUME SessionOK, NEW s \in Session, HeldOK(s), NEW r,
         End(s) \/ Done(s) \/ (DoneRefreshed(s, r) /\ r.status # "absent")
  PROVE  OthersStay(s) /\ HeldOK(s)' /\ pc'[s] \in {"idle", "recheck"}
  <1>1. OthersStay(s) /\ pc'[s] \in {"idle", "recheck"} /\ (pc'[s] = "idle" => job'[s] = "request")
    BY EndLive
  <1>2. obj'[s] \in {NoRow, obj[s], r} /\ (obj'[s] = r => obj'[s] = NoRow \/ obj'[s] = obj[s] \/ r.status # "absent")
    BY DEF End, Done, DoneRefreshed, Load, SessionOK
  <1> QED  BY <1>1, <1>2 DEF HeldOK

\* What a session that goes on holds: what it had, or what it loads.
LEMMA GoesOn ==
  ASSUME SessionOK, NEW s \in Session, NEW r \in Rows, NEW step, Goto(s, step),
         UNCHANGED job, UNCHANGED obj \/ Load(s, r)
  PROVE  /\ OthersStay(s) /\ pc'[s] = step /\ job'[s] = job[s]
         /\ Load(s, r) => obj'[s] = r
         /\ UNCHANGED obj => obj'[s] = obj[s]
  BY GotoLive

-----------------------------------------------------------------------------
LEMMA StagePortal ==
  ASSUME TypeOK, StageInv, CopiesCurrent, refunds = 0, NEW s \in Session,
         \/ create_pending_transaction(s) \/ initiate_payment(s)
         \/ resolve_failed_initiation(s) \/ continue_payment(s)
         \/ submit_input(s) \/ portal_payment_status(s)
         \/ verify_payment(s) \/ process_flutterwave_event(s)
  PROVE  StepGoal(s)
  <1>0. SessionOK /\ row \in Rows /\ obj[s] \in Rows /\ HeldOK(s) /\ row.status # "refunded"
    BY DEF TypeOK, StateOK, SessionOK, StageInv
  <1>1. CASE create_pending_transaction(s)
    <2>1. row' \in Rows /\ row'.status = "pending" /\ row.status = "absent"
      BY <1>1 DEF create_pending_transaction, NoRow, Rows, Statuses, Reasons, Actions
    <2>2. Goto(s, "initiate") /\ Load(s, row') /\ UNCHANGED <<job, refunds, issued, texts, smsJob>>
      BY <1>1 DEF create_pending_transaction, Start, sms
    <2>3. OthersStay(s) /\ pc'[s] = "initiate" /\ obj'[s] = row'
      BY <1>0, <2>1, <2>2, GoesOn
    <2> QED  BY <2>1, <2>2, <2>3 DEF StepGoal, HeldOK, SaleMove, Opens, TextMove
  <1>2. CASE initiate_payment(s)
    <2>1. /\ UNCHANGED <<row, refunds, issued, texts, smsJob>>
          /\ pc[s] = "initiate"
          /\ \/ Goto(s, "apply") /\ UNCHANGED <<job, obj>>
             \/ Goto(s, "rejected") /\ UNCHANGED <<job, obj>>
             \/ End(s)
      BY <1>2 DEF initiate_payment, sms
    <2>2. SaleMove
      BY <2>1 DEF SaleMove, Quiet
    <2>3. CASE End(s)
      BY <1>0, <2>1, <2>2, <2>3, EndHeld DEF StepGoal, TextMove
    <2>4. CASE ~End(s)
      <3>1. /\ OthersStay(s) /\ pc'[s] \in {"apply", "rejected"}
            /\ job'[s] = job[s] /\ obj'[s] = obj[s]
        BY <1>0, <2>1, <2>4, GoesOn
      <3> QED  BY <1>0, <2>1, <2>2, <3>1 DEF StepGoal, HeldOK, TextMove
    <2> QED  BY <2>3, <2>4
  <1>3. CASE resolve_failed_initiation(s)
    <2> DEFINE new == [obj[s] EXCEPT !.status = "failed", !.reason = "provider",
                                     !.next = "none"]
    <2>1. new \in Rows /\ new.status = "failed" /\ new.reason = "provider"
      BY <1>0 DEF Rows, Statuses, Reasons, Actions
    <2>2. obj[s].status = "pending" /\ Same(obj[s], row)
      BY <1>0, <1>3 DEF resolve_failed_initiation, HeldOK, CopiesCurrent
    <2>3. /\ row' = Flushed(obj[s], new) /\ End(s)
          /\ UNCHANGED <<refunds, issued, texts, smsJob>>
      BY <1>3, <2>2 DEF resolve_failed_initiation, sms
    <2>4. Fails
      BY <1>0, <2>1, <2>2, <2>3, FlushedCurrent DEF Fails, Same, Unsettled
    <2> QED  BY <1>0, <2>3, <2>4, EndHeld DEF StepGoal, SaleMove, TextMove
  <1>4. CASE continue_payment(s) \/ portal_payment_status(s) \/ verify_payment(s)
    <2>1. /\ UNCHANGED <<row, refunds, job, issued, texts, smsJob>>
          /\ Load(s, row) /\ pc[s] = "idle"
          /\ \/ Goto(s, "submit") /\ row.status = "pending"
             \/ Goto(s, "verify") /\ Unsettled(row)
      BY <1>0, <1>4 DEF continue_payment, portal_payment_status, verify_payment, Start, CanForce,
                        sms, Rows, Statuses, Unsettled, Provisional
    <2>2. /\ OthersStay(s) /\ pc'[s] \in {"submit", "verify"} /\ obj'[s] = row
          /\ pc'[s] = "submit" => row.status = "pending"
          /\ Unsettled(row) /\ job'[s] = "request"
      BY <1>0, <2>1, GoesOn DEF HeldOK, Unsettled
    <2> QED  BY <2>1, <2>2 DEF StepGoal, HeldOK, Unsettled, Provisional, SaleMove, Quiet, TextMove
  <1>5. CASE submit_input(s)
    <2>1. /\ UNCHANGED <<row, refunds, issued, texts, smsJob>>
          /\ pc[s] = "submit"
          /\ (Goto(s, "apply") /\ UNCHANGED <<job, obj>>) \/ End(s)
      BY <1>5 DEF submit_input, sms
    <2>2. SaleMove
      BY <2>1 DEF SaleMove, Quiet
    <2>3. CASE End(s)
      BY <1>0, <2>1, <2>2, <2>3, EndHeld DEF StepGoal, TextMove
    <2>4. CASE ~End(s)
      <3>1. OthersStay(s) /\ pc'[s] = "apply" /\ job'[s] = job[s] /\ obj'[s] = obj[s]
        BY <1>0, <2>1, <2>4, GoesOn
      <3> QED  BY <1>0, <2>1, <2>2, <3>1 DEF StepGoal, HeldOK, TextMove
    <2> QED  BY <2>3, <2>4
  <1>6. CASE process_flutterwave_event(s)
    <2>1. /\ UNCHANGED <<refunds, issued, texts, smsJob>>
          /\ row' \in Rows /\ row'.status = row.status /\ row'.reason = row.reason
          /\ pc[s] = "idle"
      BY <1>0, <1>6 DEF process_flutterwave_event, Rows, Start, sms
    <2>2. SaleMove
      BY <2>1 DEF SaleMove, Quiet
    <2>3. CASE CanForce(row)
      <3>1. Goto(s, "verify") /\ Load(s, row') /\ UNCHANGED job
        BY <1>6, <2>3 DEF process_flutterwave_event, Start
      <3>2. Unsettled(row') /\ row'.status # "absent"
        BY <1>0, <2>1, <2>3 DEF CanForce, Rows, Statuses, Unsettled, Provisional
      <3>3. OthersStay(s) /\ pc'[s] = "verify" /\ obj'[s] = row' /\ job'[s] = "request"
        BY <1>0, <2>1, <3>1, GoesOn DEF HeldOK
      <3> QED  BY <2>1, <2>2, <3>2, <3>3 DEF StepGoal, HeldOK, TextMove
    <2>4. CASE ~CanForce(row)
      <3>1. UNCHANGED <<pc, job, obj>>
        BY <1>6, <2>4 DEF process_flutterwave_event, session
      <3> QED  BY <1>0, <2>1, <2>2, <3>1 DEF StepGoal, HeldOK, TextMove, OthersStay
    <2> QED  BY <2>3, <2>4
  <1> QED  BY <1>1, <1>2, <1>3, <1>4, <1>5, <1>6

LEMMA StageSettle ==
  ASSUME TypeOK, StageInv, CopiesCurrent, refunds = 0, NEW s \in Session,
         \/ verify_answers(s) \/ verify_unreachable(s)
         \/ apply_provider_result(s) \/ apply_late_result(s)
         \/ resolve_successful_payment(s) \/ enqueue_voucher_sms(s)
  PROVE  StepGoal(s)
  <1>0. /\ SessionOK /\ row \in Rows /\ obj[s] \in Rows /\ ans[s] \in Answers /\ issued \in Nat
        /\ HeldOK(s)
    BY DEF TypeOK, StateOK, SessionOK, StageInv
  <1>1. CASE verify_answers(s)
    <2>1. /\ UNCHANGED <<row, refunds, job, obj, issued, texts, smsJob>>
          /\ Goto(s, AfterVerify(s))
          /\ pc[s] = "verify"
      BY <1>1 DEF verify_answers, sms
    <2>2. /\ OthersStay(s) /\ pc'[s] = AfterVerify(s)
          /\ obj'[s] = obj[s] /\ job'[s] = job[s]
      BY <1>0, <2>1, GoesOn
    <2>3. job[s] \in {"request", "batch", "late"}
      BY DEF TypeOK, SessionOK, Jobs
    <2>4. \/ AfterVerify(s) = "apply" /\ obj[s].status = "pending"
          \/ AfterVerify(s) = "late_result" /\ Provisional(obj[s])
      BY <1>0, <2>1, <2>3 DEF AfterVerify, HeldOK, Unsettled, Provisional
    <2> QED  BY <2>1, <2>2, <2>4 DEF StepGoal, HeldOK, Provisional, SaleMove, Quiet, TextMove
  <1>2. CASE verify_unreachable(s) \/ enqueue_voucher_sms(s)
    <2>1. /\ UNCHANGED <<row, refunds, issued, texts>> /\ Done(s)
          /\ UNCHANGED smsJob \/ (pc[s] = "enqueue" /\ smsJob' = "queued")
      <3>1. CASE verify_unreachable(s)
        BY <3>1 DEF verify_unreachable, sms
      <3>2. CASE enqueue_voucher_sms(s)
        BY <3>2 DEF enqueue_voucher_sms
      <3> QED  BY <1>2, <3>1, <3>2
    <2>2. SaleMove
      BY <2>1 DEF SaleMove, Quiet
    <2>3. OthersStay(s) /\ HeldOK(s)' /\ pc'[s] \in {"idle", "recheck"}
      BY <1>0, <2>1, EndHeld
    <2> QED  BY <2>1, <2>2, <2>3 DEF StepGoal, TextMove
  <1>3. CASE apply_provider_result(s)
    <2> DEFINE v == ans[s].status
               heard == [obj[s] EXCEPT !.ref = TRUE, !.next = ans[s].next,
                           !.reason = IF v = "failed" THEN "provider" ELSE @]
               new == IF Confirms(v) THEN heard ELSE [heard EXCEPT !.status = v]
    <2>1. /\ v \in {"pending", "success", "failed"}
          /\ new \in Rows
          /\ new.status = IF v = "failed" THEN "failed" ELSE obj[s].status
          /\ new.reason = IF v = "failed" THEN "provider" ELSE obj[s].reason
      <3>1. obj[s].status = "pending"
        BY <1>0, <1>3 DEF apply_provider_result, HeldOK
      <3> QED  BY <1>0, <3>1 DEF Rows, Answers, Statuses, Reasons, Verdicts, Confirms
    <2>2. /\ UNCHANGED <<refunds, issued, texts, smsJob>>
          /\ obj[s].status = "pending"
          /\ row' = Flushed(obj[s], new)
          /\ \/ Goto(s, "resolve") /\ Load(s, new) /\ UNCHANGED job
             \/ /\ Goto(s, "timeout") /\ Load(s, row') /\ UNCHANGED job
                /\ v = "pending"
             \/ DoneRefreshed(s, row')
      BY <1>0, <1>3 DEF apply_provider_result, HeldOK, sms
    <2>3. row' \in Rows /\ Same(obj[s], row) /\ Same(new, row')
      BY <1>0, <2>1, <2>2, FlushedType, FlushedCurrent DEF CopiesCurrent
    <2>4. SaleMove
      BY <2>1, <2>2, <2>3 DEF SaleMove, Quiet, Fails, Unsettled, Same
    <2>5. CASE DoneRefreshed(s, row')
      <3>1. row'.status # "absent"
        BY <2>1, <2>2, <2>3 DEF Same
      <3> QED  BY <1>0, <2>2, <2>4, <2>5, <3>1, EndHeld DEF StepGoal, TextMove
    <2>6. CASE ~DoneRefreshed(s, row')
      <3>1. /\ OthersStay(s)
            /\ \/ pc'[s] = "resolve" /\ obj'[s] = new
               \/ pc'[s] = "timeout" /\ obj'[s] = row' /\ v = "pending"
        BY <1>0, <2>1, <2>2, <2>3, <2>6, GoesOn
      <3>2. obj'[s].status # "absent" /\ (pc'[s] = "timeout" => obj'[s].status = "pending")
        BY <2>1, <2>2, <2>3, <3>1 DEF Same
      <3> QED  BY <2>2, <2>4, <3>1, <3>2 DEF StepGoal, HeldOK, TextMove
    <2> QED  BY <2>5, <2>6
  <1>4. CASE apply_late_result(s)
    <2> DEFINE v == ans[s].status
               new == IF Confirms(v) THEN [obj[s] EXCEPT !.ref = TRUE]
                      ELSE [obj[s] EXCEPT !.reason = IF v = "failed" THEN "provider" ELSE @]
    <2>1. /\ new \in Rows /\ new.status = obj[s].status
          /\ new.reason \in {obj[s].reason, "provider"}
      BY <1>0 DEF Rows, Reasons
    <2>2. /\ UNCHANGED <<refunds, issued, texts, smsJob>>
          /\ Provisional(obj[s])
          /\ row' = Flushed(obj[s], new)
          /\ (Goto(s, "resolve") /\ Load(s, new) /\ UNCHANGED job) \/ End(s)
      BY <1>0, <1>4 DEF apply_late_result, HeldOK, sms
    <2>3. Same(obj[s], row) /\ Same(new, row')
      BY <1>0, <2>1, <2>2, FlushedCurrent DEF CopiesCurrent, Provisional
    <2>4. SaleMove
      BY <2>1, <2>2, <2>3 DEF SaleMove, Quiet, Fails, Unsettled, Provisional, Same
    <2>5. CASE End(s)
      BY <1>0, <2>2, <2>4, <2>5, EndHeld DEF StepGoal, TextMove
    <2>6. CASE ~End(s)
      <3>1. OthersStay(s) /\ pc'[s] = "resolve" /\ obj'[s] = new
        BY <1>0, <2>1, <2>2, <2>6, GoesOn
      <3> QED  BY <2>1, <2>2, <2>4, <3>1 DEF StepGoal, HeldOK, Provisional, TextMove
    <2> QED  BY <2>5, <2>6
  <1>5. CASE resolve_successful_payment(s)
    <2>1. obj[s].status # "absent" /\ Same(obj[s], row)
      BY <1>0, <1>5 DEF resolve_successful_payment, HeldOK, CopiesCurrent
    <2>2. CASE AlreadySold(obj[s]) \/ Contradicted(obj[s])
      <3>1. UNCHANGED <<row, refunds, issued, texts, smsJob>> /\ Done(s)
        BY <1>5, <2>2 DEF resolve_successful_payment, sms
      <3> QED  BY <1>0, <3>1, EndHeld DEF StepGoal, SaleMove, Quiet, TextMove
    <2>3. CASE ~(AlreadySold(obj[s]) \/ Contradicted(obj[s]))
      <3> DEFINE new == Sold(obj[s], issued + 1)
      <3>1. new \in Rows /\ new.status = "success"
        <4>1. ASSUME NEW n \in Nat PROVE Sold(obj[s], n) \in Rows /\ Sold(obj[s], n).status = "success"
          BY <1>0, <4>1 DEF Sold, Rows, Statuses, Reasons, Actions
        <4> QED  BY <1>0, <4>1
      <3>2. /\ UNCHANGED <<refunds, texts, smsJob>> /\ issued' = issued + 1
            /\ row' = Flushed(obj[s], new)
            /\ \/ Goto(s, "enqueue") /\ Load(s, row') /\ UNCHANGED job
               \/ DoneRefreshed(s, row')
        BY <1>5, <2>3 DEF resolve_successful_payment, sms
      <3>3. row' \in Rows /\ row'.status = "success"
        BY <1>0, <2>1, <3>1, <3>2, FlushedType, FlushedCurrent DEF Same
      <3>4. Unsettled(row)
        BY <1>0, <2>1, <2>3 DEF AlreadySold, Contradicted, Unsettled, Provisional, Same, Rows,
                                Statuses, StageInv
      <3>5. Sells
        BY <3>2, <3>3, <3>4 DEF Sells
      <3>6. CASE DoneRefreshed(s, row')
        BY <1>0, <3>2, <3>3, <3>5, <3>6, EndHeld DEF StepGoal, SaleMove, TextMove
      <3>7. CASE ~DoneRefreshed(s, row')
        <4>1. OthersStay(s) /\ pc'[s] = "enqueue" /\ obj'[s] = row'
          BY <1>0, <3>2, <3>3, <3>7, GoesOn
        <4> QED  BY <3>2, <3>3, <3>5, <4>1 DEF StepGoal, HeldOK, SaleMove, TextMove
      <3> QED  BY <3>6, <3>7
    <2> QED  BY <2>2, <2>3
  <1> QED  BY <1>1, <1>2, <1>3, <1>4, <1>5

LEMMA StageJobs ==
  ASSUME TypeOK, StageInv, CopiesCurrent, refunds = 0, NEW s \in Session,
         \/ process_paystack_event(s) \/ apply_webhook_update(s)
         \/ fail_by_webhook(s) \/ run_payment_reconciliation(s)
         \/ reconcile_item(s) \/ reconcile_timeout(s)
         \/ recheck_timed_out(s) \/ Crash(s)
  PROVE  StepGoal(s)
  <1>0. SessionOK /\ row \in Rows /\ obj[s] \in Rows /\ HeldOK(s)
    BY DEF TypeOK, StateOK, SessionOK, StageInv
  <1>1. CASE process_paystack_event(s)
    <2>1. /\ row' \in Rows /\ row'.status = row.status /\ row'.reason = row.reason
          /\ row.status # "absent" /\ UNCHANGED <<refunds, job, issued, texts, smsJob>>
      BY <1>0, <1>1 DEF process_paystack_event, Rows, sms
    <2>2. Goto(s, "webhook") /\ Load(s, row')
      BY <1>1 DEF process_paystack_event
    <2>3. OthersStay(s) /\ pc'[s] = "webhook" /\ obj'[s] = row'
      BY <1>0, <2>1, <2>2, GoesOn
    <2> QED  BY <2>1, <2>3 DEF StepGoal, HeldOK, SaleMove, Quiet, TextMove
  <1>2. CASE apply_webhook_update(s)
    <2> DEFINE new == [obj[s] EXCEPT !.next = IF ans[s].status = "pending" THEN @ ELSE "none"]
    <2>1. new \in Rows /\ new.status = obj[s].status /\ new.reason = obj[s].reason
      BY <1>0 DEF Rows, Actions
    <2>2. /\ UNCHANGED <<refunds, issued, texts, smsJob>> /\ obj[s].status # "absent"
          /\ row' = Flushed(obj[s], new)
          /\ \/ Goto(s, "resolve") /\ Load(s, new) /\ UNCHANGED job
             \/ /\ Goto(s, "webhook_failed") /\ Load(s, new) /\ UNCHANGED job
                /\ obj[s].status = "pending"
             \/ End(s)
      BY <1>0, <1>2 DEF apply_webhook_update, HeldOK, sms
    <2>3. SaleMove
      BY <1>0, <2>1, <2>2, FlushedCurrent DEF SaleMove, Quiet, Same, CopiesCurrent
    <2>4. CASE End(s)
      BY <1>0, <2>2, <2>3, <2>4, EndHeld DEF StepGoal, TextMove
    <2>5. CASE ~End(s)
      <3>1. /\ OthersStay(s) /\ obj'[s] = new
            /\ \/ pc'[s] = "resolve"
               \/ pc'[s] = "webhook_failed" /\ obj[s].status = "pending"
        BY <1>0, <2>1, <2>2, <2>5, GoesOn
      <3> QED  BY <2>1, <2>2, <2>3, <3>1 DEF StepGoal, HeldOK, TextMove
    <2> QED  BY <2>4, <2>5
  <1>3. CASE fail_by_webhook(s)
    <2> DEFINE new == [obj[s] EXCEPT !.status = "failed", !.reason = "provider",
                                     !.next = "none"]
    <2>1. new \in Rows /\ new.status = "failed" /\ new.reason = "provider"
      BY <1>0 DEF Rows, Statuses, Reasons, Actions
    <2>2. /\ row' = Flushed(obj[s], new) /\ End(s) /\ obj[s].status = "pending"
          /\ UNCHANGED <<refunds, issued, texts, smsJob>>
      BY <1>0, <1>3 DEF fail_by_webhook, HeldOK, sms
    <2>3. Fails
      BY <1>0, <2>1, <2>2, FlushedCurrent DEF Fails, Same, Unsettled, CopiesCurrent
    <2> QED  BY <1>0, <2>2, <2>3, EndHeld DEF StepGoal, SaleMove, TextMove
  <1>4. CASE run_payment_reconciliation(s)
    <2>1. /\ UNCHANGED <<row, refunds, issued, texts, smsJob>>
          /\ job' = [job EXCEPT ![s] = "batch"]
          /\ \/ row.status = "pending" /\ Load(s, row) /\ Goto(s, "item")
             \/ Goto(s, "recheck") /\ UNCHANGED obj
      BY <1>4 DEF run_payment_reconciliation, sms
    <2>2. /\ OthersStay(s)
          /\ \/ pc'[s] = "item" /\ obj'[s].status = "pending"
             \/ pc'[s] = "recheck" /\ obj'[s] = obj[s]
          /\ job'[s] = "batch"
      BY <1>0, <2>1 DEF Goto, Load, SessionOK, OthersStay
    <2> QED  BY <1>0, <2>1, <2>2 DEF StepGoal, HeldOK, SaleMove, Quiet, TextMove
  <1> DEFINE late == TimedOut(obj[s])
  <1>5. /\ late \in Rows /\ Provisional(late)
        /\ obj[s].status = "pending" /\ row' = Flushed(obj[s], late) /\ UNCHANGED issued => TimesOut
    <2>1. late \in Rows /\ Provisional(late)
      BY <1>0 DEF TimedOut, Rows, Statuses, Reasons, Provisional
    <2> QED  BY <1>0, <2>1, FlushedCurrent DEF CopiesCurrent, Same, TimesOut, Provisional
  <1>6. CASE reconcile_item(s)
    <2>1. obj[s].status = "pending" /\ UNCHANGED <<refunds, issued, texts, smsJob>>
      BY <1>0, <1>6 DEF reconcile_item, HeldOK, sms
    <2>2. CASE Goto(s, "verify") /\ UNCHANGED <<row, job, obj>>
      <3>1. OthersStay(s) /\ pc'[s] = "verify" /\ job'[s] = job[s] /\ obj'[s] = obj[s]
        BY <1>0, <2>2, GoesOn
      <3>2. job[s] = "batch"
        BY <1>0, <1>6 DEF reconcile_item, HeldOK
      <3> QED  BY <2>1, <2>2, <3>1, <3>2 DEF StepGoal, HeldOK, Unsettled, SaleMove, Quiet, TextMove
    <2>3. CASE row' = Flushed(obj[s], late) /\ DoneRefreshed(s, late)
      BY <1>0, <1>5, <2>1, <2>3, EndHeld DEF StepGoal, SaleMove, TextMove, Provisional
    <2>4. CASE Done(s) /\ UNCHANGED row
      BY <1>0, <2>1, <2>4, EndHeld DEF StepGoal, SaleMove, Quiet, TextMove
    <2> QED  BY <1>6, <2>2, <2>3, <2>4 DEF reconcile_item
  <1>7. CASE reconcile_timeout(s)
    <2>1. /\ row' = Flushed(obj[s], late) /\ DoneRefreshed(s, late) /\ obj[s].status = "pending"
          /\ UNCHANGED <<refunds, issued, texts, smsJob>>
      BY <1>0, <1>7 DEF reconcile_timeout, HeldOK, sms
    <2> QED  BY <1>0, <1>5, <2>1, EndHeld DEF StepGoal, SaleMove, TextMove, Provisional
  <1>8. CASE recheck_timed_out(s)
    <2>1. UNCHANGED <<row, refunds, issued, texts, smsJob>>
      BY <1>8 DEF recheck_timed_out, sms
    <2>2. CASE End(s)
      BY <1>0, <2>1, <2>2, EndHeld DEF StepGoal, SaleMove, Quiet, TextMove
    <2>3. CASE ~End(s)
      <3>1. /\ Provisional(row)
            /\ job' = [job EXCEPT ![s] = "late"] /\ Goto(s, "verify")
            /\ Load(s, IF obj[s] = NoRow THEN row ELSE obj[s])
        BY <1>8, <2>3 DEF recheck_timed_out, Provisional
      <3>2. OthersStay(s) /\ pc'[s] = "verify" /\ job'[s] = "late"
            /\ obj'[s] = IF obj[s] = NoRow THEN row ELSE obj[s]
        BY <1>0, <3>1 DEF Goto, Load, SessionOK, OthersStay
      <3>3. obj[s] = NoRow \/ obj[s].status # "absent"
        BY <1>0 DEF HeldOK
      <3>4. Provisional(obj'[s])
        BY <3>1, <3>2, <3>3 DEF CopiesCurrent, Same, Provisional
      <3> QED  BY <2>1, <3>2, <3>4 DEF StepGoal, HeldOK, Unsettled, Provisional, SaleMove, Quiet, TextMove
    <2> QED  BY <2>2, <2>3
  <1>9. CASE Crash(s)
    <2>1. UNCHANGED <<row, refunds, issued, texts, smsJob>> /\ End(s)
      BY <1>9 DEF Crash, sms
    <2> QED  BY <1>0, <2>1, EndHeld DEF StepGoal, SaleMove, Quiet, TextMove
  <1> QED  BY <1>1, <1>2, <1>3, <1>4, <1>6, <1>7, <1>8, <1>9

-----------------------------------------------------------------------------
\* What any step does until a refund: one of the moves, by at most one session.
LEMMA StageStep ==
  ASSUME TypeOK, StageInv, CopiesCurrent, refunds = 0, [Next]_vars
  PROVE  \/ \E s \in Session : StepGoal(s)
         \/ /\ UNCHANGED <<row, issued, pc, job, obj, refunds>>
            /\ \/ UNCHANGED <<texts, smsJob>>
               \/ send_voucher_sms
               \/ sms_result_expires
         \/ refunds' > 0 /\ row.status # "absent"
  <1>1. ASSUME NEW s \in Session, SessionStep(s)
        PROVE  StepGoal(s)
    BY <1>1, StagePortal, StageSettle, StageJobs DEF SessionStep
  <1>2. CASE ProviderMoves \/ TimePasses \/ CheckAges \/ UNCHANGED vars
    BY <1>2 DEF ProviderMoves, TimePasses, CheckAges, vars, session, sms
  <1>3. CASE send_voucher_sms \/ sms_result_expires
    BY <1>3 DEF send_voucher_sms, sms_result_expires, session
  <1>4. CASE refund_payment
    BY <1>4, ConstantsAssumption DEF refund_payment
  <1> QED  BY <1>1, <1>2, <1>3, <1>4 DEF Next

\* A refund is never taken back.
LEMMA RefundsStay ==
  ASSUME TypeOK, [Next]_vars, refunds' = 0
  PROVE  refunds = 0
  <1>1. ASSUME NEW s \in Session, SessionStep(s)
        PROVE  UNCHANGED refunds
    <2>1. CASE \/ create_pending_transaction(s) \/ initiate_payment(s)
               \/ resolve_failed_initiation(s) \/ continue_payment(s)
               \/ submit_input(s) \/ portal_payment_status(s)
               \/ verify_payment(s) \/ process_flutterwave_event(s)
      BY <2>1 DEF create_pending_transaction, initiate_payment, resolve_failed_initiation,
         continue_payment, submit_input, portal_payment_status, verify_payment,
         process_flutterwave_event
    <2>2. CASE \/ verify_answers(s) \/ verify_unreachable(s) \/ apply_provider_result(s)
               \/ apply_late_result(s) \/ resolve_successful_payment(s)
               \/ enqueue_voucher_sms(s)
      BY <2>2 DEF verify_answers, verify_unreachable, apply_provider_result,
         apply_late_result, resolve_successful_payment, enqueue_voucher_sms
    <2>3. CASE \/ process_paystack_event(s) \/ apply_webhook_update(s)
               \/ fail_by_webhook(s) \/ run_payment_reconciliation(s)
               \/ reconcile_item(s) \/ reconcile_timeout(s)
               \/ recheck_timed_out(s) \/ Crash(s)
      BY <2>3 DEF process_paystack_event, apply_webhook_update, fail_by_webhook,
         run_payment_reconciliation, reconcile_item, reconcile_timeout, recheck_timed_out, Crash
    <2> QED  BY <1>1, <2>1, <2>2, <2>3 DEF SessionStep
  <1>2. CASE refund_payment
    BY <1>2, ConstantsAssumption DEF refund_payment, TypeOK, StateOK
  <1>3. CASE \/ ProviderMoves \/ send_voucher_sms \/ sms_result_expires
             \/ TimePasses \/ CheckAges \/ UNCHANGED vars
    BY <1>3 DEF ProviderMoves, send_voucher_sms, sms_result_expires, TimePasses, CheckAges, vars
  <1> QED  BY <1>1, <1>2, <1>3 DEF Next

\* A session's step keeps the invariant, for the others too.
LEMMA StageKept ==
  ASSUME TypeOK, TypeOK', StageInv, CopiesCurrent, [Next]_vars
  PROVE  StageInv'
  <1>1. CASE refunds = 0 /\ refunds' = 0
    <2> USE <1>1
    <2>1. ASSUME NEW s \in Session, StepGoal(s)
          PROVE  StageInv'
      <3>1. \A t \in Session : HeldOK(t)'
        <4>1. ASSUME NEW t \in Session, t # s PROVE HeldOK(t)'
          BY <2>1, <4>1 DEF StepGoal, OthersStay, StageInv, HeldOK
        <4> QED  BY <2>1, <4>1 DEF StepGoal
      <3>2. row'.status # "refunded" /\ issued' = IF row'.status = "success" THEN 1 ELSE 0
        BY <2>1 DEF StepGoal, SaleMove, Quiet, Opens, Fails, TimesOut, Sells, Unsettled,
                    Provisional, StageInv
      <3> QED  BY <3>1, <3>2 DEF StageInv
    <2>2. CASE UNCHANGED <<row, issued, pc, job, obj, refunds>>
      BY <2>2 DEF StageInv, HeldOK
    <2> QED  BY <2>1, <2>2, StageStep
  <1>2. CASE refunds' # 0
    BY <1>2 DEF StageInv
  <1>3. refunds' = 0 => refunds = 0
    BY RefundsStay
  <1> QED  BY <1>1, <1>2, <1>3

LEMMA StageInit == Init => StageInv /\ CopiesCurrent
  BY DEF Init, StageInv, CopiesCurrent, HeldOK, NoRow

LEMMA StageHolds == Spec /\ []CopiesCurrent => []StageInv
  <1>1. TypeOK /\ TypeOK' /\ StageInv /\ CopiesCurrent /\ [Next]_vars => StageInv'
    BY StageKept
  <1> QED  BY <1>1, StageInit, TypeCorrect, PTL DEF Spec

\* As long as no session acts on a stale copy, one payment buys one voucher,
\* however polls, webhooks, re-checks and reconciliation runs interleave: the
\* double sale needs an object loaded before another session sold.
THEOREM OneVoucherPerPayment == Spec /\ []CopiesCurrent => []OneVoucher
  <1>1. StageInv => OneVoucher
    BY DEF StageInv, OneVoucher
  <1> QED  BY <1>1, StageHolds, PTL

-----------------------------------------------------------------------------
(* TextedOnce.                                                             *)

\* The text is sent after it was queued, queued once by the one session that
\* sold, and arq drops the id only after the only try.
TextInv ==
  refunds = 0 =>
    /\ texts <= 1
    /\ smsJob = "queued" => texts = 0
    /\ issued = 0 => texts = 0 /\ smsJob = "none"
    /\ \A s \in Session : pc[s] = "enqueue" => issued = 1 /\ texts = 0 /\ smsJob = "none"
    /\ \A s, t \in Session : pc[s] = "enqueue" /\ pc[t] = "enqueue" => s = t

LEMMA TextStep ==
  ASSUME TypeOK, StageInv, CopiesCurrent, TextInv, [Next]_vars, refunds = 0, refunds' = 0
  PROVE  TextInv'
  <1>1. ASSUME NEW s \in Session, StepGoal(s)
        PROVE  TextInv'
    <2>1. /\ UNCHANGED texts /\ OthersStay(s)
          /\ pc'[s] = "enqueue" => Sells
          /\ UNCHANGED smsJob \/ (pc[s] = "enqueue" /\ smsJob' = "queued")
      BY <1>1 DEF StepGoal, TextMove
    <2>2. CASE Sells
      <3>1. issued = 0 /\ issued' = 1
        BY <2>2 DEF Sells, StageInv, Unsettled, Provisional
      <3>2. texts = 0 /\ smsJob = "none" /\ \A t \in Session : pc[t] # "enqueue"
        BY <3>1 DEF TextInv
      <3> QED  BY <2>1, <3>1, <3>2 DEF TextInv, OthersStay
    <2>3. CASE ~Sells
      <3>1. UNCHANGED issued
        BY <1>1, <2>3 DEF StepGoal, SaleMove, Quiet, Opens, Fails, TimesOut
      <3>2. pc'[s] # "enqueue" /\ \A t \in Session : pc'[t] = "enqueue" => pc[t] = "enqueue" /\ t # s
        BY <2>1, <2>3 DEF OthersStay
      <3>3. CASE UNCHANGED smsJob
        BY <2>1, <3>1, <3>2, <3>3 DEF TextInv
      <3>4. CASE pc[s] = "enqueue" /\ smsJob' = "queued"
        <4>1. texts = 0 /\ issued = 1 /\ \A t \in Session : pc'[t] # "enqueue"
          BY <3>2, <3>4 DEF TextInv
        <4> QED  BY <2>1, <3>1, <3>4, <4>1 DEF TextInv
      <3> QED  BY <2>1, <3>3, <3>4
    <2> QED  BY <2>2, <2>3
  <1>2. CASE UNCHANGED <<issued, pc, refunds, texts, smsJob>>
    BY <1>2 DEF TextInv
  <1>3. CASE UNCHANGED <<issued, pc, refunds>> /\ send_voucher_sms
    BY <1>3 DEF TextInv, send_voucher_sms, TypeOK, StateOK
  <1>4. CASE UNCHANGED <<issued, pc, refunds>> /\ sms_result_expires
    BY <1>4 DEF TextInv, sms_result_expires
  <1> QED  BY <1>1, <1>2, <1>3, <1>4, StageStep

\* Nor is the buyer then texted twice, whatever arq keeps or forgets.
THEOREM TextsAreNotRepeated == Spec /\ []CopiesCurrent => []TextedOnce
  <1>1. Init => TextInv
    BY DEF Init, TextInv
  <1>2. TypeOK /\ StageInv /\ CopiesCurrent /\ TextInv /\ [Next]_vars => TextInv'
    BY TextStep, RefundsStay DEF TextInv
  <1>3. TextInv => TextedOnce
    BY DEF TextInv, TextedOnce
  <1> QED  BY <1>1, <1>2, <1>3, StageHolds, TypeCorrect, PTL DEF Spec

-----------------------------------------------------------------------------
(* KeepsPromise.                                                           *)

Shown == <<Stage, IF refunds = 0 THEN issued ELSE 0>>

LEMMA StageIs ==
  ASSUME TypeOK
  PROVE  /\ refunds > 0 => Stage = "void"
         /\ refunds = 0 =>
              /\ row.status = "absent" => Stage = "none"
              /\ row.status = "pending" => Stage = "open"
              /\ row.status = "success" => Stage = "sold"
              /\ row.status = "failed" =>
                   Stage = IF row.reason = "timeout" THEN "timed_out" ELSE "failed"
  BY DEF Stage, TypeOK, StateOK

LEMMA StageNext ==
  ASSUME TypeOK'
  PROVE  /\ refunds' > 0 => Stage' = "void"
         /\ refunds' = 0 =>
              /\ row'.status = "absent" => Stage' = "none"
              /\ row'.status = "pending" => Stage' = "open"
              /\ row'.status = "success" => Stage' = "sold"
              /\ row'.status = "failed" =>
                   Stage' = IF row'.reason = "timeout" THEN "timed_out" ELSE "failed"
  BY DEF Stage, TypeOK, StateOK

LEMMA PromiseStep ==
  ASSUME TypeOK, TypeOK', StageInv, CopiesCurrent, [Next]_vars
  PROVE  Promise!Next \/ UNCHANGED Shown
  <1> USE DEF Shown
  <1>0. refunds \in Nat /\ refunds' \in Nat /\ row \in Rows /\ row' \in Rows
    BY ConstantsAssumption DEF TypeOK, StateOK
  <1>1. CASE refunds = 0 /\ refunds' = 0
    <2>1. ASSUME SaleMove
          PROVE  Promise!Next \/ UNCHANGED Shown
      <3>1. CASE Quiet
        <4>1. row.status # "refunded"
          BY <1>1 DEF StageInv
        <4>2. row.status \in {"absent", "pending", "success", "failed"}
          BY <1>0, <4>1 DEF Rows, Statuses
        <4> QED  BY <1>1, <3>1, <4>2, StageIs, StageNext DEF Quiet
      <3>2. CASE Opens
        BY <1>1, <3>2, StageIs, StageNext DEF Opens, Promise!Next, Promise!Open, Promise!Move
      <3>3. CASE Fails
        BY <1>1, <3>3, StageIs, StageNext DEF Fails, Unsettled, Provisional,
           Promise!Next, Promise!Fail, Promise!Move
      <3>4. CASE TimesOut
        BY <1>1, <3>4, StageIs, StageNext DEF TimesOut, Provisional,
           Promise!Next, Promise!TimeOut, Promise!Move
      <3>5. CASE Sells
        BY <1>1, <3>5, StageIs, StageNext DEF Sells, Unsettled, Provisional,
           Promise!Next, Promise!Sell
      <3> QED  BY <2>1, <3>1, <3>2, <3>3, <3>4, <3>5 DEF SaleMove
    <2>2. CASE UNCHANGED <<row, issued, refunds>>
      BY <2>2 DEF Stage
    <2> QED  BY <1>1, <2>1, <2>2, StageStep DEF StepGoal
  <1>2. CASE refunds = 0 /\ refunds' > 0
    <2>1. row.status # "absent"
      BY <1>2, StageStep DEF StepGoal
    <2>2. row.status # "refunded" /\ Stage # "none"
      <3>1. row.status \in {"pending", "success", "failed"}
        BY <1>0, <1>2, <2>1 DEF StageInv, Rows, Statuses
      <3> QED  BY <1>2, <3>1, StageIs
    <2>3. Stage' = "void"
      BY <1>2, StageNext
    <2> QED  BY <1>2, <2>2, <2>3 DEF Promise!Next, Promise!Void
  <1>3. CASE refunds > 0
    <2>1. refunds' > 0
      BY <1>0, <1>3, RefundsStay
    <2> QED  BY <1>3, <2>1, StageIs, StageNext
  <1> QED  BY <1>0, <1>1, <1>2, <1>3

\* And the payment then keeps its promise: opened once, sold once, what the
\* provider failed stays failed.
THEOREM PromiseIsKept == Spec /\ []CopiesCurrent => KeepsPromise
  <1>1. Init => Promise!Init
    <2> SUFFICES ASSUME Init PROVE Promise!Init
      OBVIOUS
    <2>1. TypeOK /\ refunds = 0 /\ row.status = "absent" /\ issued = 0
      BY TypeInit DEF Init, NoRow
    <2> QED  BY <2>1, StageIs DEF Promise!Init
  <1>2. TypeOK /\ TypeOK' /\ StageInv /\ CopiesCurrent /\ [Next]_vars => [Promise!Next]_Shown
    BY PromiseStep
  <1> QED  BY <1>1, <1>2, StageHolds, TypeCorrect, PTL DEF Spec, KeepsPromise, Promise!Spec, Shown

-----------------------------------------------------------------------------
(* Requests that do not overlap hold no stale copies.                      *)

OneAtATime == \A s, t \in Session : pc[s] # "idle" /\ pc[t] # "idle" => s = t

IdleHoldsNothing == refunds = 0 => \A s \in Session : pc[s] = "idle" => obj[s] = NoRow

\* A session's step leaves it with nothing, with the row, or with what it had
\* of a row that stays.
CopyKept(s) ==
  /\ OthersStay(s)
  /\ pc'[s] = "idle" => obj'[s] = NoRow
  /\ \/ obj'[s].status = "absent"
     \/ Same(obj'[s], row')
     \/ obj'[s] = obj[s] /\ Same(row, row')
  /\ pc[s] # "idle" \/ pc'[s] # "idle" \/ Same(row, row')

LEMMA EndCopy ==
  ASSUME SessionOK, NEW s \in Session, pc[s] # "idle", NEW r,
         \/ End(s)
         \/ Done(s) /\ UNCHANGED row
         \/ DoneRefreshed(s, r) /\ Same(r, row')
  PROVE  CopyKept(s)
  <1>1. OthersStay(s)
    BY EndLive
  <1>2. CASE End(s)
    BY <1>1, <1>2 DEF End, SessionOK, NoRow, CopyKept
  <1>3. CASE Done(s) /\ UNCHANGED row /\ ~End(s)
    BY <1>1, <1>3 DEF Done, Goto, SessionOK, Same, CopyKept
  <1>4. CASE DoneRefreshed(s, r) /\ Same(r, row') /\ ~End(s)
    BY <1>1, <1>4 DEF DoneRefreshed, Goto, Load, SessionOK, CopyKept
  <1> QED  BY <1>2, <1>3, <1>4

LEMMA LoadCopy ==
  ASSUME SessionOK, NEW s \in Session, NEW r \in Rows, NEW step, step # "idle",
         Goto(s, step), UNCHANGED job,
         \/ Load(s, r) /\ Same(r, row')
         \/ UNCHANGED <<obj, row>>
  PROVE  CopyKept(s)
  <1>1. OthersStay(s) /\ pc'[s] = step
    BY GoesOn
  <1>2. CASE Load(s, r) /\ Same(r, row')
    BY <1>1, <1>2, GoesOn DEF CopyKept
  <1>3. CASE UNCHANGED <<obj, row>>
    BY <1>1, <1>3 DEF CopyKept, Same
  <1> QED  BY <1>2, <1>3

LEMMA CopyStep ==
  ASSUME TypeOK, TypeOK', StageInv, CopiesCurrent, IdleHoldsNothing, refunds = 0,
         NEW s \in Session, SessionStep(s)
  PROVE  CopyKept(s)
  <1>0. SessionOK /\ row \in Rows /\ row' \in Rows /\ obj[s] \in Rows /\ ans[s] \in Answers /\ HeldOK(s)
    BY DEF TypeOK, StateOK, SessionOK, StageInv
  <1>1. ASSUME NEW r \in Rows PROVE Same(r, r)
    BY DEF Same
  <1>2. obj[s].status # "absent" => Same(obj[s], row)
    BY DEF CopiesCurrent
  <1>3. CASE \/ create_pending_transaction(s) \/ continue_payment(s) \/ portal_payment_status(s)
             \/ verify_payment(s) \/ process_paystack_event(s)
    <2>1. \E step \in {"initiate", "submit", "verify", "webhook"} :
            Goto(s, step) /\ UNCHANGED job /\ Load(s, row')
      BY <1>3 DEF create_pending_transaction, continue_payment, portal_payment_status,
         verify_payment, process_paystack_event, Start
    <2> QED  BY <1>0, <1>1, <2>1, LoadCopy
  <1>4. CASE process_flutterwave_event(s)
    <2>1. CASE CanForce(row)
      <3>1. Goto(s, "verify") /\ UNCHANGED job /\ Load(s, row')
        BY <1>4, <2>1 DEF process_flutterwave_event, Start
      <3> QED  BY <1>0, <1>1, <3>1, LoadCopy
    <2>2. CASE ~CanForce(row)
      <3>1. UNCHANGED <<pc, job, obj>> /\ pc[s] = "idle" /\ Same(row, row')
        BY <1>0, <1>4, <2>2 DEF process_flutterwave_event, session, Same, Rows
      <3> QED  BY <3>1 DEF CopyKept, OthersStay, IdleHoldsNothing, NoRow
    <2> QED  BY <2>1, <2>2
  <1>5. CASE initiate_payment(s) \/ submit_input(s) \/ verify_answers(s)
    <2>1. /\ UNCHANGED row /\ pc[s] # "idle"
          /\ \/ End(s)
             \/ \E step \in {"apply", "rejected", "late_result"} :
                  Goto(s, step) /\ UNCHANGED <<job, obj>>
      BY <1>5 DEF initiate_payment, submit_input, verify_answers, AfterVerify
    <2>2. CASE End(s)
      BY <1>0, <2>1, <2>2, EndCopy
    <2>3. CASE ~End(s)
      BY <1>0, <2>1, <2>3, LoadCopy
    <2> QED  BY <2>2, <2>3
  <1>6. CASE \/ resolve_failed_initiation(s) \/ verify_unreachable(s) \/ enqueue_voucher_sms(s)
             \/ fail_by_webhook(s) \/ Crash(s)
    <2>1. pc[s] # "idle" /\ (End(s) \/ (Done(s) /\ UNCHANGED row))
      BY <1>6 DEF resolve_failed_initiation, verify_unreachable, enqueue_voucher_sms,
         fail_by_webhook, Crash
    <2> QED  BY <1>0, <2>1, EndCopy
  <1>7. CASE apply_provider_result(s)
    <2> DEFINE v == ans[s].status
               heard == [obj[s] EXCEPT !.ref = TRUE, !.next = ans[s].next,
                           !.reason = IF v = "failed" THEN "provider" ELSE @]
               new == IF Confirms(v) THEN heard ELSE [heard EXCEPT !.status = v]
    <2>1. new \in Rows
      BY <1>0 DEF Rows, Answers, Statuses, Reasons, Verdicts
    <2>2. /\ pc[s] # "idle" /\ obj[s].status # "absent"
          /\ row' = Flushed(obj[s], new)
          /\ \/ Goto(s, "resolve") /\ Load(s, new) /\ UNCHANGED job
             \/ Goto(s, "timeout") /\ Load(s, row') /\ UNCHANGED job
             \/ DoneRefreshed(s, row')
      BY <1>0, <1>7 DEF apply_provider_result, HeldOK
    <2>3. Same(new, row') /\ Same(row', row')
      BY <1>0, <1>1, <1>2, <2>1, <2>2, FlushedCurrent
    <2>4. CASE DoneRefreshed(s, row')
      BY <1>0, <2>2, <2>3, <2>4, EndCopy
    <2>5. CASE ~DoneRefreshed(s, row')
      BY <1>0, <2>1, <2>2, <2>3, <2>5, LoadCopy
    <2> QED  BY <2>4, <2>5
  <1>8. CASE apply_late_result(s)
    <2> DEFINE v == ans[s].status
               new == IF Confirms(v) THEN [obj[s] EXCEPT !.ref = TRUE]
                      ELSE [obj[s] EXCEPT !.reason = IF v = "failed" THEN "provider" ELSE @]
    <2>1. new \in Rows
      BY <1>0 DEF Rows, Reasons
    <2>2. /\ pc[s] # "idle" /\ obj[s].status # "absent"
          /\ row' = Flushed(obj[s], new)
          /\ (Goto(s, "resolve") /\ Load(s, new) /\ UNCHANGED job) \/ End(s)
      BY <1>0, <1>8 DEF apply_late_result, HeldOK
    <2>3. Same(new, row')
      BY <1>0, <1>2, <2>1, <2>2, FlushedCurrent
    <2> QED  BY <1>0, <2>1, <2>2, <2>3, EndCopy, LoadCopy
  <1>9. CASE resolve_successful_payment(s)
    <2>1. /\ pc[s] # "idle"
          /\ \/ Done(s) /\ UNCHANGED row
             \/ Goto(s, "enqueue") /\ Load(s, row') /\ UNCHANGED job
             \/ DoneRefreshed(s, row')
      BY <1>9 DEF resolve_successful_payment
    <2>2. CASE Goto(s, "enqueue") /\ Load(s, row') /\ UNCHANGED job
      BY <1>0, <1>1, <2>2, LoadCopy
    <2> QED  BY <1>0, <1>1, <2>1, <2>2, EndCopy
  <1>10. CASE apply_webhook_update(s)
    <2> DEFINE new == [obj[s] EXCEPT !.next = IF ans[s].status = "pending" THEN @ ELSE "none"]
    <2>1. new \in Rows
      BY <1>0 DEF Rows, Actions
    <2>2. /\ pc[s] # "idle" /\ obj[s].status # "absent"
          /\ row' = Flushed(obj[s], new)
          /\ \/ \E step \in {"resolve", "webhook_failed"} :
                  Goto(s, step) /\ Load(s, new) /\ UNCHANGED job
             \/ End(s)
      BY <1>0, <1>10 DEF apply_webhook_update, HeldOK
    <2>3. Same(new, row')
      BY <1>0, <1>2, <2>1, <2>2, FlushedCurrent
    <2> QED  BY <1>0, <2>1, <2>2, <2>3, EndCopy, LoadCopy
  <1>11. CASE run_payment_reconciliation(s)
    <2>1. /\ UNCHANGED row /\ job' = [job EXCEPT ![s] = "batch"]
          /\ \/ Load(s, row) /\ Goto(s, "item")
             \/ Goto(s, "recheck") /\ UNCHANGED obj
      BY <1>11 DEF run_payment_reconciliation
    <2>2. /\ OthersStay(s) /\ pc'[s] # "idle"
          /\ obj'[s] = row \/ obj'[s] = obj[s]
      BY <1>0, <2>1 DEF Goto, Load, SessionOK, OthersStay
    <2> QED  BY <2>1, <2>2 DEF CopyKept, Same
  <1>12. CASE reconcile_item(s) \/ reconcile_timeout(s)
    <2> DEFINE late == TimedOut(obj[s])
    <2>1. late \in Rows
      BY <1>0 DEF TimedOut, Rows, Statuses, Reasons
    <2>2. /\ pc[s] # "idle" /\ obj[s].status # "absent"
          /\ \/ Goto(s, "verify") /\ UNCHANGED <<row, job, obj>>
             \/ row' = Flushed(obj[s], late) /\ DoneRefreshed(s, late)
             \/ Done(s) /\ UNCHANGED row
      BY <1>0, <1>12 DEF reconcile_item, reconcile_timeout, HeldOK
    <2>3. row' = Flushed(obj[s], late) => Same(late, row')
      BY <1>0, <1>2, <2>1, <2>2, FlushedCurrent
    <2>4. CASE Goto(s, "verify") /\ UNCHANGED <<row, job, obj>>
      BY <1>0, <2>4, LoadCopy
    <2> QED  BY <1>0, <2>2, <2>3, <2>4, EndCopy
  <1>13. CASE recheck_timed_out(s)
    <2>1. UNCHANGED row /\ pc[s] # "idle"
      BY <1>13 DEF recheck_timed_out
    <2>2. CASE End(s)
      BY <1>0, <2>1, <2>2, EndCopy
    <2>3. CASE ~End(s)
      <3>1. /\ job' = [job EXCEPT ![s] = "late"] /\ Goto(s, "verify")
            /\ Load(s, row) \/ Load(s, obj[s])
        BY <1>13, <2>3 DEF recheck_timed_out
      <3>2. OthersStay(s) /\ pc'[s] = "verify" /\ (obj'[s] = row \/ obj'[s] = obj[s])
        BY <1>0, <3>1 DEF Goto, Load, SessionOK, OthersStay
      <3> QED  BY <2>1, <3>2 DEF CopyKept, Same
    <2> QED  BY <2>2, <2>3
  <1> QED  BY <1>3, <1>4, <1>5, <1>6, <1>7, <1>8, <1>9, <1>10, <1>11, <1>12, <1>13
           DEF SessionStep

LEMMA AloneStep ==
  ASSUME TypeOK, TypeOK', StageInv, CopiesCurrent, IdleHoldsNothing,
         OneAtATime, OneAtATime', [Next]_vars
  PROVE  CopiesCurrent' /\ IdleHoldsNothing'
  <1>1. CASE refunds = 0 /\ refunds' = 0
    <2> USE <1>1
    <2>1. ASSUME NEW s \in Session, SessionStep(s)
          PROVE  CopiesCurrent' /\ IdleHoldsNothing'
      <3>1. CopyKept(s)
        BY <2>1, CopyStep
      <3>2. obj'[s].status # "absent" => Same(obj'[s], row')
        BY <3>1 DEF CopyKept, CopiesCurrent, Same
      <3>3. ASSUME NEW t \in Session, t # s, obj'[t].status # "absent"
            PROVE  Same(obj'[t], row')
        <4>1. obj'[t] = obj[t] /\ pc'[t] = pc[t]
          BY <3>1, <3>3 DEF CopyKept, OthersStay
        <4>2. pc[t] # "idle"
          BY <3>3, <4>1 DEF IdleHoldsNothing, NoRow
        <4>3. Same(row, row')
          BY <3>1, <3>3, <4>1, <4>2 DEF CopyKept, OneAtATime
        <4> QED  BY <3>3, <4>1, <4>3 DEF CopiesCurrent, Same
      <3> QED  BY <3>1, <3>2, <3>3 DEF CopyKept, OthersStay, CopiesCurrent, IdleHoldsNothing
    <2>2. CASE UNCHANGED <<row, pc, obj>>
      BY <2>2 DEF CopiesCurrent, IdleHoldsNothing, Same
    <2>3. CASE refund_payment
      BY <2>3, ConstantsAssumption DEF refund_payment, TypeOK, StateOK
    <2> QED  BY <2>1, <2>2, <2>3 DEF Next, ProviderMoves, send_voucher_sms, sms_result_expires,
                TimePasses, CheckAges, vars, session
  <1>2. CASE refunds' # 0
    BY <1>2 DEF CopiesCurrent, IdleHoldsNothing
  <1> QED  BY <1>1, <1>2, RefundsStay

\* Requests and runs that do not overlap hold no stale copies: what the
\* theorems above ask for is met by any number of sessions, one after another.
THEOREM AloneIsCurrent == Spec /\ []OneAtATime => []CopiesCurrent
  <1>1. Init => StageInv /\ CopiesCurrent /\ IdleHoldsNothing
    BY StageInit DEF Init, IdleHoldsNothing
  <1>2. TypeOK /\ TypeOK' /\ StageInv /\ CopiesCurrent /\ [Next]_vars => StageInv'
    BY StageKept
  <1>3. TypeOK /\ TypeOK' /\ StageInv /\ CopiesCurrent /\ IdleHoldsNothing
          /\ OneAtATime /\ OneAtATime' /\ [Next]_vars => CopiesCurrent' /\ IdleHoldsNothing'
    BY AloneStep
  <1> QED  BY <1>1, <1>2, <1>3, TypeCorrect, PTL DEF Spec

\* So they keep all of it: one voucher, one text, and the promise.
THEOREM OneAtATimeKeepsAll ==
  Spec /\ []OneAtATime => []OneVoucher /\ []TextedOnce /\ KeepsPromise
  BY AloneIsCurrent, OneVoucherPerPayment, TextsAreNotRepeated, PromiseIsKept, PTL
=============================================================================
