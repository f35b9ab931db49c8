--------------------------- MODULE PaymentsProofs ---------------------------
(***************************************************************************)
(* Theorems about Payments for every number of sessions and refunds.       *)
(***************************************************************************)
EXTENDS Payments, TLAPS

\* A flush of row-shaped objects leaves a row.
LEMMA FlushedType ==
  ASSUME row \in Rows, NEW old \in Rows, NEW new \in Rows
  PROVE  Flushed(old, new) \in Rows
  BY DEF Flushed, Put, Rows

LEMMA NoRowType == NoRow \in Rows /\ NoAnswer \in Answers
  BY DEF NoRow, NoAnswer, Rows, Answers, Statuses, Reasons, Actions, Verdicts

LEMMA EndType ==
  ASSUME SessionOK, NEW s \in Session, End(s)
  PROVE  SessionOK'
  BY NoRowType DEF SessionOK, End, Goto, Steps, Jobs

LEMMA DoneType ==
  ASSUME SessionOK, NEW s \in Session, Done(s)
  PROVE  SessionOK'
  <1>1. CASE job[s] = "batch"
    BY <1>1, NoRowType DEF SessionOK, Done, Goto, Answer, Steps
  <1>2. CASE job[s] # "batch"
    BY <1>2, EndType DEF Done
  <1> QED  BY <1>1, <1>2

LEMMA DoneRefreshedType ==
  ASSUME SessionOK, NEW s \in Session, NEW r \in Rows, DoneRefreshed(s, r)
  PROVE  SessionOK'
  <1>1. CASE job[s] = "batch"
    BY <1>1, NoRowType DEF SessionOK, DoneRefreshed, Goto, Answer, Load, Steps
  <1>2. CASE job[s] # "batch"
    BY <1>2, EndType DEF DoneRefreshed
  <1> QED  BY <1>1, <1>2

LEMMA StartType ==
  ASSUME SessionOK, NEW s \in Session, NEW r \in Rows, NEW step \in Steps,
         Start(s, step, r)
  PROVE  SessionOK'
  BY DEF SessionOK, Start, Goto, Load

LEMMA VerdictOfType ==
  ASSUME NEW c, NEW a \in VerdictOf(c)
  PROVE  a \in Answers
  BY DEF VerdictOf, Answers, Verdicts, Actions

LEMMA SettleType ==
  ASSUME NEW c \in {"none", "open", "failed", "paid", "reversed"},
         said \subseteq {"success", "failed"}, Settle(c)
  PROVE  /\ charge' \in {"none", "open", "failed", "paid", "reversed"}
         /\ said' \subseteq {"success", "failed"}
  BY DEF Settle, Told

LEMMA TypeInit == Init => TypeOK
  <1> SUFFICES ASSUME Init PROVE TypeOK
    OBVIOUS
  <1>1. recent \in BOOLEAN
    BY Zenon DEF Init
  <1>2. StateOK
    BY <1>1, ConstantsAssumption, NoRowType DEF Init, StateOK
  <1>3. SessionOK
    BY NoRowType DEF Init, SessionOK, Steps, Jobs
  <1> QED  BY <1>2, <1>3 DEF TypeOK

LEMMA TypePortal ==
  ASSUME TypeOK, NEW s \in Session,
         \/ create_pending_transaction(s) \/ initiate_payment(s)
         \/ resolve_failed_initiation(s) \/ continue_payment(s)
         \/ submit_input(s) \/ portal_payment_status(s)
  PROVE  TypeOK'
  <1> USE DEF TypeOK
  <1>1. CASE create_pending_transaction(s)
    <2>1. row' \in Rows
      BY <1>1 DEF create_pending_transaction, NoRow, Rows, Statuses, Reasons, Actions
    <2>2. SessionOK'
      BY <1>1, <2>1, StartType DEF create_pending_transaction, Steps
    <2> QED  BY <1>1, <2>1, <2>2 DEF create_pending_transaction, StateOK, provider, sms
  <1>2. CASE initiate_payment(s)
    <2>1. /\ charge' \in {"none", "open", "failed", "paid", "reversed"}
          /\ said' \subseteq {"success", "failed"}
      BY <1>2, SettleType DEF initiate_payment, StateOK
    <2>2. SessionOK'
      <3>1. CASE \E a \in Answers : /\ Answer(s, a) /\ pc' = [pc EXCEPT ![s] = "apply"]
                                    /\ UNCHANGED <<job, obj, seen>>
        BY <3>1 DEF SessionOK, Answer, Steps
      <3>2. CASE Goto(s, "rejected") /\ UNCHANGED <<job, obj, ans, seen>>
        BY <3>2 DEF SessionOK, Goto, Steps
      <3>3. CASE End(s)
        BY <3>3, EndType
      <3>4. [status |-> "failed", next |-> "none"] \in Answers
        BY DEF Answers, Verdicts, Actions
      <3> QED  BY <1>2, <3>1, <3>2, <3>3, <3>4, VerdictOfType DEF initiate_payment, Goto
    <2> QED  BY <1>2, <2>1, <2>2 DEF initiate_payment, StateOK, sms
  <1>3. CASE resolve_failed_initiation(s)
    <2>1. row' \in Rows
      <3>1. [obj[s] EXCEPT !.status = "failed", !.reason = "provider", !.next = "none"] \in Rows
        BY DEF SessionOK, Rows, Statuses, Reasons, Actions
      <3> QED  BY <1>3, <3>1, FlushedType DEF resolve_failed_initiation, SessionOK, StateOK
    <2> QED  BY <1>3, <2>1, EndType DEF resolve_failed_initiation, StateOK, provider, sms
  <1>4. CASE continue_payment(s)
    <2>1. SessionOK'
      BY <1>4, StartType DEF continue_payment, Steps, StateOK
    <2> QED  BY <1>4, <2>1 DEF continue_payment, StateOK, provider, sms
  <1>5. CASE submit_input(s)
    <2>1. PICK c \in IF charge = "open" THEN {"open", "paid", "failed"} ELSE {charge} :
            /\ Settle(c)
            /\ \/ \E a \in VerdictOf(c) : Answer(s, a) /\ Goto(s, "apply")
                                          /\ UNCHANGED <<job, obj, seen>>
               \/ End(s)
      BY <1>5 DEF submit_input
    <2>2. c \in {"none", "open", "failed", "paid", "reversed"}
      BY DEF StateOK
    <2>3. SessionOK'
      <3>1. CASE End(s)
        BY <3>1, EndType
      <3>2. ASSUME NEW a \in VerdictOf(c), Answer(s, a), Goto(s, "apply"),
                   UNCHANGED <<job, obj, seen>>
            PROVE  SessionOK'
        BY <3>2, VerdictOfType DEF SessionOK, Answer, Goto, Steps
      <3> QED  BY <2>1, <3>1, <3>2
    <2> QED  BY <1>5, <2>1, <2>2, <2>3, SettleType DEF submit_input, StateOK, sms
  <1>6. CASE portal_payment_status(s)
    <2>1. SessionOK'
      BY <1>6, StartType DEF portal_payment_status, Steps, StateOK
    <2> QED  BY <1>6, <2>1 DEF portal_payment_status, StateOK, provider, sms
  <1> QED  BY <1>1, <1>2, <1>3, <1>4, <1>5, <1>6

LEMMA TypeRefresh ==
  ASSUME TypeOK, NEW s \in Session,
         \/ verify_payment(s) \/ verify_answers(s) \/ verify_unreachable(s)
         \/ apply_provider_result(s) \/ apply_late_result(s)
         \/ resolve_successful_payment(s) \/ enqueue_voucher_sms(s)
  PROVE  TypeOK'
  <1> USE DEF TypeOK
  <1>1. CASE verify_payment(s)
    <2>1. SessionOK'
      BY <1>1, StartType DEF verify_payment, Steps, StateOK
    <2> QED  BY <1>1, <2>1 DEF verify_payment, StateOK, provider, sms
  <1>2. CASE verify_answers(s)
    <2>1. SessionOK'
      BY <1>2, VerdictOfType DEF verify_answers, AfterVerify, SessionOK, Answer, Goto, Steps
    <2> QED  BY <1>2, <2>1 DEF verify_answers, StateOK, provider, sms
  <1>3. CASE verify_unreachable(s)
    BY <1>3, DoneType DEF verify_unreachable, StateOK, provider, sms
  <1>4. CASE apply_provider_result(s)
    <2> DEFINE v == ans[s].status
               heard == [obj[s] EXCEPT !.ref = TRUE, !.next = ans[s].next,
                           !.reason = IF v = "failed" THEN "provider" ELSE @]
               new == IF Confirms(v) THEN heard ELSE [heard EXCEPT !.status = v]
    <2>1. heard \in Rows /\ new \in Rows
      BY DEF SessionOK, Rows, Answers, Statuses, Reasons, Verdicts
    <2>2. row' = Flushed(obj[s], new) /\ row' \in Rows
      BY <1>4, <2>1, FlushedType DEF apply_provider_result, SessionOK, StateOK
    <2>3. SessionOK'
      <3>1. CASE Confirms(v)
        BY <1>4, <3>1, <2>1 DEF apply_provider_result, SessionOK, Load, Goto, Steps
      <3>2. CASE Load(s, row') /\ Goto(s, "timeout") /\ UNCHANGED <<job, ans, seen>>
        BY <3>2, <2>2 DEF SessionOK, Load, Goto, Steps
      <3>3. CASE DoneRefreshed(s, row')
        BY <3>3, <2>2, DoneRefreshedType
      <3> QED  BY <1>4, <3>1, <3>2, <3>3 DEF apply_provider_result
    <2> QED  BY <1>4, <2>2, <2>3 DEF apply_provider_result, StateOK, provider, sms
  <1>5. CASE apply_late_result(s)
    <2> DEFINE v == ans[s].status
               new == IF Confirms(v) THEN [obj[s] EXCEPT !.ref = TRUE]
                      ELSE [obj[s] EXCEPT !.reason = IF v = "failed" THEN "provider" ELSE @]
    <2>1. new \in Rows
      BY DEF SessionOK, Rows, Reasons
    <2>2. row' = Flushed(obj[s], new) /\ row' \in Rows
      BY <1>5, <2>1, FlushedType DEF apply_late_result, SessionOK, StateOK
    <2>3. SessionOK'
      <3>1. CASE Confirms(v)
        BY <1>5, <3>1, <2>1 DEF apply_late_result, SessionOK, Load, Goto, Steps
      <3>2. CASE ~Confirms(v)
        BY <1>5, <3>2, EndType DEF apply_late_result
      <3> QED  BY <3>1, <3>2
    <2> QED  BY <1>5, <2>2, <2>3 DEF apply_late_result, StateOK, provider, sms
  <1>6. CASE resolve_successful_payment(s)
    <2>1. CASE AlreadySold(obj[s]) \/ Contradicted(obj[s])
      BY <1>6, <2>1, DoneType DEF resolve_successful_payment, StateOK, provider, sms
    <2>2. CASE ~(AlreadySold(obj[s]) \/ Contradicted(obj[s]))
      <3>1. issued' = issued + 1 /\ issued' \in Nat
        BY <1>6, <2>2 DEF resolve_successful_payment, StateOK
      <3>2. Sold(obj[s], issued') \in Rows
        BY <3>1 DEF Sold, SessionOK, Rows, Statuses, Reasons, Actions
      <3>3. row' \in Rows
        BY <1>6, <2>2, <3>2, FlushedType DEF resolve_successful_payment, SessionOK, StateOK
      <3>4. CASE HasPhone
        BY <1>6, <2>2, <3>1, <3>3, <3>4
        DEF resolve_successful_payment, SessionOK, Load, Goto, Steps, StateOK, provider, sms
      <3>5. CASE ~HasPhone
        BY <1>6, <2>2, <3>1, <3>3, <3>5, DoneRefreshedType
        DEF resolve_successful_payment, StateOK, provider, sms
      <3> QED  BY <3>4, <3>5
    <2> QED  BY <2>1, <2>2
  <1>7. CASE enqueue_voucher_sms(s)
    <2>1. smsJob' \in {"none", "queued", "kept"}
      BY <1>7 DEF enqueue_voucher_sms, StateOK
    <2> QED  BY <1>7, <2>1, DoneType DEF enqueue_voucher_sms, StateOK, provider
  <1> QED  BY <1>1, <1>2, <1>3, <1>4, <1>5, <1>6, <1>7

LEMMA TypeJobs ==
  ASSUME TypeOK, NEW s \in Session,
         \/ process_paystack_event(s) \/ process_flutterwave_event(s)
         \/ apply_webhook_update(s) \/ fail_by_webhook(s)
         \/ run_payment_reconciliation(s) \/ reconcile_item(s)
         \/ reconcile_timeout(s) \/ recheck_timed_out(s) \/ Crash(s)
  PROVE  TypeOK'
  <1> USE DEF TypeOK
  <1>1. CASE process_paystack_event(s)
    <2>1. row' \in Rows
      BY <1>1 DEF process_paystack_event, StateOK, Rows
    <2>2. said \cup {"pending"} \subseteq Verdicts
      BY DEF StateOK, Verdicts
    <2>3. PICK v \in Verdicts : Answer(s, [status |-> v, next |-> "none"])
      BY <1>1, <2>2 DEF process_paystack_event
    <2>4. [status |-> v, next |-> "none"] \in Answers
      BY DEF Answers, Actions
    <2>5. SessionOK'
      BY <1>1, <2>1, <2>3, <2>4 DEF process_paystack_event, SessionOK, Answer, Load, Goto, Steps
    <2> QED  BY <1>1, <2>1, <2>5 DEF process_paystack_event, StateOK, provider, sms
  <1>2. CASE process_flutterwave_event(s)
    <2>1. row' \in Rows
      BY <1>2 DEF process_flutterwave_event, StateOK, Rows
    <2>2. CASE CanForce(row)
      BY <1>2, <2>1, <2>2, StartType
      DEF process_flutterwave_event, StateOK, provider, sms, Steps
    <2>3. CASE ~CanForce(row)
      BY <1>2, <2>1, <2>3
      DEF process_flutterwave_event, StateOK, SessionOK, provider, sms, session
    <2> QED  BY <2>2, <2>3
  <1>3. CASE apply_webhook_update(s)
    <2> DEFINE v == ans[s].status
               new == [obj[s] EXCEPT !.next = IF v = "pending" THEN @ ELSE "none"]
    <2>1. new \in Rows
      BY DEF SessionOK, Rows, Actions
    <2>2. row' \in Rows
      BY <1>3, <2>1, FlushedType DEF apply_webhook_update, SessionOK, StateOK
    <2>3. SessionOK'
      <3>1. CASE End(s)
        BY <3>1, EndType
      <3>2. CASE ~End(s)
        BY <1>3, <2>1, <3>2 DEF apply_webhook_update, SessionOK, Load, Goto, Steps
      <3> QED  BY <3>1, <3>2
    <2> QED  BY <1>3, <2>2, <2>3 DEF apply_webhook_update, StateOK, provider, sms
  <1>4. CASE fail_by_webhook(s)
    <2>1. [obj[s] EXCEPT !.status = "failed", !.reason = "provider", !.next = "none"] \in Rows
      BY DEF SessionOK, Rows, Statuses, Reasons, Actions
    <2>2. row' \in Rows
      BY <1>4, <2>1, FlushedType DEF fail_by_webhook, SessionOK, StateOK
    <2> QED  BY <1>4, <2>2, EndType DEF fail_by_webhook, StateOK, provider, sms
  <1>5. CASE run_payment_reconciliation(s)
    <2>1. SessionOK'
      BY <1>5 DEF run_payment_reconciliation, SessionOK, StateOK, Load, Goto, Steps, Jobs
    <2> QED  BY <1>5, <2>1 DEF run_payment_reconciliation, StateOK, provider, sms
  <1> TimedOut(obj[s]) \in Rows
    BY DEF TimedOut, SessionOK, Rows, Statuses, Reasons
  <1> Flushed(obj[s], TimedOut(obj[s])) \in Rows
    BY FlushedType DEF SessionOK, StateOK
  <1>6. CASE reconcile_item(s)
    <2>1. CASE Goto(s, "verify") /\ UNCHANGED <<row, job, obj, ans, seen>>
      BY <1>6, <2>1 DEF reconcile_item, SessionOK, StateOK, Goto, Steps, provider, sms
    <2>2. CASE DoneRefreshed(s, TimedOut(obj[s])) /\ row' = Flushed(obj[s], TimedOut(obj[s]))
      BY <1>6, <2>2, DoneRefreshedType DEF reconcile_item, StateOK, provider, sms
    <2>3. CASE Done(s) /\ UNCHANGED row
      BY <1>6, <2>3, DoneType DEF reconcile_item, StateOK, provider, sms
    <2> QED  BY <1>6, <2>1, <2>2, <2>3 DEF reconcile_item
  <1>7. CASE reconcile_timeout(s)
    BY <1>7, DoneRefreshedType DEF reconcile_timeout, StateOK, provider, sms
  <1>8. CASE recheck_timed_out(s)
    <2>1. CASE End(s)
      BY <1>8, <2>1, EndType DEF recheck_timed_out, StateOK, provider, sms
    <2>2. CASE ~End(s)
      BY <1>8, <2>2
      DEF recheck_timed_out, SessionOK, StateOK, Load, Goto, Steps, Jobs, provider, sms
    <2> QED  BY <2>1, <2>2
  <1>9. CASE Crash(s)
    BY <1>9, EndType DEF Crash, StateOK, provider, sms
  <1> QED  BY <1>1, <1>2, <1>3, <1>4, <1>5, <1>6, <1>7, <1>8, <1>9

LEMMA TypeOther ==
  ASSUME TypeOK,
         \/ ProviderMoves \/ send_voucher_sms \/ sms_result_expires
         \/ refund_payment \/ TimePasses \/ CheckAges \/ UNCHANGED vars
  PROVE  TypeOK'
  <1> USE DEF TypeOK
  <1>1. CASE ProviderMoves
    BY <1>1, SettleType DEF ProviderMoves, StateOK, SessionOK, sms, session
  <1>2. CASE send_voucher_sms \/ sms_result_expires
    <2>1. texts' \in Nat
      BY <1>2 DEF send_voucher_sms, sms_result_expires, StateOK
    <2> QED  BY <1>2, <2>1
             DEF send_voucher_sms, sms_result_expires, StateOK, SessionOK, provider, session
  <1>3. CASE refund_payment
    BY <1>3, ConstantsAssumption
    DEF refund_payment, StateOK, SessionOK, Rows, Statuses, provider, sms, session
  <1>4. CASE TimePasses \/ CheckAges
    <2>1. recent' \in BOOLEAN
      BY <1>4, Zenon DEF TimePasses, CheckAges, StateOK
    <2>2. age' \in 0..3
      BY <1>4 DEF TimePasses, CheckAges, StateOK
    <2>3. UNCHANGED <<row, charge, said, issued, smsJob, texts, refunds, session>>
      BY <1>4 DEF TimePasses, CheckAges, provider, sms
    <2> QED  BY <2>1, <2>2, <2>3, Zenon DEF StateOK, SessionOK, session
  <1>5. CASE UNCHANGED vars
    BY <1>5 DEF vars, StateOK, SessionOK, provider, sms, session
  <1> QED  BY <1>1, <1>2, <1>3, <1>4, <1>5

LEMMA TypeStep == TypeOK /\ [Next]_vars => TypeOK'
  BY TypePortal, TypeRefresh, TypeJobs, TypeOther DEF Next, SessionStep

\* Every reachable state is well typed.
THEOREM TypeCorrect == Spec => []TypeOK
  BY TypeInit, TypeStep, PTL DEF Spec
=============================================================================
