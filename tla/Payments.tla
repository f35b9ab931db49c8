------------------------------ MODULE Payments ------------------------------
(***************************************************************************)
(* The life of one voucher purchase: a row of payment_transactions, the    *)
(* charge it stands for at the payment provider, and the sessions that     *)
(* settle it (portal requests, operator requests, webhook jobs and         *)
(* reconciliation runs).  Rows share nothing, so one row is modelled; a    *)
(* reconciliation batch is one session for each of its rows.               *)
(*                                                                         *)
(* A session is an SQLAlchemy AsyncSession.  It loads the row once into    *)
(* obj[s]; the factory sets expire_on_commit=False and no query uses       *)
(* populate_existing, so a later SELECT, FOR UPDATE included, does not     *)
(* overwrite what is loaded.  A flush writes only the attributes that      *)
(* differ from the loaded ones.  A step is what happens between two        *)
(* awaits of the provider or two commits.                                  *)
(***************************************************************************)
EXTENDS Naturals, FiniteSets

CONSTANTS Session,     \* the concurrent database sessions
          HasPhone,    \* the buyer gave a phone number to text the voucher to
          MaxRefunds   \* bound: the number of refunds operators record

ASSUME ConstantsAssumption == HasPhone \in BOOLEAN /\ MaxRefunds \in Nat

VARIABLES row,      \* the committed row
          charge,   \* the charge at the provider
          said,     \* the verdicts the provider has sent webhooks about
          age,      \* time since initiated_at: 15 min, 2 h and 48 h are 1, 2, 3
          recent,   \* last_status_check_at is less than 30 minutes ago
          issued,   \* vouchers issued for this payment, numbered 1..issued
          smsJob,   \* the arq job voucher_sms:<payment id>
          texts,    \* voucher texts sent to the buyer
          refunds,  \* refunds recorded
          pc, job, obj, ans, seen  \* per session: its next step, the work it
                    \* does, its row object, the provider's answer, and the
                    \* age when a reconciliation run took its "now"

provider == <<charge, said>>
sms      == <<smsJob, texts>>
session  == <<pc, job, obj, ans, seen>>
vars     == <<row, provider, age, recent, issued, sms, refunds, session>>

Statuses == {"absent", "pending", "success", "failed", "refunded"}
Reasons  == {"none", "timeout", "provider"}
Actions  == {"none", "wait", "input"}   \* next_action; input: any enter_*
Verdicts == {"pending", "success", "failed"}
Rows     == [status : Statuses, reason : Reasons, next : Actions,
             ref : BOOLEAN, voucher : Nat]
Answers  == [status : Verdicts, next : Actions]
Steps    == {"idle", "initiate", "rejected", "submit", "verify", "apply",
             "late_result", "resolve", "enqueue", "webhook", "webhook_failed",
             "item", "timeout", "recheck"}
Jobs     == {"request", "batch", "late"}

NoRow == [status |-> "absent", reason |-> "none", next |-> "none",
          ref |-> FALSE, voucher |-> 0]
NoAnswer == [status |-> "pending", next |-> "none"]

StateOK ==
  /\ row \in Rows
  /\ charge \in {"none", "open", "failed", "paid", "reversed"}
  /\ said \subseteq {"success", "failed"}
  /\ age \in 0..3
  /\ recent \in BOOLEAN
  /\ issued \in Nat
  /\ smsJob \in {"none", "queued", "kept"}
  /\ texts \in Nat
  /\ refunds \in 0..MaxRefunds

SessionOK ==
  /\ pc \in [Session -> Steps]
  /\ job \in [Session -> Jobs]
  /\ obj \in [Session -> Rows]
  /\ ans \in [Session -> Answers]
  /\ seen \in [Session -> 0..3]

TypeOK == StateOK /\ SessionOK

Init ==
  /\ row = NoRow
  /\ charge = "none"
  /\ said = {}
  /\ age = 0
  /\ recent = FALSE
  /\ issued = 0
  /\ smsJob = "none"
  /\ texts = 0
  /\ refunds = 0
  /\ pc = [s \in Session |-> "idle"]
  /\ job = [s \in Session |-> "request"]
  /\ obj = [s \in Session |-> NoRow]
  /\ ans = [s \in Session |-> NoAnswer]
  /\ seen = [s \in Session |-> 0]

-----------------------------------------------------------------------------
(* The ORM and the control flow of a session.                              *)

\* A flush of object `new`, loaded as `old`: changed attributes only.
Put(old, new, current) == IF new = old THEN current ELSE new
Flushed(old, new) ==
  [status  |-> Put(old.status, new.status, row.status),
   reason  |-> Put(old.reason, new.reason, row.reason),
   next    |-> Put(old.next, new.next, row.next),
   ref     |-> Put(old.ref, new.ref, row.ref),
   voucher |-> Put(old.voucher, new.voucher, row.voucher)]

Goto(s, step) == pc' = [pc EXCEPT ![s] = step]
Answer(s, a)  == ans' = [ans EXCEPT ![s] = a]
Load(s, r)    == obj' = [obj EXCEPT ![s] = r]

\* A session that ends forgets everything.
End(s) ==
  /\ Goto(s, "idle")
  /\ job' = [job EXCEPT ![s] = "request"]
  /\ obj' = [obj EXCEPT ![s] = NoRow]
  /\ ans' = [ans EXCEPT ![s] = NoAnswer]
  /\ seen' = [seen EXCEPT ![s] = 0]

\* The end of a handler: a reconciliation run goes on to the re-checks with
\* its objects still loaded, any other session closes.
Done(s) ==
  IF job[s] = "batch"
    THEN /\ Goto(s, "recheck")
         /\ Answer(s, NoAnswer)
         /\ UNCHANGED <<job, obj, seen>>
    ELSE End(s)

\* As Done, after a db.refresh that loaded r.
DoneRefreshed(s, r) ==
  IF job[s] = "batch"
    THEN /\ Goto(s, "recheck")
         /\ Load(s, r)
         /\ Answer(s, NoAnswer)
         /\ UNCHANGED <<job, seen>>
    ELSE End(s)

Start(s, step, r) ==
  /\ pc[s] = "idle"
  /\ Goto(s, step)
  /\ Load(s, r)
  /\ UNCHANGED <<job, ans, seen>>

-----------------------------------------------------------------------------
(* The provider: external.  A failed charge may still be paid (Paystack    *)
(* reports "abandoned" as failed while the customer can complete it).      *)

Paid == charge \in {"paid", "reversed"}

\* What verify and submit_* say of a charge; an open one may ask for input.
VerdictOf(c) ==
  CASE c = "paid" -> {[status |-> "success", next |-> "none"]}
    [] c = "open" -> {[status |-> "pending", next |-> n] : n \in {"wait", "input"}}
    [] c = "none" -> {}
    [] OTHER      -> {[status |-> "failed", next |-> "none"]}

Told(c) == CASE c = "paid" -> {"success"}
             [] c \in {"failed", "reversed"} -> {"failed"}
             [] OTHER -> {}

Settle(c) == charge' = c /\ said' = said \cup Told(c)

ProviderMoves ==
  /\ \/ charge = "open" /\ \E c \in {"paid", "failed"} : Settle(c)
     \/ charge = "failed" /\ Settle("paid")
     \/ charge = "paid" /\ Settle("reversed")
  /\ UNCHANGED <<row, age, recent, issued, sms, refunds, session>>

-----------------------------------------------------------------------------
(* The portal: start a payment, answer the provider's question, poll.      *)

create_pending_transaction(s) ==
  /\ row.status = "absent"
  /\ row' = [NoRow EXCEPT !.status = "pending", !.next = "wait"]
  /\ Start(s, "initiate", row')
  /\ UNCHANGED <<provider, age, recent, issued, sms, refunds>>

\* provider.initiate: an answer about the charge it opened, a refusal as a
\* result (no charge), a ValueError (an HTTP error, so a charge may exist), or
\* a transport error, which no handler resolves.
initiate_payment(s) ==
  /\ pc[s] = "initiate"
  /\ \/ \E c \in {"open", "paid", "failed"} :
          /\ Settle(c)
          /\ \E a \in VerdictOf(c) : Answer(s, a)
          /\ Goto(s, "apply")
          /\ UNCHANGED <<job, obj, seen>>
     \/ /\ Answer(s, [status |-> "failed", next |-> "none"])
        /\ Goto(s, "apply")
        /\ UNCHANGED <<charge, said, job, obj, seen>>
     \/ /\ charge' \in {"none", "open"}
        /\ UNCHANGED said
        /\ \/ Goto(s, "rejected") /\ UNCHANGED <<job, obj, ans, seen>>
           \/ End(s)
  /\ UNCHANGED <<row, age, recent, issued, sms, refunds>>

resolve_failed_initiation(s) ==
  /\ pc[s] = "rejected"
  /\ row' = IF obj[s].status = "pending"
              THEN Flushed(obj[s], [obj[s] EXCEPT !.status = "failed",
                                    !.reason = "provider", !.next = "none"])
              ELSE row
  /\ End(s)
  /\ UNCHANGED <<provider, age, recent, issued, sms, refunds>>

\* continue_payment up to provider.submit_*: returns on a settled payment,
\* refuses one that waits for no input.
continue_payment(s) ==
  /\ row.status \notin {"absent", "success", "failed"}
  /\ row.next = "input"
  /\ Start(s, "submit", row)
  /\ UNCHANGED <<row, provider, age, recent, issued, sms, refunds>>

submit_input(s) ==
  /\ pc[s] = "submit"
  /\ \E c \in IF charge = "open" THEN {"open", "paid", "failed"} ELSE {charge} :
       /\ Settle(c)
       /\ \/ \E a \in VerdictOf(c) : Answer(s, a) /\ Goto(s, "apply")
                                     /\ UNCHANGED <<job, obj, seen>>
          \/ End(s)
  /\ UNCHANGED <<row, age, recent, issued, sms, refunds>>

portal_payment_status(s) ==
  /\ row.status = "pending"
  /\ row.ref
  /\ row.next # "input"
  /\ Start(s, "verify", row)
  /\ UNCHANGED <<row, provider, age, recent, issued, sms, refunds>>

-----------------------------------------------------------------------------
(* refresh_transaction_status, forced, and its callers.                    *)

CanForce(r) == r.status \notin {"absent", "success"}
                 /\ (r.status = "failed" => r.reason = "timeout")

verify_payment(s) ==
  /\ row.ref
  /\ CanForce(row)
  /\ Start(s, "verify", row)
  /\ UNCHANGED <<row, provider, age, recent, issued, sms, refunds>>

\* An answer about a payment our timeout failed goes to apply_late_result.
AfterVerifyAlwaysApply(s) == "apply"   \* mutant: the late branch forgotten
AfterVerify(s) ==
  IF job[s] = "late" \/ (job[s] = "request" /\ obj[s].status = "failed")
    THEN "late_result" ELSE "apply"

\* provider.verify: an answer, nothing new (unreachable: only the check is
\* stamped) or an exception.  Without a reference it can only fail.
verify_answers(s) ==
  /\ pc[s] = "verify"
  /\ obj[s].ref
  /\ \E a \in VerdictOf(charge) : Answer(s, a)
  /\ Goto(s, AfterVerify(s))
  /\ UNCHANGED <<row, provider, age, recent, issued, sms, refunds, job, obj, seen>>

verify_unreachable(s) ==
  /\ pc[s] = "verify"
  /\ Done(s)
  /\ recent' \in {recent, TRUE}
  /\ UNCHANGED <<row, provider, age, issued, sms, refunds>>

ConfirmsUnlessFailed(v) == v # "failed"   \* mutant: no verdict taken as yes
Confirms(v) == v = "success"

TwoHoursOldNever(s) == seen[s] > 3   \* mutant: the age limit out of reach
TwoHoursOld(s) == seen[s] >= 2

\* apply_provider_result up to its first commit.
apply_provider_result(s) ==
  /\ pc[s] = "apply"
  /\ LET v == ans[s].status
         heard == [obj[s] EXCEPT !.ref = TRUE, !.next = ans[s].next,
                     !.reason = IF v = "failed" THEN "provider" ELSE @]
         new == IF Confirms(v) THEN heard ELSE [heard EXCEPT !.status = v]
         gaveUp == v = "pending" /\ job[s] = "batch" /\ TwoHoursOld(s)
     IN  /\ row' = Flushed(obj[s], new)
         /\ \/ /\ Confirms(v)
               /\ Load(s, new)
               /\ Goto(s, "resolve")
               /\ UNCHANGED <<job, ans, seen>>
            \/ /\ ~Confirms(v) /\ gaveUp
               /\ Load(s, row')
               /\ Goto(s, "timeout")
               /\ UNCHANGED <<job, ans, seen>>
            \/ /\ ~Confirms(v) /\ ~gaveUp
               /\ DoneRefreshed(s, row')
  /\ recent' = TRUE
  /\ UNCHANGED <<provider, age, issued, sms, refunds>>

apply_late_result(s) ==
  /\ pc[s] = "late_result"
  /\ LET v == ans[s].status
         new == IF Confirms(v) THEN [obj[s] EXCEPT !.ref = TRUE]
                ELSE [obj[s] EXCEPT !.reason = IF v = "failed" THEN "provider" ELSE @]
     IN  /\ row' = Flushed(obj[s], new)
         /\ IF Confirms(v)
              THEN Load(s, new) /\ Goto(s, "resolve") /\ UNCHANGED <<job, ans, seen>>
              ELSE End(s)
  /\ recent' = TRUE
  /\ UNCHANGED <<provider, age, issued, sms, refunds>>

-----------------------------------------------------------------------------
(* resolve_successful_payment.  The row lock makes it one step; the status *)
(* it tests is the loaded object's.  Only the session that issues enqueues. *)

AlreadySoldNever(r) == FALSE   \* mutant: the status not tested under the lock
AlreadySold(r) == r.status = "success"

ContradictedNever(r) == FALSE   \* mutant: a provider's failure not tested
Contradicted(r) == r.status = "failed" /\ r.reason # "timeout"

SoldUnnamed(r, voucher) == [r EXCEPT !.status = "success"]   \* mutant: no voucher_id
Sold(r, voucher) == [r EXCEPT !.status = "success", !.reason = "none",
                              !.next = "none", !.voucher = voucher]

resolve_successful_payment(s) ==
  /\ pc[s] = "resolve"
  /\ IF AlreadySold(obj[s]) \/ Contradicted(obj[s])
       THEN Done(s) /\ UNCHANGED <<row, issued>>
       ELSE /\ issued' = issued + 1
            /\ row' = Flushed(obj[s], Sold(obj[s], issued'))
            /\ IF HasPhone
                 THEN Load(s, row') /\ Goto(s, "enqueue") /\ UNCHANGED <<job, ans, seen>>
                 ELSE DoneRefreshed(s, row')
  /\ UNCHANGED <<provider, age, recent, sms, refunds>>

\* arq refuses a job id that is queued, running or whose result it keeps; a
\* failed enqueue is logged.
enqueue_voucher_sms(s) ==
  /\ pc[s] = "enqueue"
  /\ smsJob' \in IF smsJob = "none" THEN {"none", "queued"} ELSE {smsJob}
  /\ Done(s)
  /\ UNCHANGED <<row, provider, age, recent, issued, texts, refunds>>

\* One try (max_tries=1): sent, or skipped, refused or lost.
send_voucher_sms ==
  /\ smsJob = "queued"
  /\ smsJob' = "kept"
  /\ texts' \in IF row.status = "success" /\ row.voucher # 0
                  THEN {texts, texts + 1} ELSE {texts}
  /\ UNCHANGED <<row, provider, age, recent, issued, refunds, session>>

sms_result_expires ==
  /\ smsJob = "kept"
  /\ smsJob' = "none"
  /\ UNCHANGED <<row, provider, age, recent, issued, texts, refunds, session>>

-----------------------------------------------------------------------------
(* Webhook jobs.  A webhook may be lost, delayed, repeated and reordered:  *)
(* any verdict the provider has spoken may arrive at any time.             *)

\* The job loads the payment and commits the payload and the reference.
process_paystack_event(s) ==
  /\ row.status # "absent"
  /\ charge # "none"
  /\ pc[s] = "idle"
  /\ \E v \in said \cup {"pending"} : Answer(s, [status |-> v, next |-> "none"])
  /\ row' = [row EXCEPT !.ref = TRUE]
  /\ Load(s, row')
  /\ Goto(s, "webhook")
  /\ UNCHANGED <<provider, age, recent, issued, sms, refunds, job, seen>>

\* A Flutterwave webhook only triggers a forced refresh.
process_flutterwave_event(s) ==
  /\ row.status # "absent"
  /\ charge # "none"
  /\ row' = [row EXCEPT !.ref = TRUE]
  /\ IF CanForce(row)
       THEN Start(s, "verify", row')
       ELSE pc[s] = "idle" /\ UNCHANGED session
  /\ UNCHANGED <<provider, age, recent, issued, sms, refunds>>

apply_webhook_update(s) ==
  /\ pc[s] = "webhook"
  /\ LET v == ans[s].status
         new == [obj[s] EXCEPT !.next = IF v = "pending" THEN @ ELSE "none"]
     IN  /\ row' = Flushed(obj[s], new)
         /\ \/ /\ Confirms(v) \/ (v = "failed" /\ obj[s].status = "pending")
               /\ Goto(s, IF Confirms(v) THEN "resolve" ELSE "webhook_failed")
               /\ Load(s, new)
               /\ UNCHANGED <<job, ans, seen>>
            \/ /\ ~(Confirms(v) \/ (v = "failed" /\ obj[s].status = "pending"))
               /\ End(s)
  /\ recent' = TRUE
  /\ UNCHANGED <<provider, age, issued, sms, refunds>>

fail_by_webhook(s) ==
  /\ pc[s] = "webhook_failed"
  /\ row' = Flushed(obj[s], [obj[s] EXCEPT !.status = "failed",
                               !.reason = "provider", !.next = "none"])
  /\ End(s)
  /\ UNCHANGED <<provider, age, recent, issued, sms, refunds>>

-----------------------------------------------------------------------------
(* Reconciliation.  The cron, or an operator's manual run, selects the     *)
(* pending payments older than 15 minutes, takes them one by one, then     *)
(* asks again about those timed out in the last 48 hours.                  *)

run_payment_reconciliation(s) ==
  /\ pc[s] = "idle"
  /\ row.status # "absent"
  /\ job' = [job EXCEPT ![s] = "batch"]
  /\ seen' = [seen EXCEPT ![s] = age]
  /\ IF row.status = "pending" /\ age >= 1
       THEN Load(s, row) /\ Goto(s, "item")
       ELSE Goto(s, "recheck") /\ UNCHANGED obj
  /\ UNCHANGED <<row, provider, age, recent, issued, sms, refunds, ans>>

TimedOutInStatus(r) == [r EXCEPT !.status = "timeout"]   \* mutant: wrong column
TimedOut(r) == [r EXCEPT !.status = "failed", !.reason = "timeout"]

\* One row of the batch.  The timeout of a row without a reference is flushed
\* unconditionally; its commit comes with a later one of the run.
reconcile_item(s) ==
  /\ pc[s] = "item"
  /\ \/ /\ obj[s].ref
        /\ Goto(s, "verify")
        /\ UNCHANGED <<row, job, obj, ans, seen>>
     \/ /\ ~obj[s].ref
        /\ TwoHoursOld(s)
        /\ row' = Flushed(obj[s], TimedOut(obj[s]))
        /\ DoneRefreshed(s, TimedOut(obj[s]))
     \/ /\ ~obj[s].ref
        /\ ~TwoHoursOld(s)
        /\ Done(s)
        /\ UNCHANGED row
  /\ UNCHANGED <<provider, age, recent, issued, sms, refunds>>

\* Still pending at the provider after two hours.
reconcile_timeout(s) ==
  /\ pc[s] = "timeout"
  /\ row' = Flushed(obj[s], TimedOut(obj[s]))
  /\ DoneRefreshed(s, TimedOut(obj[s]))
  /\ UNCHANGED <<provider, age, recent, issued, sms, refunds>>

\* _recheck_timed_out: selected by the committed row, read from the session.
recheck_timed_out(s) ==
  /\ pc[s] = "recheck"
  /\ IF /\ row.status = "failed" /\ row.reason = "timeout" /\ row.ref
        /\ seen[s] < 3 /\ ~recent
       THEN /\ job' = [job EXCEPT ![s] = "late"]
            /\ Load(s, IF obj[s] = NoRow THEN row ELSE obj[s])
            /\ Goto(s, "verify")
            /\ UNCHANGED <<ans, seen>>
       ELSE End(s)
  /\ UNCHANGED <<row, provider, age, recent, issued, sms, refunds>>

-----------------------------------------------------------------------------
(* The operator's refund, time, and lost sessions.                         *)

refund_payment ==
  /\ row.status # "absent"
  /\ refunds < MaxRefunds
  /\ refunds' = refunds + 1
  /\ row' = [row EXCEPT !.status = "refunded"]
  /\ UNCHANGED <<provider, age, recent, issued, sms, session>>

TimePasses ==
  /\ row.status # "absent"
  /\ age < 3
  /\ age' = age + 1
  /\ UNCHANGED <<row, provider, recent, issued, sms, refunds, session>>

CheckAges ==
  /\ recent
  /\ recent' = FALSE
  /\ UNCHANGED <<row, provider, age, issued, sms, refunds, session>>

\* A worker dies or a request is cancelled: nothing uncommitted survives.
Crash(s) ==
  /\ pc[s] # "idle"
  /\ End(s)
  /\ UNCHANGED <<row, provider, age, recent, issued, sms, refunds>>

SessionStep(s) ==
  \/ create_pending_transaction(s) \/ initiate_payment(s)
  \/ resolve_failed_initiation(s)  \/ continue_payment(s)
  \/ submit_input(s)               \/ portal_payment_status(s)
  \/ verify_payment(s)             \/ verify_answers(s)
  \/ verify_unreachable(s)         \/ apply_provider_result(s)
  \/ apply_late_result(s)          \/ resolve_successful_payment(s)
  \/ enqueue_voucher_sms(s)        \/ process_paystack_event(s)
  \/ process_flutterwave_event(s)  \/ apply_webhook_update(s)
  \/ fail_by_webhook(s)            \/ run_payment_reconciliation(s)
  \/ reconcile_item(s)             \/ reconcile_timeout(s)
  \/ recheck_timed_out(s)          \/ Crash(s)

Next ==
  \/ \E s \in Session : SessionStep(s)
  \/ ProviderMoves \/ send_voucher_sms \/ sms_result_expires
  \/ refund_payment \/ TimePasses \/ CheckAges

Spec == Init /\ [][Next]_vars

\* Time passes, a session goes on or dies, the cron starts a run again and
\* again, and no step of a run is lost for ever: a provider that is asked
\* again and again answers at last.
Fairness ==
  /\ WF_vars(TimePasses)
  /\ \A s \in Session :
       /\ WF_vars(pc[s] # "idle" /\ SessionStep(s))
       /\ SF_vars(run_payment_reconciliation(s))
       /\ SF_vars(job[s] = "batch" /\ reconcile_item(s))
       /\ SF_vars(job[s] = "batch" /\ verify_answers(s))
       /\ SF_vars(job[s] = "batch" /\ apply_provider_result(s))
       /\ SF_vars(job[s] = "batch" /\ reconcile_timeout(s))
       /\ SF_vars(job[s] = "batch" /\ resolve_successful_payment(s))

FairSpec == Spec /\ Fairness

-----------------------------------------------------------------------------
(* Properties.                                                             *)

\* A voucher is only ever issued for a charge the provider really took,
\* whatever the order of polls, webhooks, re-checks and timeouts.
VoucherOnlyWhenPaid == issued > 0 => Paid

\* A payment that says success names a voucher that was issued, even when
\* several sessions flush parts of the row over each other.
SuccessHasVoucher == row.status = "success" => row.voucher \in 1..issued

\* A failed or paid payment is never shown as live again, as apply_late_result
\* promises, as long as no operator has recorded a refund.
SettledNotRevived ==
  [][row.status \in {"failed", "success"} /\ refunds = 0
       => row'.status # "pending"]_vars

\* The row lock of resolve_successful_payment is there so that a portal poll
\* racing a webhook sells one voucher.
OneVoucher == refunds = 0 => issued <= 1

\* The buyer is texted at most once for a payment that was sold once.
TextedOnce == refunds = 0 => texts <= 1

\* No payment stays pending for ever: the provider's verdict or the two-hour
\* timeout ends it.
PendingEnds == row.status = "pending" ~> row.status # "pending"

\* What the rows look like to PaymentPromise.
Stage == CASE refunds > 0 -> "void"
           [] refunds = 0 /\ row.status = "absent"  -> "none"
           [] refunds = 0 /\ row.status = "pending" -> "open"
           [] refunds = 0 /\ row.status = "success" -> "sold"
           [] refunds = 0 /\ row.status = "failed" ->
                IF row.reason = "timeout" THEN "timed_out" ELSE "failed"

Promise == INSTANCE PaymentPromise
             WITH stage <- Stage, vouchers <- IF refunds = 0 THEN issued ELSE 0

\* When no two sessions work on a payment at the same time, it is opened once,
\* sold at most once, and what the provider failed stays failed.
KeepsPromise == Promise!Spec
=============================================================================
