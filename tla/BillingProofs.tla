--------------------------- MODULE BillingProofs ---------------------------
(***************************************************************************)
(* Proofs about Billing, for any invoices, any number of handlers, of      *)
(* checkouts, payments and status changes, and whichever handlers overlap: *)
(* each theorem names the handlers that have to run alone for it, because  *)
(* they write what they read without a lock, and the others may interleave *)
(* as they like.                                                           *)
(***************************************************************************)
EXTENDS Billing, SequenceTheorems, FiniteSetTheorems, TLAPS

\* A handler that never runs beside another.
Alone(handler) == handler \notin Overlap

Made(i, n, c) == n \in DOMAIN checkouts[i] /\ checkouts[i][n] = c

\* A handler that has loaded an invoice holds one, and the checkout it names
\* was made.
HeldInv ==
  \A p \in Proc :
    /\ doing[p] \in {"webhook", "waive", "checkout", "opened"} => Bill(p) \in Invoice
    /\ doing[p] \in {"webhook", "opened"} => work[p].n \in DOMAIN checkouts[Bill(p)]

-----------------------------------------------------------------------------
(* Types                                                                   *)

LEMMA NoWorkType == NoWork \in Works
BY DEF NoWork, Works, Holder, Operators, NoBill, Invoices, NoReference, References

LEMMA GotoType ==
  ASSUME BillingTypeOK, NEW p \in Proc, NEW step \in BillingSteps, NEW w \in Works, Goes(p, step, w)
  PROVE  doing' \in [Proc -> BillingSteps] /\ work' \in [Proc -> Works]
BY DEF BillingTypeOK, Goes

LEMMA EndType ==
  ASSUME BillingTypeOK, NEW p \in Proc, Finish(p)
  PROVE  doing' \in [Proc -> BillingSteps] /\ work' \in [Proc -> Works]
BY GotoType, NoWorkType DEF Finish, BillingSteps

LEMMA InvoiceType ==
  ASSUME BillingTypeOK, NEW i \in Invoice,
         NEW st \in {"none", "issued", "overdue", "paid", "waived"}, NEW r \in References
  PROVE  /\ [inv EXCEPT ![i].status = st, ![i].ref = r] \in [Invoice -> Invoices]
         /\ [inv EXCEPT ![i].status = st] \in [Invoice -> Invoices]
         /\ [inv EXCEPT ![i].url = TRUE, ![i].ref = r] \in [Invoice -> Invoices]
<1>1. [inv[i] EXCEPT !.status = st, !.ref = r] \in Invoices
  BY DEF BillingTypeOK, Invoices
<1>2. [inv[i] EXCEPT !.status = st] \in Invoices
  BY DEF BillingTypeOK, Invoices
<1>3. [inv[i] EXCEPT !.url = TRUE, !.ref = r] \in Invoices
  BY DEF BillingTypeOK, Invoices
<1>4. [inv EXCEPT ![i].status = st, ![i].ref = r] \in [Invoice -> Invoices]
  BY <1>1 DEF BillingTypeOK
<1>5. [inv EXCEPT ![i].status = st] \in [Invoice -> Invoices]
  BY <1>2 DEF BillingTypeOK
<1>6. [inv EXCEPT ![i].url = TRUE, ![i].ref = r] \in [Invoice -> Invoices]
  BY <1>3 DEF BillingTypeOK
<1>7. QED
  BY <1>4, <1>5, <1>6

LEMMA SettleType ==
  ASSUME BillingTypeOK, NEW i \in Invoice, NEW r \in References, settle_invoice(i, r)
  PROVE  inv' \in [Invoice -> Invoices] /\ op' \in Operators
<1>1. inv' \in [Invoice -> Invoices]
  BY InvoiceType DEF settle_invoice
<1>2. op' \in Operators
  BY DEF BillingTypeOK, settle_invoice, Settled, Normalised, Holder, Operators
<1>3. QED
  BY <1>1, <1>2

\* A sequence with one element changed, or one more.
LEMMA ChangedType ==
  ASSUME NEW S, NEW f \in [Invoice -> Seq(S)], NEW i \in Invoice, NEW e \in S
  PROVE  /\ [f EXCEPT ![i] = Append(@, e)] \in [Invoice -> Seq(S)]
         /\ \A n \in DOMAIN f[i] : [f EXCEPT ![i][n] = e] \in [Invoice -> Seq(S)]
<1>1. Append(f[i], e) \in Seq(S)
  OBVIOUS
<1>2. ASSUME NEW n \in DOMAIN f[i]
      PROVE  [f EXCEPT ![i][n] = e] \in [Invoice -> Seq(S)]
  <2>1. f[i] \in Seq(S) /\ n \in 1 .. Len(f[i])
    BY <1>2
  <2>2. [f[i] EXCEPT ![n] = e] \in Seq(S)
    BY <2>1, ExceptSeq
  <2>3. QED
    BY <2>2
<1>3. QED
  BY <1>1, <1>2

LEMMA PaymentsType ==
  ASSUME BillingTypeOK, HeldInv, NEW p \in Proc,
         \/ platform_billing_webhook(p) \/ webhook_settles(p)
         \/ record_payment(p) \/ reverse_payment(p)
  PROVE  BillingTypeOK'
<1>1. CASE platform_billing_webhook(p)
  <2>0. PICK i \in Invoice : \E n \in DOMAIN checkouts[i] : Goes(p, "webhook", [NoWork EXCEPT !.inv = i, !.n = n])
    BY <1>1 DEF platform_billing_webhook
  <2>1. PICK n \in DOMAIN checkouts[i] : Goes(p, "webhook", [NoWork EXCEPT !.inv = i, !.n = n])
    BY <2>0
  <2>2. n \in Nat
    BY <2>1 DEF BillingTypeOK
  <2>3. [NoWork EXCEPT !.inv = i, !.n = n] \in Works
    BY <2>2, NoWorkType DEF Works
  <2>4. doing' \in [Proc -> BillingSteps] /\ work' \in [Proc -> Works]
    BY <2>1, <2>3, GotoType DEF BillingSteps
  <2>5. QED
    BY <1>1, <2>4 DEF BillingTypeOK, platform_billing_webhook
<1>2. CASE webhook_settles(p)
  <2>1. doing' \in [Proc -> BillingSteps] /\ work' \in [Proc -> Works]
    BY <1>2, EndType DEF webhook_settles
  <2>2. inv' \in [Invoice -> Invoices] /\ op' \in Operators
    <3>1. Bill(p) \in Invoice
      BY <1>2 DEF HeldInv, webhook_settles
    <3>2. [kind |-> "checkout", n |-> work[p].n] \in References
      BY DEF BillingTypeOK, Works, References
    <3>3. QED
      BY <1>2, <3>1, <3>2, SettleType DEF BillingTypeOK, webhook_settles
  <2>3. QED
    BY <1>2, <2>1, <2>2 DEF BillingTypeOK, webhook_settles
<1>3. CASE record_payment(p)
  <2>1. PICK i \in Invoice :
          /\ ledger' = [ledger EXCEPT ![i] = Append(@, "paid")]
          /\ settle_invoice(i, [kind |-> "manual", n |-> Len(ledger'[i])])
    BY <1>3 DEF record_payment
  <2>2. ledger' \in [Invoice -> Seq({"paid", "reversed"})]
    BY <2>1, ChangedType DEF BillingTypeOK
  <2>3. [kind |-> "manual", n |-> Len(ledger'[i])] \in References
    BY <2>2 DEF References
  <2>4. QED
    BY <1>3, <2>1, <2>2, <2>3, SettleType DEF BillingTypeOK, record_payment
<1>4. CASE reverse_payment(p)
  <2>1. PICK i \in Invoice :
          /\ \E n \in DOMAIN ledger[i] : ledger' = [ledger EXCEPT ![i][n] = "reversed"]
          /\ inv' = [inv EXCEPT ![i].status = "issued", ![i].ref = NoReference]
    BY <1>4 DEF reverse_payment
  <2>2. ledger' \in [Invoice -> Seq({"paid", "reversed"})]
    BY <2>1, ChangedType DEF BillingTypeOK
  <2>3. inv' \in [Invoice -> Invoices]
    BY <2>1, InvoiceType DEF NoReference, References
  <2>4. QED
    BY <1>4, <2>2, <2>3 DEF BillingTypeOK, reverse_payment
<1>5. QED
  BY <1>1, <1>2, <1>3, <1>4

LEMMA OwnersType ==
  ASSUME BillingTypeOK, NEW p \in Proc,
         change_status(p) \/ extend_trial(p) \/ waive_invoice(p) \/ invoice_waived(p)
  PROVE  BillingTypeOK'
<1>1. CASE change_status(p)
  <2>1. op' \in Operators
    <3>1. PICK st \in Transitions[op.status] : op' = Moved(op, st)
      BY <1>1 DEF change_status
    <3>2. st \in {"approved", "suspended", "cancelled"}
      BY <3>1 DEF BillingTypeOK, Operators, Transitions
    <3>3. QED
      BY <3>1, <3>2 DEF BillingTypeOK, Operators, Moved, Suspended, Resumed
  <2>2. moves' \in 0..MaxMoves
    BY <1>1, BillingAssumption DEF BillingTypeOK, BillingAssumption, change_status
  <2>3. QED
    BY <1>1, <2>1, <2>2 DEF BillingTypeOK, change_status
<1>2. CASE extend_trial(p)
  BY <1>2 DEF BillingTypeOK, extend_trial
<1>3. CASE waive_invoice(p)
  <2>1. PICK i \in Invoice : Goes(p, "waive", [NoWork EXCEPT !.inv = i])
    BY <1>3 DEF waive_invoice
  <2>2. [NoWork EXCEPT !.inv = i] \in Works
    BY NoWorkType DEF Works
  <2>3. doing' \in [Proc -> BillingSteps] /\ work' \in [Proc -> Works]
    BY <2>1, <2>2, GotoType DEF BillingSteps
  <2>4. QED
    BY <1>3, <2>3 DEF BillingTypeOK, waive_invoice
<1>4. CASE invoice_waived(p)
  <2>1. doing' \in [Proc -> BillingSteps] /\ work' \in [Proc -> Works]
    BY <1>4, EndType DEF invoice_waived
  <2>2. inv' \in [Invoice -> Invoices]
    BY <1>4 DEF BillingTypeOK, Invoices, invoice_waived
  <2>3. QED
    BY <1>4, <2>1, <2>2 DEF BillingTypeOK, invoice_waived
<1>5. QED
  BY <1>1, <1>2, <1>3, <1>4

LEMMA CheckoutsType ==
  ASSUME BillingTypeOK, HeldInv, NEW p \in Proc,
         pay_invoice(p) \/ initiate_invoice_payment(p) \/ checkout_stored(p)
  PROVE  BillingTypeOK'
<1>1. CASE pay_invoice(p)
  <2>1. PICK i \in Invoice : Goes(p, "checkout", [NoWork EXCEPT !.inv = i, !.bill = inv[i]])
    BY <1>1 DEF pay_invoice
  <2>2. [NoWork EXCEPT !.inv = i, !.bill = inv[i]] \in Works
    BY NoWorkType DEF BillingTypeOK, Works
  <2>3. doing' \in [Proc -> BillingSteps] /\ work' \in [Proc -> Works]
    BY <2>1, <2>2, GotoType DEF BillingSteps
  <2>4. QED
    BY <1>1, <2>3 DEF BillingTypeOK, pay_invoice
<1>2. CASE initiate_invoice_payment(p)
  <2>1. CASE Finish(p) /\ UNCHANGED checkouts
    BY <1>2, <2>1, EndType DEF BillingTypeOK, initiate_invoice_payment
  <2>2. CASE /\ checkouts' = [checkouts EXCEPT ![Bill(p)] = Append(@, "made")]
             /\ Goes(p, "opened", [work[p] EXCEPT !.n = Len(checkouts'[Bill(p)])])
    <3>0. Bill(p) \in Invoice
      BY <1>2 DEF HeldInv, initiate_invoice_payment
    <3>1. checkouts' \in [Invoice -> Seq(Checkouts)]
      BY <2>2, <3>0, ChangedType DEF BillingTypeOK, Checkouts
    <3>4. Len(checkouts'[Bill(p)]) \in Nat
      BY <3>0, <3>1
    <3>2. [work[p] EXCEPT !.n = Len(checkouts'[Bill(p)])] \in Works
      BY <3>4 DEF BillingTypeOK, Works
    <3>3. doing' \in [Proc -> BillingSteps] /\ work' \in [Proc -> Works]
      BY <2>2, <3>2, GotoType DEF BillingSteps
    <3>5. QED
      BY <1>2, <3>1, <3>3 DEF BillingTypeOK, initiate_invoice_payment
  <2>3. QED
    BY <1>2, <2>1, <2>2 DEF initiate_invoice_payment
<1>3. CASE checkout_stored(p)
  <2>1. Bill(p) \in Invoice /\ work[p].n \in DOMAIN checkouts[Bill(p)]
    BY <1>3 DEF HeldInv, checkout_stored
  <2>2. checkouts' \in [Invoice -> Seq(Checkouts)]
    BY <1>3, <2>1, ChangedType DEF BillingTypeOK, Checkouts, checkout_stored
  <2>3. [kind |-> "checkout", n |-> work[p].n] \in References
    BY DEF BillingTypeOK, Works, References
  <2>4. inv' \in [Invoice -> Invoices]
    BY <1>3, <2>1, <2>3, InvoiceType DEF checkout_stored
  <2>5. doing' \in [Proc -> BillingSteps] /\ work' \in [Proc -> Works]
    BY <1>3, EndType DEF checkout_stored
  <2>6. QED
    BY <1>3, <2>2, <2>4, <2>5 DEF BillingTypeOK, checkout_stored
<1>4. QED
  BY <1>1, <1>2, <1>3

LEMMA RunsType ==
  ASSUME BillingTypeOK, NEW p \in Proc,
         \/ generate_monthly_invoices(p) \/ create_invoice(p)
         \/ handle_trial_expiry(p) \/ trial_ended(p)
  PROVE  BillingTypeOK'
<1>1. CASE generate_monthly_invoices(p) \/ handle_trial_expiry(p)
  <2>1. doing' \in [Proc -> BillingSteps] /\ work' \in [Proc -> Works]
    BY <1>1, GotoType, NoWorkType DEF generate_monthly_invoices, handle_trial_expiry, BillingSteps
  <2>2. QED
    BY <1>1, <2>1 DEF BillingTypeOK, generate_monthly_invoices, handle_trial_expiry
<1>2. CASE create_invoice(p)
  <2>0. NoReference \in References
    BY DEF NoReference, References
  <2>1. inv' \in [Invoice -> Invoices]
    <3>1. PICK i \in Invoice : inv' = [inv EXCEPT ![i].status = "issued"]
      BY <1>2 DEF create_invoice
    <3>2. QED
      BY <2>0, <3>1, InvoiceType
  <2>2. doing' \in [Proc -> BillingSteps] /\ work' \in [Proc -> Works]
    BY <1>2, EndType DEF create_invoice
  <2>3. QED
    BY <1>2, <2>1, <2>2 DEF BillingTypeOK, create_invoice
<1>3. CASE trial_ended(p)
  <2>1. op' \in Operators
    BY <1>3 DEF BillingTypeOK, Operators, trial_ended
  <2>2. doing' \in [Proc -> BillingSteps] /\ work' \in [Proc -> Works]
    BY <1>3, EndType DEF trial_ended
  <2>3. QED
    BY <1>3, <2>1, <2>2 DEF BillingTypeOK, trial_ended
<1>4. QED
  BY <1>1, <1>2, <1>3

LEMMA LoadedType ==
  ASSUME BillingTypeOK, NEW w \in Works
  PROVE  Loaded(w) \in Works
BY DEF BillingTypeOK, Loaded, Works

LEMMA EnforcementType ==
  ASSUME BillingTypeOK, NEW p \in Proc,
         \/ enforce_billing(p) \/ mark_overdue(p) \/ select_candidates(p)
         \/ suspend_operator(p) \/ enforcement_commits(p)
  PROVE  BillingTypeOK'
<1>1. CASE enforce_billing(p)
  <2>1. [NoWork EXCEPT !.todo = {i \in Invoice : inv[i].status = "issued" /\ inv[i].due >= 1}] \in Works
    BY NoWorkType DEF Works
  <2>2. doing' \in [Proc -> BillingSteps] /\ work' \in [Proc -> Works]
    BY <1>1, <2>1, GotoType DEF enforce_billing, BillingSteps
  <2>3. QED
    BY <1>1, <2>2 DEF BillingTypeOK, enforce_billing
<1>2. CASE mark_overdue(p)
  <2>1. PICK i \in work[p].todo :
          Goes(p, "enforce", [(IF inv[i].warned THEN work[p] ELSE Loaded(work[p]))
                                EXCEPT !.todo = @ \ {i}, !.marked = @ \cup {i}])
    BY <1>2 DEF mark_overdue
  <2>2. i \in Invoice /\ (IF inv[i].warned THEN work[p] ELSE Loaded(work[p])) \in Works
    BY LoadedType DEF BillingTypeOK, Works
  <2>3. [(IF inv[i].warned THEN work[p] ELSE Loaded(work[p]))
           EXCEPT !.todo = @ \ {i}, !.marked = @ \cup {i}] \in Works
    BY <2>2 DEF Works
  <2>4. doing' \in [Proc -> BillingSteps] /\ work' \in [Proc -> Works]
    BY <2>1, <2>3, GotoType DEF BillingSteps
  <2>5. QED
    BY <1>2, <2>4 DEF BillingTypeOK, mark_overdue
<1>3. CASE select_candidates(p)
  <2>1. PICK K \in SUBSET Invoice, step \in {"enforced", "suspend"} : Goes(p, step, [work[p] EXCEPT !.todo = K])
    BY <1>3 DEF select_candidates
  <2>2. [work[p] EXCEPT !.todo = K] \in Works
    BY DEF BillingTypeOK, Works
  <2>3. doing' \in [Proc -> BillingSteps] /\ work' \in [Proc -> Works]
    BY <2>1, <2>2, GotoType DEF BillingSteps
  <2>4. QED
    BY <1>3, <2>3 DEF BillingTypeOK, select_candidates
<1>4. CASE suspend_operator(p)
  <2>1. Loaded(work[p]) \in Works
    BY LoadedType DEF BillingTypeOK
  <2>2. [Loaded(work[p]) EXCEPT !.todo = {}] \in Works
    BY <2>1 DEF Works
  <2>3. doing' \in [Proc -> BillingSteps] /\ work' \in [Proc -> Works]
    BY <1>4, <2>1, <2>2, GotoType DEF suspend_operator, BillingSteps
  <2>4. QED
    BY <1>4, <2>3 DEF BillingTypeOK, suspend_operator
<1>5. CASE enforcement_commits(p)
  <2>1. inv' \in [Invoice -> Invoices]
    BY <1>5 DEF BillingTypeOK, Invoices, enforcement_commits
  <2>2. op' \in Operators
    <3>1. CASE op' = op
      BY <3>1 DEF BillingTypeOK
    <3>2. ASSUME NEW b \in {op.billing, "past_due"},
                 op' = [status |-> "suspended", billing |-> b, reason |-> "billing"]
          PROVE  op' \in Operators
      BY <3>2 DEF BillingTypeOK, Operators
    <3>3. QED
      BY <1>5, <3>1, <3>2 DEF enforcement_commits
  <2>3. doing' \in [Proc -> BillingSteps] /\ work' \in [Proc -> Works]
    BY <1>5, EndType DEF enforcement_commits
  <2>4. QED
    BY <1>5, <2>1, <2>2, <2>3 DEF BillingTypeOK, enforcement_commits
<1>6. QED
  BY <1>1, <1>2, <1>3, <1>4, <1>5

LEMMA TypeStep ==
  ASSUME BillingTypeOK, HeldInv, [BillingNext]_billing_vars
  PROVE  BillingTypeOK'
<1>1. CASE UNCHANGED billing_vars
  BY <1>1 DEF BillingTypeOK, billing_vars
<1>2. ASSUME NEW p \in Proc, Rollback(p)
      PROVE  BillingTypeOK'
  BY <1>2, EndType DEF BillingTypeOK, Rollback
<1>3. CASE CheckoutEnds
  <2>1. checkouts' \in [Invoice -> Seq(Checkouts)]
    BY <1>3, ChangedType DEF BillingTypeOK, Checkouts, CheckoutEnds
  <2>2. QED
    BY <1>3, <2>1 DEF BillingTypeOK, CheckoutEnds
<1>4. CASE DueDatePasses
  <2>1. PICK i \in Invoice : inv[i].due < 2 /\ inv' = [inv EXCEPT ![i].due = @ + 1]
    BY <1>4 DEF DueDatePasses
  <2>2. inv[i].due + 1 \in 0..2
    BY <2>1 DEF BillingTypeOK, Invoices
  <2>3. [inv[i] EXCEPT !.due = inv[i].due + 1] \in Invoices
    BY <2>2 DEF BillingTypeOK, Invoices
  <2>4. inv' \in [Invoice -> Invoices]
    BY <2>1, <2>3 DEF BillingTypeOK
  <2>5. QED
    BY <1>4, <2>4 DEF BillingTypeOK, DueDatePasses
<1>5. CASE TrialEnds
  BY <1>5 DEF BillingTypeOK, TrialEnds
<1>6. QED
  BY <1>1, <1>2, <1>3, <1>4, <1>5, PaymentsType, OwnersType, CheckoutsType, RunsType, EnforcementType
     DEF BillingNext, ProcStep

-----------------------------------------------------------------------------
(* Who runs together                                                       *)

\* Handlers under way together are handlers that overlap.
AloneInv ==
  \A p, q \in Proc :
    p # q /\ doing[p] # "idle" /\ doing[q] # "idle" => Handler(doing[p]) \in Overlap

LEMMA StartsOrGoesOn ==
  ASSUME NEW p \in Proc, ProcStep(p)
  PROVE  doing[p] # "idle" \/ \E handler \in Handlers : MayStart(p, handler)
BY DEF ProcStep, Handlers, platform_billing_webhook, webhook_settles, record_payment, reverse_payment,
   change_status, extend_trial, waive_invoice, invoice_waived, pay_invoice, initiate_invoice_payment,
   checkout_stored, generate_monthly_invoices, create_invoice, handle_trial_expiry, trial_ended,
   enforce_billing, mark_overdue, select_candidates, suspend_operator, enforcement_commits, Rollback

LEMMA StartsAmong ==
  ASSUME NEW p \in Proc, NEW handler, MayStart(p, handler), NEW q \in Proc, doing[q] # "idle"
  PROVE  handler \in Overlap /\ Handler(doing[q]) \in Overlap
BY DEF MayStart, Busy

\* So a handler that runs alone finds its rows as it left them: no other
\* process takes a step.
LEMMA OthersOverlap ==
  ASSUME AloneInv, NEW p \in Proc, ProcStep(p), NEW q \in Proc \ {p}, doing[q] # "idle"
  PROVE  Handler(doing[q]) \in Overlap
BY StartsOrGoesOn, StartsAmong DEF AloneInv

LEMMA GotoValue ==
  ASSUME BillingTypeOK, NEW p \in Proc, NEW step, NEW w, Goes(p, step, w)
  PROVE  doing'[p] = step /\ work'[p] = w
BY DEF BillingTypeOK, Goes

\* A step moves its own process only.
LEMMA OthersKeep ==
  ASSUME BillingTypeOK, NEW p \in Proc, ProcStep(p), NEW q \in Proc \ {p}
  PROVE  doing'[q] = doing[q] /\ work'[q] = work[q]
<1>1. UNCHANGED <<doing, work>> \/ \E step, w : Goes(p, step, w)
  BY DEF ProcStep, Finish, platform_billing_webhook, webhook_settles, record_payment, reverse_payment,
     change_status, extend_trial, waive_invoice, invoice_waived, pay_invoice, initiate_invoice_payment,
     checkout_stored, generate_monthly_invoices, create_invoice, handle_trial_expiry, trial_ended,
     enforce_billing, mark_overdue, select_candidates, suspend_operator, enforcement_commits, Rollback
<1>2. QED
  BY <1>1 DEF BillingTypeOK, Goes

\* A process under way is in the handler it started.
LEMMA HandlerGoesOn ==
  ASSUME BillingTypeOK, NEW p \in Proc, ProcStep(p), doing'[p] # "idle"
  PROVE  \/ doing[p] # "idle" /\ Handler(doing'[p]) = Handler(doing[p])
         \/ MayStart(p, Handler(doing'[p]))
<1>1. ASSUME NEW handler \in {"webhook", "waive", "checkout", "generate", "trial", "enforce"},
             MayStart(p, handler), NEW w, Goes(p, handler, w)
      PROVE  MayStart(p, Handler(doing'[p]))
  BY <1>1, GotoValue DEF Handler
<1>2. ASSUME NEW from \in {"enforce", "suspend"}, doing[p] = from,
             NEW to \in {"enforce", "suspend", "enforced"}, NEW w, Goes(p, to, w)
      PROVE  doing[p] # "idle" /\ Handler(doing'[p]) = Handler(doing[p])
  BY <1>2, GotoValue DEF Handler
<1>3. ASSUME doing[p] = "checkout", NEW w, Goes(p, "opened", w)
      PROVE  doing[p] # "idle" /\ Handler(doing'[p]) = Handler(doing[p])
  BY <1>3, GotoValue DEF Handler
<1>4. ~Finish(p)
  BY GotoValue DEF Finish
<1>5. ~(doing[p] = "idle" /\ UNCHANGED doing)
  OBVIOUS
<1>6. CASE \/ platform_billing_webhook(p) \/ waive_invoice(p) \/ pay_invoice(p)
           \/ generate_monthly_invoices(p) \/ handle_trial_expiry(p) \/ enforce_billing(p)
  BY <1>1, <1>6 DEF platform_billing_webhook, waive_invoice, pay_invoice,
                    generate_monthly_invoices, handle_trial_expiry, enforce_billing
<1>7. CASE mark_overdue(p) \/ select_candidates(p) \/ suspend_operator(p)
  BY <1>2, <1>7 DEF mark_overdue, select_candidates, suspend_operator
<1>8. CASE initiate_invoice_payment(p)
  BY <1>3, <1>4, <1>8 DEF initiate_invoice_payment
<1>9. QED
  BY <1>4, <1>5, <1>6, <1>7, <1>8 DEF ProcStep, MayStart, webhook_settles, record_payment,
     reverse_payment, change_status, extend_trial, invoice_waived, checkout_stored, create_invoice,
     trial_ended, enforcement_commits, Rollback

LEMMA AloneStep ==
  ASSUME BillingTypeOK, AloneInv, [BillingNext]_billing_vars
  PROVE  AloneInv'
<1>1. CASE UNCHANGED doing
  BY <1>1 DEF AloneInv, Handler
<1>2. ASSUME NEW p \in Proc, ProcStep(p)
      PROVE  AloneInv'
  <2>1. \A q \in Proc \ {p} : doing'[q] = doing[q] /\ (doing[q] # "idle" => Handler(doing[q]) \in Overlap)
    BY <1>2, OthersKeep, OthersOverlap
  <2>2. \A q \in Proc \ {p} : doing[q] # "idle" /\ doing'[p] # "idle" => Handler(doing'[p]) \in Overlap
    BY <1>2, HandlerGoesOn, StartsAmong DEF AloneInv
  <2>3. SUFFICES ASSUME NEW a \in Proc, NEW b \in Proc, a # b, doing'[a] # "idle", doing'[b] # "idle"
                 PROVE  Handler(doing'[a]) \in Overlap
    BY DEF AloneInv, Handler
  <2>4. CASE a = p
    BY <2>1, <2>2, <2>3, <2>4
  <2>5. CASE a # p
    BY <1>2, <2>1, <2>3, <2>5
  <2>6. QED
    BY <2>4, <2>5
<1>3. QED
  BY <1>1, <1>2 DEF BillingNext, CheckoutEnds, DueDatePasses, TrialEnds, billing_vars

-----------------------------------------------------------------------------
(* What each handler relies on between its steps                           *)

\* The enforcement run: the operator as it was when loaded, invoices marked
\* that are still unpaid, and candidates overdue and past their grace.
EnforceInv(p) ==
  doing[p] \in {"enforce", "suspend", "enforced"} =>
    LET w == work[p] IN
    /\ w.loaded => w.op = op
    /\ \A i \in w.marked : inv[i].status = "issued"
    /\ doing[p] = "enforce" => \A i \in w.todo : inv[i].status = "issued"
    /\ doing[p] # "enforce" => \A i \in w.todo :
         (i \in w.marked \/ inv[i].status = "overdue") /\ inv[i].due = 2
    /\ doing[p] = "enforced" /\ w.todo # {} => op.status = "approved"

\* Whatever overlaps: a checkout that was paid stays paid, one that was made is
\* there, an invoice that was looked up exists.  What else a handler has read
\* it can rely on only when it runs alone.
ReliesOn(p) ==
  /\ doing[p] = "webhook" => Bill(p) \in Invoice /\ Made(Bill(p), work[p].n, "paid")
  /\ doing[p] \in {"waive", "checkout", "opened"} =>
       Bill(p) \in Invoice /\ inv[Bill(p)].status # "none"
  /\ doing[p] = "opened" => Made(Bill(p), work[p].n, "made")
  /\ Alone("waive") /\ doing[p] = "waive" => inv[Bill(p)].status \in Payable
  /\ Alone("checkout") /\ doing[p] \in {"checkout", "opened"} => inv[Bill(p)].status \in Payable
  /\ Alone("trial") /\ doing[p] = "trial" => op.billing = "trial"
  /\ Alone("enforce") => EnforceInv(p)

\* Two requests do not store the same checkout.
Apart ==
  \A p, q \in Proc :
    p # q /\ doing[p] = "opened" /\ doing[q] = "opened" /\ Bill(p) = Bill(q)
      => work[p].n # work[q].n

WorkInv == Apart /\ \A p \in Proc : ReliesOn(p)

LEMMA WorkHeld == WorkInv => HeldInv
BY DEF WorkInv, ReliesOn, HeldInv, Made

\* Checkouts are only added, and one that is over, or of which the link has not
\* been stored, stays as it is.
LEMMA ChargeStays ==
  ASSUME BillingTypeOK, WorkInv, [BillingNext]_billing_vars, NEW i \in Invoice, NEW n, NEW c, Made(i, n, c), c # "open",
         \A p \in Proc : checkout_stored(p) => ~(i = Bill(p) /\ n = work[p].n)
  PROVE  Made(i, n, c)'
<1>1. CASE UNCHANGED checkouts
  BY <1>1 DEF Made
<1>2. CASE CheckoutEnds
  <2>1. PICK j \in Invoice : \E m \in DOMAIN checkouts[j] : \E d \in {"paid", "failed"} :
          checkouts[j][m] = "open" /\ checkouts' = [checkouts EXCEPT ![j][m] = d]
    BY <1>2 DEF CheckoutEnds
  <2>2. PICK m \in DOMAIN checkouts[j], d \in {"paid", "failed"} :
          checkouts[j][m] = "open" /\ checkouts' = [checkouts EXCEPT ![j][m] = d]
    BY <2>1
  <2>3. QED
    BY <2>2 DEF BillingTypeOK, Made
<1>3. ASSUME NEW p \in Proc, initiate_invoice_payment(p)
      PROVE  Made(i, n, c)'
  <2>1. CASE checkouts' = [checkouts EXCEPT ![Bill(p)] = Append(@, "made")]
    <3>1. checkouts[i] \in Seq(Checkouts) /\ n \in 1 .. Len(checkouts[i])
      BY DEF BillingTypeOK, Made
    <3>2. n \in DOMAIN Append(checkouts[i], "made") /\ Append(checkouts[i], "made")[n] = checkouts[i][n]
      BY <3>1, AppendProperties DEF Checkouts
    <3>3. checkouts'[i] = checkouts[i] \/ checkouts'[i] = Append(checkouts[i], "made")
      BY <2>1 DEF BillingTypeOK
    <3>4. QED
      BY <3>2, <3>3 DEF Made
  <2>2. QED
    BY <1>1, <1>3, <2>1 DEF initiate_invoice_payment
<1>4. ASSUME NEW p \in Proc, checkout_stored(p)
      PROVE  Made(i, n, c)'
  BY <1>4 DEF BillingTypeOK, Made, checkout_stored
<1>5. QED
  BY <1>1, <1>2, <1>3, <1>4 DEF BillingNext, ProcStep, billing_vars, DueDatePasses, TrialEnds,
     platform_billing_webhook, webhook_settles, record_payment, reverse_payment, change_status,
     extend_trial, waive_invoice, invoice_waived, pay_invoice, generate_monthly_invoices,
     create_invoice, handle_trial_expiry, trial_ended, enforce_billing, mark_overdue,
     select_candidates, suspend_operator, enforcement_commits, Rollback

LEMMA PaidStays ==
  ASSUME BillingTypeOK, WorkInv, [BillingNext]_billing_vars, NEW i \in Invoice, NEW n, Made(i, n, "paid")
  PROVE  Made(i, n, "paid")'
<1>1. ASSUME NEW p \in Proc, checkout_stored(p)
      PROVE  ~(i = Bill(p) /\ n = work[p].n)
  BY <1>1 DEF WorkInv, ReliesOn, Made, checkout_stored
<1>2. QED
  BY <1>1, ChargeStays

\* An invoice that was made out is there for good.
LEMMA NeverUnmade ==
  ASSUME BillingTypeOK, [BillingNext]_billing_vars, NEW i \in Invoice, inv'[i].status = "none"
  PROVE  inv[i].status = "none"
<1>1. ASSUME NEW p \in Proc, webhook_settles(p) \/ record_payment(p)
      PROVE  inv[i].status = "none"
  <2>1. CASE \E j, r : settle_invoice(j, r)
    <3>1. PICK j : \E r : settle_invoice(j, r)
      BY <2>1
    <3>2. PICK r : settle_invoice(j, r)
      BY <3>1
    <3>3. inv'[i] = IF i = j THEN [inv[i] EXCEPT !.status = "paid", !.ref = r] ELSE inv[i]
      BY <3>2 DEF BillingTypeOK, settle_invoice
    <3>4. i = j => inv'[i].status = "paid"
      BY <3>3 DEF BillingTypeOK, Invoices
    <3>5. QED
      BY <3>3, <3>4
  <2>2. CASE UNCHANGED inv
    BY <2>2
  <2>3. QED
    BY <1>1, <2>1, <2>2 DEF webhook_settles, record_payment
<1>2. ASSUME NEW p \in Proc, reverse_payment(p)
      PROVE  inv[i].status = "none"
  BY <1>2 DEF BillingTypeOK, Invoices, reverse_payment
<1>3. ASSUME NEW p \in Proc, invoice_waived(p) \/ checkout_stored(p)
      PROVE  inv[i].status = "none"
  <2>1. inv[i] \in Invoices
    BY DEF BillingTypeOK
  <2>2. CASE i # Bill(p)
    BY <1>3, <2>2 DEF BillingTypeOK, invoice_waived, checkout_stored
  <2>3. CASE i = Bill(p)
    BY <1>3, <2>1, <2>3 DEF BillingTypeOK, Invoices, invoice_waived, checkout_stored
  <2>4. QED
    BY <2>2, <2>3
<1>4. ASSUME NEW p \in Proc, create_invoice(p)
      PROVE  inv[i].status = "none"
  BY <1>4 DEF BillingTypeOK, Invoices, create_invoice
<1>5. ASSUME NEW p \in Proc, enforcement_commits(p)
      PROVE  inv[i].status = "none"
  BY <1>5 DEF BillingTypeOK, Invoices, enforcement_commits
<1>6. CASE DueDatePasses
  BY <1>6 DEF BillingTypeOK, Invoices, DueDatePasses
<1>7. CASE UNCHANGED inv
  BY <1>7
<1>8. QED
  BY <1>1, <1>2, <1>3, <1>4, <1>5, <1>6, <1>7 DEF BillingNext, ProcStep, billing_vars, CheckoutEnds, TrialEnds,
     platform_billing_webhook, change_status, extend_trial, waive_invoice, pay_invoice,
     initiate_invoice_payment, generate_monthly_invoices, handle_trial_expiry, trial_ended,
     enforce_billing, mark_overdue, select_candidates, suspend_operator, Rollback

LEMMA IdleRelies ==
  ASSUME NEW p \in Proc, doing'[p] = "idle"
  PROVE  ReliesOn(p)'
BY DEF ReliesOn, EnforceInv

LEMMA EndRelies ==
  ASSUME BillingTypeOK, NEW p \in Proc, Finish(p)
  PROVE  ReliesOn(p)'
BY GotoValue, IdleRelies DEF Finish

\* A step of another process disturbs nothing a handler relies on: there is
\* none beside a handler that runs alone.
LEMMA OthersRely ==
  ASSUME BillingTypeOK, AloneInv, WorkInv, NEW p \in Proc, ProcStep(p), NEW q \in Proc \ {p}
  PROVE  ReliesOn(q)'
<1>1. doing'[q] = doing[q] /\ work'[q] = work[q]
  BY OthersKeep
<1>2. CASE doing[q] = "idle"
  BY <1>1, <1>2, IdleRelies
<1>3. CASE doing[q] # "idle"
  <2>1. Handler(doing[q]) \in Overlap
    BY <1>3, OthersOverlap
  <2>2. /\ doing[q] = "waive" => ~Alone("waive")
        /\ doing[q] \in {"checkout", "opened"} => ~Alone("checkout")
        /\ doing[q] = "trial" => ~Alone("trial")
        /\ doing[q] \in {"enforce", "suspend", "enforced"} => ~Alone("enforce")
    BY <2>1 DEF Alone, Handler
  <2>3. ReliesOn(q)
    BY DEF WorkInv
  <2>4. doing[q] \in {"waive", "checkout", "opened"} => inv'[Bill(q)].status # "none"
    BY <2>3, NeverUnmade DEF ReliesOn, BillingNext
  <2>5. doing[q] = "webhook" => Made(Bill(q), work[q].n, "paid")'
    <3>1. \A i \in Invoice : \A n : Made(i, n, "paid") => Made(i, n, "paid")'
      BY PaidStays DEF BillingNext
    <3>2. QED
      BY <1>1, <2>3, <3>1 DEF ReliesOn, Made, Bill
  <2>6. doing[q] = "opened" => Made(Bill(q), work[q].n, "made")'
    <3>1. SUFFICES ASSUME doing[q] = "opened" PROVE Made(Bill(q), work[q].n, "made")'
      OBVIOUS
    <3>2. PICK i \in Invoice : i = Bill(q) /\ Made(i, work[q].n, "made")
      BY <2>3, <3>1 DEF ReliesOn
    <3>3. ~checkout_stored(q)
      BY <1>1, <1>3, GotoValue DEF checkout_stored, Finish
    <3>4. \A r \in Proc : checkout_stored(r) => ~(i = Bill(r) /\ work[q].n = work[r].n)
      BY <3>1, <3>2, <3>3 DEF WorkInv, Apart, checkout_stored
    <3>5. [BillingNext]_billing_vars
      BY DEF BillingNext
    <3>6. PICK n : n = work[q].n
      OBVIOUS
    <3>7. Made(i, n, "made")'
      BY <3>2, <3>4, <3>5, <3>6, ChargeStays
    <3>8. QED
      BY <1>1, <3>2, <3>6, <3>7 DEF Made, Bill
  <2>7. QED
    BY <1>1, <2>2, <2>3, <2>4, <2>5, <2>6 DEF ReliesOn, EnforceInv, Bill
<1>4. QED
  BY <1>2, <1>3

LEMMA RequestRelies ==
  ASSUME BillingTypeOK, WorkInv, NEW p \in Proc,
         \/ platform_billing_webhook(p) \/ waive_invoice(p) \/ pay_invoice(p)
         \/ initiate_invoice_payment(p) \/ generate_monthly_invoices(p) \/ handle_trial_expiry(p)
  PROVE  ReliesOn(p)'
<1>1. CASE platform_billing_webhook(p)
  <2>1. PICK i \in Invoice : \E n \in DOMAIN checkouts[i] :
          checkouts[i][n] = "paid" /\ Goes(p, "webhook", [NoWork EXCEPT !.inv = i, !.n = n])
    BY <1>1 DEF platform_billing_webhook
  <2>2. PICK n \in DOMAIN checkouts[i] :
          checkouts[i][n] = "paid" /\ Goes(p, "webhook", [NoWork EXCEPT !.inv = i, !.n = n])
    BY <2>1
  <2>3. doing'[p] = "webhook" /\ work'[p].inv = i /\ work'[p].n = n
    <3>1. doing'[p] = "webhook" /\ work'[p] = [NoWork EXCEPT !.inv = i, !.n = n]
      BY <2>2, GotoValue
    <3>2. QED
      BY <3>1 DEF NoWork
  <2>4. UNCHANGED checkouts
    BY <1>1 DEF platform_billing_webhook
  <2>5. QED
    BY <2>2, <2>3, <2>4 DEF ReliesOn, EnforceInv, Made, Bill
<1>2. CASE waive_invoice(p)
  <2>1. PICK i \in Invoice : inv[i].status \in Payable /\ Goes(p, "waive", [NoWork EXCEPT !.inv = i])
    BY <1>2 DEF waive_invoice
  <2>2. doing'[p] = "waive" /\ work'[p].inv = i
    BY <2>1, GotoValue DEF NoWork
  <2>3. UNCHANGED inv
    BY <1>2 DEF waive_invoice
  <2>4. QED
    BY <2>1, <2>2, <2>3 DEF ReliesOn, EnforceInv, Bill, Payable
<1>3. CASE pay_invoice(p)
  <2>1. PICK i \in Invoice :
          inv[i].status \in Payable /\ Goes(p, "checkout", [NoWork EXCEPT !.inv = i, !.bill = inv[i]])
    BY <1>3 DEF pay_invoice
  <2>2. doing'[p] = "checkout" /\ work'[p].inv = i
    <3>1. doing'[p] = "checkout" /\ work'[p] = [NoWork EXCEPT !.inv = i, !.bill = inv[i]]
      BY <2>1, GotoValue
    <3>2. QED
      BY <3>1 DEF NoWork
  <2>3. UNCHANGED inv
    BY <1>3 DEF pay_invoice
  <2>4. QED
    BY <2>1, <2>2, <2>3 DEF ReliesOn, EnforceInv, Bill, Payable
<1>4. CASE initiate_invoice_payment(p)
  <2>1. CASE Finish(p)
    BY <2>1, EndRelies
  <2>2. CASE /\ checkouts' = [checkouts EXCEPT ![Bill(p)] = Append(@, "made")]
             /\ Goes(p, "opened", [work[p] EXCEPT !.n = Len(checkouts'[Bill(p)])])
    <3>1. /\ Bill(p) \in Invoice /\ inv[Bill(p)].status # "none" /\ UNCHANGED inv
          /\ Alone("checkout") => inv[Bill(p)].status \in Payable
      BY <1>4 DEF WorkInv, ReliesOn, initiate_invoice_payment
    <3>2. checkouts[Bill(p)] \in Seq(Checkouts) /\ checkouts'[Bill(p)] = Append(checkouts[Bill(p)], "made")
      BY <2>2, <3>1 DEF BillingTypeOK
    <3>4. /\ Len(checkouts'[Bill(p)]) \in DOMAIN checkouts'[Bill(p)]
          /\ checkouts'[Bill(p)][Len(checkouts'[Bill(p)])] = "made"
      BY <3>2, AppendProperties DEF Checkouts
    <3>5. doing'[p] = "opened" /\ work'[p].inv = work[p].inv /\ work'[p].n = Len(checkouts'[Bill(p)])
      BY <2>2, GotoValue DEF BillingTypeOK, Works
    <3>6. QED
      BY <3>1, <3>4, <3>5 DEF ReliesOn, EnforceInv, Made, Bill
  <2>3. QED
    BY <1>4, <2>1, <2>2 DEF initiate_invoice_payment
<1>5. CASE generate_monthly_invoices(p) \/ handle_trial_expiry(p)
  <2>1. doing'[p] = "generate" \/ doing'[p] = "trial"
    BY <1>5, GotoValue DEF generate_monthly_invoices, handle_trial_expiry
  <2>2. doing'[p] = "trial" => op'.billing = "trial"
    BY <1>5, GotoValue DEF generate_monthly_invoices, handle_trial_expiry
  <2>3. QED
    BY <2>1, <2>2 DEF ReliesOn, EnforceInv
<1>6. QED
  BY <1>1, <1>2, <1>3, <1>4, <1>5

LEMMA LoadedKeeps ==
  ASSUME BillingTypeOK, NEW p \in Proc, doing[p] \in {"enforce", "suspend", "enforced"}, EnforceInv(p)
  PROVE  /\ Loaded(work[p]).loaded /\ Loaded(work[p]).op = op
         /\ Loaded(work[p]).todo = work[p].todo /\ Loaded(work[p]).marked = work[p].marked
BY DEF BillingTypeOK, Works, EnforceInv, Loaded

LEMMA EnforcementRelies ==
  ASSUME BillingTypeOK, NEW p \in Proc, EnforceInv(p),
         \/ enforce_billing(p) \/ mark_overdue(p) \/ select_candidates(p) \/ suspend_operator(p)
  PROVE  EnforceInv(p)'
<1>0. UNCHANGED <<op, inv>> /\ work[p] \in Works
  BY DEF BillingTypeOK, enforce_billing, mark_overdue, select_candidates, suspend_operator
<1>1. CASE enforce_billing(p)
  <2>1. /\ doing'[p] = "enforce"
        /\ work'[p] = [NoWork EXCEPT !.todo = {i \in Invoice : inv[i].status = "issued" /\ inv[i].due >= 1}]
    BY <1>1, GotoValue DEF enforce_billing
  <2>2. ~work'[p].loaded /\ work'[p].marked = {} /\ \A i \in work'[p].todo : inv[i].status = "issued"
    BY <2>1 DEF NoWork
  <2>3. QED
    BY <1>0, <2>1, <2>2 DEF EnforceInv
<1>2. CASE mark_overdue(p)
  <2>1. PICK i \in work[p].todo, w \in {work[p], Loaded(work[p])} :
          Goes(p, "enforce", [w EXCEPT !.todo = @ \ {i}, !.marked = @ \cup {i}])
    BY <1>2 DEF mark_overdue
  <2>2. /\ w.loaded => w.op = op
        /\ w.todo = work[p].todo /\ w.marked = work[p].marked
        /\ w \in Works
    BY <1>0, <1>2, LoadedKeeps, LoadedType DEF EnforceInv, mark_overdue
  <2>3. doing'[p] = "enforce" /\ work'[p] = [w EXCEPT !.todo = w.todo \ {i}, !.marked = w.marked \cup {i}]
    BY <2>1, GotoValue
  <2>4. /\ work'[p].loaded => work'[p].op = op
        /\ work'[p].todo = work[p].todo \ {i} /\ work'[p].marked = work[p].marked \cup {i}
    BY <2>2, <2>3 DEF Works
  <2>5. \A j \in work[p].todo \cup work[p].marked : inv[j].status = "issued"
    BY <1>0, <1>2 DEF EnforceInv, mark_overdue
  <2>6. QED
    BY <1>0, <2>3, <2>4, <2>5 DEF EnforceInv
<1>3. CASE select_candidates(p)
  <2>1. PICK K \in SUBSET Invoice, step \in {"enforced", "suspend"} :
          /\ \A i \in K : (i \in work[p].marked \/ inv[i].status = "overdue") /\ inv[i].due = 2
          /\ step = "enforced" => K = {}
          /\ Goes(p, step, [work[p] EXCEPT !.todo = K])
    <3>1. DEFINE K == {i \in Invoice : (i \in work[p].marked \/ inv[i].status = "overdue") /\ inv[i].due = 2}
    <3>2. Goes(p, IF K = {} THEN "enforced" ELSE "suspend", [work[p] EXCEPT !.todo = K])
      BY <1>3 DEF select_candidates, PastGrace
    <3>3. QED
      BY <3>2
  <2>2. doing'[p] = step /\ work'[p] = [work[p] EXCEPT !.todo = K]
    BY <2>1, GotoValue
  <2>3. /\ work'[p].loaded = work[p].loaded /\ work'[p].op = work[p].op
        /\ work'[p].todo = K /\ work'[p].marked = work[p].marked
    BY <1>0, <2>2 DEF Works
  <2>4. work[p].loaded => work[p].op = op
    BY <1>0, <1>3 DEF EnforceInv, select_candidates
  <2>5. \A i \in work[p].marked : inv[i].status = "issued"
    BY <1>0, <1>3 DEF EnforceInv, select_candidates
  <2>6. QED
    BY <1>0, <2>1, <2>2, <2>3, <2>4, <2>5 DEF EnforceInv
<1>4. CASE suspend_operator(p)
  <2>0. /\ Loaded(work[p]).op = op /\ Loaded(work[p]) \in Works
        /\ Loaded(work[p]).todo = work[p].todo /\ Loaded(work[p]).marked = work[p].marked
    BY <1>0, <1>4, LoadedKeeps, LoadedType DEF suspend_operator
  <2>1. PICK K \in {work[p].todo, {}} :
          /\ K # {} => op.status = "approved"
          /\ Goes(p, "enforced", [Loaded(work[p]) EXCEPT !.todo = K])
    <3>1. CASE Suspendable(op)
      <4>1. Loaded(work[p]) = [Loaded(work[p]) EXCEPT !.todo = work[p].todo]
        BY <2>0 DEF Works
      <4>2. QED
        BY <1>4, <2>0, <3>1, <4>1 DEF suspend_operator, Suspendable
    <3>2. CASE ~Suspendable(op)
      BY <1>4, <2>0, <3>2 DEF suspend_operator
    <3>3. QED
      BY <3>1, <3>2
  <2>2. doing'[p] = "enforced" /\ work'[p] = [Loaded(work[p]) EXCEPT !.todo = K]
    BY <2>1, GotoValue
  <2>3. work'[p].op = op /\ work'[p].todo = K /\ work'[p].marked = work[p].marked
    BY <2>0, <2>2 DEF Works
  <2>4. /\ \A i \in work[p].marked : inv[i].status = "issued"
        /\ \A i \in work[p].todo : (i \in work[p].marked \/ inv[i].status = "overdue") /\ inv[i].due = 2
    BY <1>0, <1>4 DEF EnforceInv, suspend_operator
  <2>5. QED
    BY <1>0, <2>1, <2>2, <2>3, <2>4 DEF EnforceInv
<1>5. QED
  BY <1>1, <1>2, <1>3, <1>4

LEMMA OwnRelies ==
  ASSUME BillingTypeOK, WorkInv, NEW p \in Proc, ProcStep(p)
  PROVE  ReliesOn(p)'
<1>1. \/ Finish(p)
      \/ doing[p] = "idle" /\ UNCHANGED doing
      \/ \/ platform_billing_webhook(p) \/ waive_invoice(p) \/ pay_invoice(p)
         \/ initiate_invoice_payment(p) \/ generate_monthly_invoices(p) \/ handle_trial_expiry(p)
      \/ enforce_billing(p) \/ mark_overdue(p) \/ select_candidates(p) \/ suspend_operator(p)
  BY DEF ProcStep, MayStart, webhook_settles, record_payment, reverse_payment, change_status,
     extend_trial, invoice_waived, checkout_stored, create_invoice, trial_ended,
     enforcement_commits, Rollback
<1>2. CASE enforce_billing(p) \/ mark_overdue(p) \/ select_candidates(p) \/ suspend_operator(p)
  <2>1. doing'[p] \in {"enforce", "suspend", "enforced"}
    BY <1>2, GotoValue DEF enforce_billing, mark_overdue, select_candidates, suspend_operator
  <2>2. Alone("enforce") => EnforceInv(p)'
    BY <1>2, EnforcementRelies DEF WorkInv, ReliesOn
  <2>3. QED
    BY <2>1, <2>2 DEF ReliesOn, Alone
<1>3. QED
  BY <1>1, <1>2, EndRelies, IdleRelies, RequestRelies

\* Only initiate_invoice_payment leaves a checkout to be stored.
LEMMA NotOpened ==
  ASSUME BillingTypeOK, NEW p \in Proc, ProcStep(p), doing'[p] = "opened"
  PROVE  initiate_invoice_payment(p)
<1>1. ASSUME NEW step, step # "opened", NEW w, Goes(p, step, w)
      PROVE  FALSE
  BY <1>1, GotoValue
<1>2. ~Finish(p)
  BY <1>1 DEF Finish
<1>3. ~(doing[p] = "idle" /\ UNCHANGED doing)
  OBVIOUS
<1>4. ~ \/ platform_billing_webhook(p) \/ waive_invoice(p) \/ pay_invoice(p)
        \/ generate_monthly_invoices(p) \/ handle_trial_expiry(p) \/ enforce_billing(p)
  BY <1>1 DEF platform_billing_webhook, waive_invoice, pay_invoice,
              generate_monthly_invoices, handle_trial_expiry, enforce_billing
<1>5. ~(mark_overdue(p) \/ suspend_operator(p))
  BY <1>1 DEF mark_overdue, suspend_operator
<1>6. ~select_candidates(p)
  <2>1. "enforced" # "opened" /\ "suspend" # "opened"
    OBVIOUS
  <2>2. QED
    BY <1>1, <2>1 DEF select_candidates
<1>7. QED
  BY <1>2, <1>3, <1>4, <1>5, <1>6 DEF ProcStep, MayStart, webhook_settles, record_payment,
     reverse_payment, change_status, extend_trial, invoice_waived, checkout_stored, create_invoice,
     trial_ended, enforcement_commits, Rollback

\* A checkout gets a number of its own.
LEMMA ApartStep ==
  ASSUME BillingTypeOK, WorkInv, NEW p \in Proc, ProcStep(p)
  PROVE  Apart'
<1>1. ASSUME NEW q \in Proc \ {p}, doing'[p] = "opened", doing'[q] = "opened", Bill(p)' = Bill(q)'
      PROVE  work'[p].n # work'[q].n
  <2>1. doing[q] = "opened" /\ work'[q] = work[q]
    BY <1>1, OthersKeep
  <2>2. Bill(q) \in Invoice /\ work[q].n \in DOMAIN checkouts[Bill(q)]
    BY <2>1 DEF WorkInv, ReliesOn, Made
  <2>3. initiate_invoice_payment(p)
    BY <1>1, NotOpened
  <2>4. /\ checkouts' = [checkouts EXCEPT ![Bill(p)] = Append(@, "made")]
        /\ Goes(p, "opened", [work[p] EXCEPT !.n = Len(checkouts'[Bill(p)])])
    BY <1>1, <2>3, GotoValue DEF initiate_invoice_payment, Finish
  <2>5. work'[p].inv = work[p].inv /\ work'[p].n = Len(checkouts'[Bill(p)])
    BY <2>4, GotoValue DEF BillingTypeOK, Works
  <2>6. Bill(p) = Bill(q) /\ work'[q].n = work[q].n
    BY <1>1, <2>1, <2>5 DEF Bill
  <2>7. checkouts[Bill(q)] \in Seq(Checkouts) /\ checkouts'[Bill(q)] = Append(checkouts[Bill(q)], "made")
    BY <2>2, <2>4, <2>6 DEF BillingTypeOK
  <2>8. Len(checkouts'[Bill(q)]) = Len(checkouts[Bill(q)]) + 1 /\ work[q].n \in 1 .. Len(checkouts[Bill(q)])
    BY <2>2, <2>7, AppendProperties DEF Checkouts
  <2>9. QED
    BY <2>5, <2>6, <2>7, <2>8
<1>2. \A q \in Proc \ {p} : doing'[q] = doing[q] /\ work'[q] = work[q]
  BY OthersKeep
<1>3. QED
  BY <1>1, <1>2 DEF WorkInv, Apart, Bill

LEMMA WorkStep ==
  ASSUME BillingTypeOK, AloneInv, WorkInv, [BillingNext]_billing_vars
  PROVE  WorkInv'
<1>1. ASSUME NEW p \in Proc, ProcStep(p)
      PROVE  WorkInv'
  BY <1>1, OwnRelies, OthersRely, ApartStep DEF WorkInv
<1>2. CASE CheckoutEnds
  <2>1. SUFFICES ASSUME NEW p \in Proc PROVE ReliesOn(p)'
    BY <1>2 DEF WorkInv, Apart, Bill, CheckoutEnds
  <2>2. UNCHANGED <<op, inv, doing, work>>
    BY <1>2 DEF CheckoutEnds
  <2>3. \A i \in Invoice : \A n, c : Made(i, n, c) /\ c # "open" => Made(i, n, c)'
    <3>1. PICK j \in Invoice : \E m \in DOMAIN checkouts[j] : \E c \in {"paid", "failed"} :
            checkouts[j][m] = "open" /\ checkouts' = [checkouts EXCEPT ![j][m] = c]
      BY <1>2 DEF CheckoutEnds
    <3>2. PICK m \in DOMAIN checkouts[j], c \in {"paid", "failed"} :
            checkouts[j][m] = "open" /\ checkouts' = [checkouts EXCEPT ![j][m] = c]
      BY <3>1
    <3>3. QED
      BY <3>2 DEF BillingTypeOK, Made
  <2>4. ReliesOn(p)
    BY DEF WorkInv
  <2>5. Alone("enforce") => EnforceInv(p)'
    BY <2>2, <2>4 DEF ReliesOn, EnforceInv
  <2>6. QED
    BY <2>2, <2>3, <2>4, <2>5 DEF ReliesOn, Bill, Made
<1>3. CASE DueDatePasses
  <2>1. SUFFICES ASSUME NEW p \in Proc PROVE ReliesOn(p)'
    BY <1>3 DEF WorkInv, Apart, Bill, DueDatePasses
  <2>2. UNCHANGED <<op, checkouts, doing, work>> /\ \A i \in Invoice : inv'[i].status = inv[i].status
    BY <1>3 DEF BillingTypeOK, Invoices, DueDatePasses
  <2>3. doing[p] \notin {"enforce", "suspend", "enforced"}
    BY <1>3 DEF DueDatePasses, Handler
  <2>4. EnforceInv(p)'
    BY <2>2, <2>3 DEF EnforceInv
  <2>5. ReliesOn(p)
    BY DEF WorkInv
  <2>6. QED
    BY <2>2, <2>4, <2>5 DEF ReliesOn, Bill, Made
<1>4. CASE UNCHANGED <<op, inv, checkouts, doing, work>>
  BY <1>4 DEF WorkInv, ReliesOn, EnforceInv, Apart, Bill, Made
<1>5. QED
  BY <1>1, <1>2, <1>3, <1>4 DEF BillingNext, TrialEnds, billing_vars

-----------------------------------------------------------------------------
(* The operator's row                                                      *)

\* Only a suspended operator has a reason for it.
ReasonInv == op.reason # "none" => op.status = "suspended"

\* What a step may do to the row: settle an invoice, move it as the platform
\* owner says, bill it after its trial, or suspend it for a debt it has.
SuspendedFor(o, b) == o = [status |-> "suspended", billing |-> b, reason |-> "billing"]

Indebted == \E i \in Invoice : inv[i].status = "overdue" /\ inv[i].due = 2

RowMoves ==
  \/ op' = op
  \/ op' = Settled(op)
  \/ moves' # moves /\ \E status \in Transitions[op.status] : op' = Moved(op, status)
  \/ /\ op' = [op EXCEPT !.billing = "active"]
     /\ Alone("trial") => op.billing = "trial"
  \/ /\ \E b \in {op.billing, "past_due"} : SuspendedFor(op', b)
     /\ Alone("enforce") => op.status = "approved" /\ Indebted'

LEMMA CommitMoves ==
  ASSUME BillingTypeOK, WorkInv, NEW p \in Proc, enforcement_commits(p), op' # op
  PROVE  /\ \E b \in {op.billing, "past_due"} : SuspendedFor(op', b)
         /\ Alone("enforce") => op.status = "approved" /\ Indebted'
<1>1. /\ work[p].todo # {}
      /\ op' = [status  |-> "suspended",
                billing |-> IF work[p].op.billing = "past_due" THEN op.billing
                            ELSE "past_due",
                reason  |-> "billing"]
  BY DEF enforcement_commits
<1>2. \E b \in {op.billing, "past_due"} : SuspendedFor(op', b)
  BY <1>1 DEF SuspendedFor
<1>3. ASSUME Alone("enforce")
      PROVE  op.status = "approved" /\ Indebted'
  <2>1. EnforceInv(p) /\ doing[p] = "enforced"
    BY <1>3 DEF WorkInv, ReliesOn, enforcement_commits
  <2>2. PICK i \in work[p].todo : (i \in work[p].marked \/ inv[i].status = "overdue") /\ inv[i].due = 2
    BY <1>1, <2>1 DEF EnforceInv
  <2>3. i \in Invoice
    BY <2>2 DEF BillingTypeOK, Works
  <2>4. inv'[i] = IF i \in work[p].marked
                  THEN [inv[i] EXCEPT !.status = "overdue", !.warned = TRUE] ELSE inv[i]
    BY <2>3 DEF enforcement_commits
  <2>5. inv'[i].status = "overdue" /\ inv'[i].due = 2
    BY <2>2, <2>3, <2>4 DEF BillingTypeOK, Invoices
  <2>6. op.status = "approved"
    BY <1>1, <2>1 DEF EnforceInv
  <2>7. Indebted'
    BY <2>3, <2>5 DEF Indebted
  <2>8. QED
    BY <2>6, <2>7
<1>4. QED
  BY <1>2, <1>3

LEMMA RowStep ==
  ASSUME BillingTypeOK, WorkInv, [BillingNext]_billing_vars
  PROVE  RowMoves
<1>1. ASSUME NEW p \in Proc, webhook_settles(p) \/ record_payment(p)
      PROVE  RowMoves
  BY <1>1 DEF RowMoves, webhook_settles, record_payment, settle_invoice
<1>2. ASSUME NEW p \in Proc, change_status(p)
      PROVE  RowMoves
  <2>1. moves' # moves
    BY <1>2 DEF BillingTypeOK, change_status
  <2>2. QED
    BY <1>2, <2>1 DEF RowMoves, change_status
<1>3. ASSUME NEW p \in Proc, trial_ended(p)
      PROVE  RowMoves
  BY <1>3 DEF RowMoves, WorkInv, ReliesOn, trial_ended
<1>4. CASE op' = op
  BY <1>4 DEF RowMoves
<1>5. ASSUME NEW p \in Proc, enforcement_commits(p)
      PROVE  RowMoves
  BY <1>4, <1>5, CommitMoves DEF RowMoves
<1>6. QED
  BY <1>1, <1>2, <1>3, <1>4, <1>5 DEF BillingNext, ProcStep, billing_vars, CheckoutEnds, DueDatePasses,
     TrialEnds, platform_billing_webhook, reverse_payment, extend_trial, waive_invoice,
     invoice_waived, pay_invoice, initiate_invoice_payment, checkout_stored,
     generate_monthly_invoices, create_invoice, handle_trial_expiry, enforce_billing, mark_overdue,
     select_candidates, suspend_operator, Rollback

\* A payment leaves nobody past due or suspended for a debt, and a suspension
\* the platform owner imposed in place.
LEMMA SettledWell ==
  ASSUME BillingTypeOK, ReasonInv, op' = Settled(op)
  PROVE  /\ op'.billing # "past_due" /\ op'.reason # "billing" /\ ReasonInv'
         /\ op.reason = "manual" => op'.status = "suspended" /\ op'.reason = "manual"
BY DEF BillingTypeOK, Operators, ReasonInv, Settled, IsBillingSuspension, Normalised, Holder

LEMMA MovedWell ==
  ASSUME BillingTypeOK, ReasonInv, NEW status \in Transitions[op.status], op' = Moved(op, status)
  PROVE  /\ op'.reason # "billing" /\ ReasonInv' /\ CancelledNotBilled'
         /\ op'.billing = "past_due" => op.billing = "past_due"
<1>1. status \in {"approved", "suspended", "cancelled"}
  BY DEF BillingTypeOK, Operators, Transitions
<1>2. CASE status = "approved"
  BY <1>2 DEF BillingTypeOK, Operators, ReasonInv, CancelledNotBilled, Moved, Resumed
<1>3. CASE status = "suspended"
  BY <1>3 DEF BillingTypeOK, Operators, ReasonInv, CancelledNotBilled, Moved, Suspended
<1>4. CASE status = "cancelled"
  BY <1>4 DEF BillingTypeOK, Operators, ReasonInv, CancelledNotBilled, Moved
<1>5. QED
  BY <1>1, <1>2, <1>3, <1>4

LEMMA ReasonStep ==
  ASSUME BillingTypeOK, ReasonInv, RowMoves
  PROVE  ReasonInv'
<1>1. CASE op' = op
  BY <1>1 DEF ReasonInv
<1>2. CASE op' = [op EXCEPT !.billing = "active"]
  BY <1>2 DEF BillingTypeOK, Operators, ReasonInv
<1>3. ASSUME NEW b, SuspendedFor(op', b)
      PROVE  ReasonInv'
  BY <1>3 DEF SuspendedFor, ReasonInv
<1>4. QED
  BY <1>1, <1>2, <1>3, SettledWell, MovedWell DEF RowMoves

LEMMA CancelledStep ==
  ASSUME Alone("trial"), BillingTypeOK, ReasonInv, CancelledNotBilled, RowMoves
  PROVE  CancelledNotBilled'
<1>1. CASE op' = op
  BY <1>1 DEF CancelledNotBilled
<1>2. CASE op.billing = "trial" /\ op' = [op EXCEPT !.billing = "active"]
  BY <1>2 DEF BillingTypeOK, Operators, CancelledNotBilled
<1>3. ASSUME NEW b, SuspendedFor(op', b)
      PROVE  CancelledNotBilled'
  BY <1>3 DEF SuspendedFor, CancelledNotBilled
<1>4. CASE op' = Settled(op)
  BY <1>4 DEF BillingTypeOK, Operators, CancelledNotBilled, Settled, IsBillingSuspension, Normalised, Holder
<1>5. QED
  BY <1>1, <1>2, <1>3, <1>4, MovedWell DEF RowMoves

-----------------------------------------------------------------------------
(* Debts                                                                   *)

\* An overdue or waived invoice stays one until it is paid.
LEMMA DebtsStay ==
  ASSUME BillingTypeOK, [BillingNext]_billing_vars, op' # Settled(op),
         NEW i \in Invoice, inv[i].status \in {"overdue", "waived"}
  PROVE  inv'[i].status \in {"overdue", "waived"}
<1>1. ASSUME NEW p \in Proc, webhook_settles(p) \/ record_payment(p)
      PROVE  inv' = inv
  BY <1>1 DEF webhook_settles, record_payment, settle_invoice
<1>2. ASSUME NEW p \in Proc, reverse_payment(p)
      PROVE  inv'[i].status = inv[i].status
  BY <1>2 DEF BillingTypeOK, Reversible, reverse_payment
<1>3. ASSUME NEW p \in Proc, invoice_waived(p)
      PROVE  inv'[i].status \in {inv[i].status, "waived"}
  BY <1>3 DEF BillingTypeOK, Invoices, invoice_waived
<1>4. ASSUME NEW p \in Proc, checkout_stored(p)
      PROVE  inv'[i].status = inv[i].status
  BY <1>4 DEF BillingTypeOK, Invoices, checkout_stored
<1>5. ASSUME NEW p \in Proc, create_invoice(p)
      PROVE  inv'[i].status = inv[i].status
  BY <1>5 DEF BillingTypeOK, Invoices, create_invoice
<1>6. ASSUME NEW p \in Proc, enforcement_commits(p)
      PROVE  inv'[i].status \in {inv[i].status, "overdue"}
  BY <1>6 DEF BillingTypeOK, Invoices, enforcement_commits
<1>7. CASE DueDatePasses
  BY <1>7 DEF BillingTypeOK, Invoices, DueDatePasses
<1>8. QED
  BY <1>1, <1>2, <1>3, <1>4, <1>5, <1>6, <1>7 DEF BillingNext, ProcStep, billing_vars, CheckoutEnds, TrialEnds,
     platform_billing_webhook, change_status, extend_trial, waive_invoice, pay_invoice,
     initiate_invoice_payment, generate_monthly_invoices, handle_trial_expiry, trial_ended,
     enforce_billing, mark_overdue, select_candidates, suspend_operator, Rollback

LEMMA DebtStep ==
  ASSUME Alone("enforce"), BillingTypeOK, WorkInv, ReasonInv, DebtBehindStatus, [BillingNext]_billing_vars
  PROVE  DebtBehindStatus'
<1>1. CASE op' = Settled(op)
  BY <1>1, SettledWell DEF DebtBehindStatus
<1>2. CASE Indebted'
  BY <1>2 DEF Indebted, DebtBehindStatus
<1>3. CASE op' # Settled(op) /\ ~Indebted'
  <2>1. op'.billing = "past_due" \/ op'.reason = "billing"
          => op.billing = "past_due" \/ op.reason = "billing"
    <3>1. CASE op' = op
      BY <3>1
    <3>2. CASE op' = [op EXCEPT !.billing = "active"]
      BY <3>2 DEF BillingTypeOK, Operators
    <3>3. QED
      BY <1>3, <3>1, <3>2, RowStep, MovedWell DEF RowMoves
  <2>2. QED
    BY <1>3, <2>1, DebtsStay DEF DebtBehindStatus
<1>4. QED
  BY <1>1, <1>2, <1>3

-----------------------------------------------------------------------------
(* Payments                                                                *)

\* A payment by hand that stands, in a place of the ledger.
Stands(i, n) == n \in DOMAIN ledger[i] /\ ledger[i][n] = "paid"

PaidInv(i) ==
  /\ inv[i].status = "paid" =>
       LET r == inv[i].ref
       IN  \/ r.kind = "checkout" /\ Made(i, r.n, "paid")
           \/ r.kind = "manual" /\ Stands(i, r.n)
  /\ \A n : Stands(i, n) => inv[i].status = "paid" /\ inv[i].ref = [kind |-> "manual", n |-> n]

LedgerInv == \A i \in Invoice : PaidInv(i)

LEMMA LedgerInvAgrees == LedgerInv => LedgerAgrees
BY DEF LedgerInv, PaidInv, LedgerAgrees, Made, Stands

\* An invoice is untouched as far as its payments go, or stays unpaid.
LEMMA PaidStep ==
  ASSUME BillingTypeOK, WorkInv, [BillingNext]_billing_vars, NEW i \in Invoice, PaidInv(i),
         ledger'[i] = ledger[i],
         \/ inv'[i].status = inv[i].status /\ inv'[i].ref = inv[i].ref
         \/ inv[i].status # "paid" /\ inv'[i].status # "paid"
  PROVE  PaidInv(i)'
<1>1. \A n : Made(i, n, "paid") => Made(i, n, "paid")'
  BY PaidStays
<1>2. \A n : Stands(i, n)' <=> Stands(i, n)
  BY DEF Stands
<1>3. QED
  BY <1>1, <1>2 DEF PaidInv

LEMMA WebhookPaid ==
  ASSUME BillingTypeOK, WorkInv, [BillingNext]_billing_vars, LedgerInv, NEW p \in Proc, webhook_settles(p)
  PROVE  LedgerInv'
<1>1. SUFFICES ASSUME NEW i \in Invoice PROVE PaidInv(i)'
  BY DEF LedgerInv
<1>2. PaidInv(i) /\ ledger'[i] = ledger[i]
  BY DEF LedgerInv, webhook_settles
<1>3. CASE UNCHANGED inv \/ i # Bill(p)
  <2>1. inv'[i] = inv[i]
    BY <1>3 DEF BillingTypeOK, webhook_settles, settle_invoice
  <2>2. QED
    BY <1>2, <2>1, PaidStep
<1>4. CASE StillUnpaid(i) /\ i = Bill(p) /\ settle_invoice(i, [kind |-> "checkout", n |-> work[p].n])
  <2>0. PICK m : m = work[p].n
    OBVIOUS
  <2>1. inv'[i].status = "paid" /\ inv'[i].ref = [kind |-> "checkout", n |-> m]
    BY <1>4, <2>0 DEF BillingTypeOK, Invoices, settle_invoice
  <2>2. Made(i, m, "paid")
    BY <1>4, <2>0 DEF WorkInv, ReliesOn, webhook_settles
  <2>3. Made(i, m, "paid")'
    BY <2>2, PaidStays
  <2>4. \A n : ~Stands(i, n)'
    BY <1>2, <1>4 DEF PaidInv, Stands, StillUnpaid
  <2>5. QED
    <3>1. inv'[i].ref.kind = "checkout" /\ inv'[i].ref.n = m
      BY <2>1
    <3>2. QED
      BY <2>3, <2>4, <3>1 DEF PaidInv, Made
<1>5. QED
  BY <1>3, <1>4 DEF webhook_settles

LEMMA RecordPaid ==
  ASSUME BillingTypeOK, WorkInv, [BillingNext]_billing_vars, LedgerInv, NEW p \in Proc, record_payment(p)
  PROVE  LedgerInv'
<1>1. SUFFICES ASSUME NEW i \in Invoice PROVE PaidInv(i)'
  BY DEF LedgerInv
<1>2. PICK j \in Invoice :
        /\ inv[j].status \in Payable
        /\ ledger' = [ledger EXCEPT ![j] = Append(@, "paid")]
        /\ settle_invoice(j, [kind |-> "manual", n |-> Len(ledger'[j])])
  BY DEF record_payment
<1>3. PaidInv(i)
  BY DEF LedgerInv
<1>4. CASE i # j
  <2>1. inv'[i] = inv[i] /\ ledger'[i] = ledger[i]
    BY <1>2, <1>4 DEF BillingTypeOK, settle_invoice
  <2>2. QED
    BY <1>3, <2>1, PaidStep
<1>5. CASE i = j
  <2>1. ledger[i] \in Seq({"paid", "reversed"}) /\ ledger'[i] = Append(ledger[i], "paid")
    BY <1>2, <1>5 DEF BillingTypeOK
  <2>2. PICK m \in Nat : m = Len(ledger[i]) + 1
    BY <2>1
  <2>3. /\ Len(ledger'[i]) = m /\ DOMAIN ledger'[i] = 1 .. m
        /\ ledger'[i][m] = "paid"
        /\ \A n \in 1 .. m - 1 : ledger'[i][n] = ledger[i][n] /\ n \in DOMAIN ledger[i]
    BY <2>1, <2>2, AppendProperties
  <2>4. inv'[i].status = "paid" /\ inv'[i].ref = [kind |-> "manual", n |-> m]
    BY <1>2, <1>5, <2>3 DEF BillingTypeOK, Invoices, settle_invoice
  <2>5. \A n : ~Stands(i, n)
    BY <1>2, <1>3, <1>5 DEF PaidInv, Payable
  <2>6. \A n : Stands(i, n)' => n = m
    BY <2>2, <2>3, <2>5 DEF Stands
  <2>7. Stands(i, m)'
    BY <2>2, <2>3, <2>1 DEF Stands
  <2>8. QED
    BY <2>4, <2>6, <2>7 DEF PaidInv
<1>6. QED
  BY <1>4, <1>5

LEMMA ReversePaid ==
  ASSUME BillingTypeOK, WorkInv, [BillingNext]_billing_vars, LedgerInv, NEW p \in Proc, reverse_payment(p)
  PROVE  LedgerInv'
<1>1. SUFFICES ASSUME NEW i \in Invoice PROVE PaidInv(i)'
  BY DEF LedgerInv
<1>2. PICK j \in Invoice : \E n \in DOMAIN ledger[j] :
        /\ Reversible(j, n)
        /\ ledger' = [ledger EXCEPT ![j][n] = "reversed"]
        /\ inv' = [inv EXCEPT ![j].status = "issued", ![j].ref = NoReference]
  BY DEF reverse_payment
<1>3. PICK n \in DOMAIN ledger[j] :
        /\ Reversible(j, n)
        /\ ledger' = [ledger EXCEPT ![j][n] = "reversed"]
        /\ inv' = [inv EXCEPT ![j].status = "issued", ![j].ref = NoReference]
  BY <1>2
<1>4. PaidInv(i)
  BY DEF LedgerInv
<1>5. CASE i # j
  <2>1. inv'[i] = inv[i] /\ ledger'[i] = ledger[i]
    BY <1>3, <1>5 DEF BillingTypeOK
  <2>2. QED
    BY <1>4, <2>1, PaidStep
<1>6. CASE i = j
  <2>1. inv'[i].status = "issued"
    BY <1>3, <1>6 DEF BillingTypeOK, Invoices
  <2>2. \A m : Stands(i, m) => m = n
    <3>1. SUFFICES ASSUME NEW m, Stands(i, m) PROVE m = n
      OBVIOUS
    <3>2. inv[i].ref = [kind |-> "manual", n |-> n] /\ inv[i].ref = [kind |-> "manual", n |-> m]
      BY <1>3, <1>4, <1>6, <3>1 DEF PaidInv, Reversible
    <3>3. inv[i].ref.n = n /\ inv[i].ref.n = m
      BY <3>2
    <3>4. QED
      BY <3>3
  <2>3. \A m : ~Stands(i, m)'
    BY <1>3, <1>6, <2>2 DEF BillingTypeOK, Stands
  <2>4. QED
    BY <2>1, <2>3 DEF PaidInv
<1>7. QED
  BY <1>5, <1>6

LEMMA LedgerStep ==
  ASSUME Alone("waive"), Alone("checkout"), Alone("enforce"),
         BillingTypeOK, WorkInv, LedgerInv, [BillingNext]_billing_vars
  PROVE  LedgerInv'
<1>1. CASE \E p \in Proc : webhook_settles(p) \/ record_payment(p) \/ reverse_payment(p)
  BY <1>1, WebhookPaid, RecordPaid, ReversePaid
<1>2. CASE ~ \E p \in Proc : webhook_settles(p) \/ record_payment(p) \/ reverse_payment(p)
  <2>1. SUFFICES ASSUME NEW i \in Invoice PROVE PaidInv(i)'
    BY DEF LedgerInv
  <2>2. UNCHANGED ledger
    BY <1>2 DEF BillingNext, ProcStep, billing_vars, CheckoutEnds, DueDatePasses, TrialEnds,
       platform_billing_webhook, change_status, extend_trial, waive_invoice, invoice_waived,
       pay_invoice, initiate_invoice_payment, checkout_stored, generate_monthly_invoices,
       create_invoice, handle_trial_expiry, trial_ended, enforce_billing, mark_overdue,
       select_candidates, suspend_operator, enforcement_commits, Rollback
  <2>3. \/ inv'[i].status = inv[i].status /\ inv'[i].ref = inv[i].ref
        \/ inv[i].status # "paid" /\ inv'[i].status # "paid"
    <3>0. inv[i] \in Invoices
      BY DEF BillingTypeOK
    <3>1. ASSUME NEW p \in Proc, invoice_waived(p) \/ checkout_stored(p)
          PROVE  \/ inv'[i].status = inv[i].status /\ inv'[i].ref = inv[i].ref
                 \/ inv[i].status # "paid" /\ inv'[i].status # "paid"
      <4>1. Bill(p) \in Invoice /\ inv[Bill(p)].status # "paid"
        BY <3>1 DEF WorkInv, ReliesOn, Payable, invoice_waived, checkout_stored
      <4>2. CASE i # Bill(p)
        <5>1. inv'[i] = inv[i]
          BY <3>1, <4>2 DEF BillingTypeOK, invoice_waived, checkout_stored
        <5>2. QED
          BY <5>1
      <4>3. CASE i = Bill(p)
        <5>1. inv'[i].status \in {"waived", inv[i].status}
          BY <3>1, <4>3 DEF BillingTypeOK, Invoices, invoice_waived, checkout_stored
        <5>2. QED
          BY <4>1, <4>3, <5>1
      <4>4. QED
        BY <4>2, <4>3
    <3>2. ASSUME NEW p \in Proc, create_invoice(p)
          PROVE  \/ inv'[i].status = inv[i].status /\ inv'[i].ref = inv[i].ref
                 \/ inv[i].status # "paid" /\ inv'[i].status # "paid"
      <4>1. PICK j \in Invoice : inv[j].status = "none" /\ inv' = [inv EXCEPT ![j].status = "issued"]
        BY <3>2 DEF create_invoice
      <4>2. CASE i # j
        BY <4>1, <4>2 DEF BillingTypeOK
      <4>3. CASE i = j
        BY <3>0, <4>1, <4>3 DEF BillingTypeOK, Invoices
      <4>4. QED
        BY <4>2, <4>3
    <3>3. ASSUME NEW p \in Proc, enforcement_commits(p)
          PROVE  \/ inv'[i].status = inv[i].status /\ inv'[i].ref = inv[i].ref
                 \/ inv[i].status # "paid" /\ inv'[i].status # "paid"
      <4>1. i \in work[p].marked => inv[i].status = "issued"
        BY <3>3 DEF WorkInv, ReliesOn, EnforceInv, enforcement_commits
      <4>2. inv'[i] = IF i \in work[p].marked
                      THEN [inv[i] EXCEPT !.status = "overdue", !.warned = TRUE] ELSE inv[i]
        BY <3>3 DEF enforcement_commits
      <4>3. \/ inv'[i] = inv[i]
            \/ inv[i].status = "issued" /\ inv'[i].status = "overdue"
        BY <3>0, <4>1, <4>2 DEF Invoices
      <4>4. QED
        BY <4>3
    <3>4. CASE DueDatePasses
      BY <3>4 DEF BillingTypeOK, Invoices, DueDatePasses
    <3>5. CASE UNCHANGED inv
      BY <3>5
    <3>6. QED
      BY <1>2, <3>1, <3>2, <3>3, <3>4, <3>5 DEF BillingNext, ProcStep, billing_vars, CheckoutEnds, TrialEnds,
         platform_billing_webhook, change_status, extend_trial, waive_invoice, pay_invoice,
         initiate_invoice_payment, generate_monthly_invoices, handle_trial_expiry, trial_ended,
         enforce_billing, mark_overdue, select_candidates, suspend_operator, Rollback
  <2>4. PaidInv(i)
    BY DEF LedgerInv
  <2>5. QED
    BY <2>2, <2>3, <2>4, PaidStep
<1>3. QED
  BY <1>1, <1>2

-----------------------------------------------------------------------------
(* Theorems                                                                *)

\* What holds whichever handlers overlap.
Inv == BillingTypeOK /\ AloneInv /\ WorkInv /\ ReasonInv

LEMMA InitInv == ASSUME BillingInit PROVE Inv
<1>1. op \in Operators /\ op.status = "approved" /\ op.reason = "none" /\ op.billing # "past_due"
  <2>1. PICK b \in {"trial", "active"} : op = [Holder EXCEPT !.billing = b]
    <3>1. Holder = [Holder EXCEPT !.billing = "active"]
      BY DEF Holder
    <3>2. QED
      BY <3>1 DEF BillingInit
  <2>2. op = [status |-> "approved", billing |-> b, reason |-> "none"]
    BY <2>1 DEF Holder
  <2>3. QED
    BY <2>2 DEF Operators
<1>2. NoBill \in Invoices /\ NoBill.status = "none"
  BY DEF NoBill, Invoices, NoReference, References
<1>3. BillingTypeOK
  <2>1. trial \in {"none", "running", "over"}
    BY DEF BillingInit
  <2>2. inv \in [Invoice -> Invoices]
    BY <1>2 DEF BillingInit
  <2>3. checkouts \in [Invoice -> Seq(Checkouts)] /\ ledger \in [Invoice -> Seq({"paid", "reversed"})]
    BY DEF BillingInit
  <2>4. moves \in 0..MaxMoves
    BY BillingAssumption DEF BillingInit, BillingAssumption
  <2>5. doing \in [Proc -> BillingSteps] /\ work \in [Proc -> Works]
    BY NoWorkType DEF BillingInit, BillingSteps
  <2>6. QED
    BY <1>1, <2>1, <2>2, <2>3, <2>4, <2>5 DEF BillingTypeOK
<1>4. AloneInv /\ WorkInv
  <2>1. \A p \in Proc : doing[p] = "idle"
    BY DEF BillingInit
  <2>2. QED
    BY <2>1 DEF AloneInv, WorkInv, Apart, ReliesOn, EnforceInv
<1>5. ReasonInv
  BY <1>1 DEF ReasonInv
<1>6. QED
  BY <1>3, <1>4, <1>5 DEF Inv

LEMMA NextInv == ASSUME Inv, [BillingNext]_billing_vars PROVE Inv'
BY WorkHeld, TypeStep, AloneStep, WorkStep, RowStep, ReasonStep DEF Inv

LEMMA SpecInv == BillingSpec => []Inv
<1>1. Inv /\ [BillingNext]_billing_vars => Inv'
  BY NextInv
<1>2. QED
  BY <1>1, InitInv, PTL DEF BillingSpec

\* Every row, loaded copy and stored reference is one the code can hold,
\* whichever handlers run together.
THEOREM BillingTypes == BillingSpec => []BillingTypeOK
<1>1. Inv => BillingTypeOK
  BY DEF Inv
<1>2. QED
  BY <1>1, SpecInv, PTL

\* A paid invoice names the payment that settled it, and a payment by hand
\* that stands has settled its invoice, whichever of the webhook,
\* record_payment and reverse_payment run together, beside whatever else does
\* not write an invoice it has read without a lock.
THEOREM LedgerAlwaysAgrees ==
  ASSUME Alone("waive"), Alone("checkout"), Alone("enforce")
  PROVE  BillingSpec => []LedgerAgrees
<1>1. ASSUME BillingInit PROVE LedgerInv
  <2>1. \A i \in Invoice : inv[i].status = "none" /\ ledger[i] = <<>>
    BY <1>1 DEF BillingInit, NoBill
  <2>2. \A i \in Invoice : \A n : ~Stands(i, n)
    BY <2>1 DEF Stands
  <2>3. QED
    BY <2>1, <2>2 DEF LedgerInv, PaidInv
<1>2. Inv /\ LedgerInv /\ [BillingNext]_billing_vars => LedgerInv'
  BY LedgerStep DEF Inv
<1>3. QED
  BY <1>1, <1>2, SpecInv, LedgerInvAgrees, PTL DEF BillingSpec

\* An operator past due, or suspended by the billing, has an invoice that is
\* overdue or was waived: settle_invoice puts the operator back.  Only the
\* enforcement run has to run alone.
THEOREM StatusHasDebt == ASSUME Alone("enforce") PROVE BillingSpec => []DebtBehindStatus
<1>1. ASSUME BillingInit PROVE DebtBehindStatus
  BY <1>1 DEF BillingInit, Holder, DebtBehindStatus
<1>2. Inv /\ DebtBehindStatus /\ [BillingNext]_billing_vars => DebtBehindStatus'
  BY DebtStep DEF Inv
<1>3. QED
  BY <1>1, <1>2, SpecInv, PTL DEF BillingSpec

\* A cancelled operator stays out of billing, whatever settles or ends later,
\* provided that the run that ends trials runs alone.
THEOREM CancelledStaysOut == ASSUME Alone("trial") PROVE BillingSpec => []CancelledNotBilled
<1>1. ASSUME BillingInit PROVE CancelledNotBilled
  BY <1>1 DEF BillingInit, Holder, CancelledNotBilled
<1>2. Inv /\ CancelledNotBilled /\ [BillingNext]_billing_vars => CancelledNotBilled'
  BY RowStep, CancelledStep DEF Inv
<1>3. QED
  BY <1>1, <1>2, SpecInv, PTL DEF BillingSpec

\* Only the platform owner lifts a suspension the platform owner imposed:
\* settle_invoice and the enforcement run leave it in place.
THEOREM OwnersSuspensionStands == ASSUME Alone("enforce") PROVE BillingSpec => ManualSuspensionStands
<1>1. ASSUME Inv, [BillingNext]_billing_vars, op.reason = "manual", moves' = moves
      PROVE  op'.status = "suspended" /\ op'.reason = "manual"
  <2>1. op.status = "suspended"
    BY <1>1 DEF Inv, ReasonInv
  <2>2. CASE op' = op
    BY <1>1, <2>1, <2>2
  <2>3. CASE op' = [op EXCEPT !.billing = "active"]
    BY <1>1, <2>1, <2>3 DEF Inv, BillingTypeOK, Operators
  <2>4. op.status # "approved"
    BY <2>1
  <2>5. QED
    BY <1>1, <2>2, <2>3, <2>4, RowStep, SettledWell DEF Inv, RowMoves
<1>2. Inv /\ [BillingNext]_billing_vars
        => [op.reason = "manual" /\ moves' = moves
              => op'.status = "suspended" /\ op'.reason = "manual"]_billing_vars
  BY <1>1
<1>3. QED
  BY <1>2, SpecInv, PTL DEF BillingSpec, ManualSuspensionStands

\* The enforcement run suspends an operator only with an invoice that is
\* overdue and past its grace period as the suspension is committed.
THEOREM SuspensionHasDebt == ASSUME Alone("enforce") PROVE BillingSpec => SuspendedForDebt
<1>1. ASSUME Inv, [BillingNext]_billing_vars, op.reason # "billing", op'.reason = "billing"
      PROVE  Indebted'
  <2>1. CASE op' = op
    BY <1>1, <2>1
  <2>2. CASE op' = [op EXCEPT !.billing = "active"]
    BY <1>1, <2>2 DEF Inv, BillingTypeOK, Operators
  <2>3. QED
    BY <1>1, <2>1, <2>2, RowStep, SettledWell, MovedWell DEF Inv, RowMoves
<1>2. Inv /\ [BillingNext]_billing_vars
        => [op.reason # "billing" /\ op'.reason = "billing"
              => \E i \in Invoice : inv'[i].status = "overdue" /\ inv'[i].due = 2]_billing_vars
  BY <1>1 DEF Indebted
<1>3. QED
  BY <1>2, SpecInv, PTL DEF BillingSpec, SuspendedForDebt

-----------------------------------------------------------------------------
(* One checkout that can be paid.                                          *)

\* No payment by hand has been taken back.
NothingReversed == \A i \in Invoice : \A n \in DOMAIN ledger[i] : ledger[i][n] # "reversed"

\* Until an invoice is closed, a checkout of it that is open is the stored one.
LinkOK(i) ==
  /\ inv[i].url => inv[i].ref.kind # "none"
  /\ inv[i].status \notin {"paid", "waived"} =>
       /\ inv[i].ref.kind # "manual"
       /\ \A n : Made(i, n, "open") => inv[i].url /\ inv[i].ref = [kind |-> "checkout", n |-> n]

OneOpen(i) == \A m, n : Made(i, m, "open") /\ Made(i, n, "open") => m = n

\* A checkout under way has read what is stored, and opens a new one only when
\* no other is open.
HoldsLink(p) ==
  /\ doing[p] = "checkout" =>
       work[p].bill.url = inv[Bill(p)].url /\ work[p].bill.ref = inv[Bill(p)].ref
  /\ doing[p] = "opened" => \A n : ~Made(Bill(p), n, "open")

LinkInv ==
  /\ \A i \in Invoice : LinkOK(i) /\ OneOpen(i)
  /\ \A p \in Proc : HoldsLink(p)

\* What every step but the storing of a link and a reversal leaves of an invoice:
\* its link, and its reference unless it settles it; nor does it reopen it.
BillKept(i) ==
  /\ inv'[i].url = inv[i].url
  /\ \/ /\ inv'[i].ref = inv[i].ref
        /\ inv[i].status \in {"paid", "waived"} => inv'[i].status \in {"paid", "waived"}
     \/ inv'[i].status = "paid" /\ inv'[i].ref.kind # "none"

LEMMA BillsKept ==
  ASSUME BillingTypeOK, WorkInv, Alone("enforce"), [BillingNext]_billing_vars,
         \A p \in Proc : ~checkout_stored(p) /\ ~reverse_payment(p), NEW i \in Invoice
  PROVE  BillKept(i)
<1>1. inv[i] \in Invoices
  BY DEF BillingTypeOK
<1>2. CASE UNCHANGED inv
  BY <1>2 DEF BillKept
<1>3. ASSUME NEW p \in Proc, webhook_settles(p) \/ record_payment(p)
      PROVE  BillKept(i)
  <2>1. UNCHANGED inv \/ \E j \in Invoice : \E r \in {"checkout", "manual"} : \E n :
          settle_invoice(j, [kind |-> r, n |-> n])
    <3>1. CASE webhook_settles(p)
      <4>1. Bill(p) \in Invoice
        BY <3>1 DEF WorkInv, ReliesOn, webhook_settles
      <4>2. QED
        BY <3>1, <4>1 DEF webhook_settles
    <3>2. CASE record_payment(p)
      BY <3>2 DEF record_payment
    <3>3. QED
      BY <1>3, <3>1, <3>2
  <2>2. ASSUME NEW j \in Invoice, NEW r \in {"checkout", "manual"}, NEW n,
               settle_invoice(j, [kind |-> r, n |-> n])
        PROVE  BillKept(i)
    <3>1. inv' = [inv EXCEPT ![j].status = "paid", ![j].ref = [kind |-> r, n |-> n]]
      BY <2>2 DEF settle_invoice
    <3>2. CASE i = j
      <4>1. /\ inv'[i].url = inv[i].url /\ inv'[i].status = "paid"
            /\ inv'[i].ref = [kind |-> r, n |-> n]
        BY <1>1, <3>1, <3>2 DEF BillingTypeOK, Invoices
      <4>2. inv'[i].ref.kind = r
        BY <4>1
      <4>3. QED
        BY <4>1, <4>2 DEF BillKept
    <3>3. CASE i # j
      BY <3>1, <3>3 DEF BillingTypeOK, BillKept
    <3>4. QED
      BY <3>2, <3>3
  <2>3. QED
    BY <1>2, <2>1, <2>2
<1>4. ASSUME NEW p \in Proc, invoice_waived(p) \/ create_invoice(p)
      PROVE  BillKept(i)
  <2>1. \E j \in Invoice : \E to \in {"issued", "waived"} :
          /\ to = "issued" => inv[j].status = "none"
          /\ inv' = [inv EXCEPT ![j].status = to]
    <3>1. CASE invoice_waived(p)
      <4>1. Bill(p) \in Invoice
        BY <3>1 DEF WorkInv, ReliesOn, invoice_waived
      <4>2. QED
        BY <3>1, <4>1 DEF invoice_waived
    <3>2. CASE create_invoice(p)
      BY <3>2 DEF create_invoice
    <3>3. QED
      BY <1>4, <3>1, <3>2
  <2>2. QED
    BY <1>1, <2>1 DEF BillingTypeOK, Invoices, BillKept
<1>5. ASSUME NEW p \in Proc, enforcement_commits(p)
      PROVE  BillKept(i)
  <2>1. i \in work[p].marked => inv[i].status = "issued"
    BY <1>5 DEF WorkInv, ReliesOn, EnforceInv, enforcement_commits
  <2>2. QED
    BY <1>1, <1>5, <2>1 DEF enforcement_commits, BillingTypeOK, Invoices, BillKept
<1>6. CASE DueDatePasses
  BY <1>1, <1>6 DEF DueDatePasses, BillingTypeOK, Invoices, BillKept
<1>7. QED
  BY <1>2, <1>3, <1>4, <1>5, <1>6 DEF BillingNext, ProcStep, billing_vars, CheckoutEnds, TrialEnds,
     platform_billing_webhook, change_status, extend_trial, waive_invoice, pay_invoice,
     initiate_invoice_payment, generate_monthly_invoices, handle_trial_expiry, trial_ended,
     enforce_billing, mark_overdue, select_candidates, suspend_operator, Rollback

\* A checkout is opened by the storing of its link only.
LEMMA OpenedByStoring ==
  ASSUME BillingTypeOK, [BillingNext]_billing_vars, \A p \in Proc : ~checkout_stored(p),
         NEW i \in Invoice, NEW n, Made(i, n, "open")'
  PROVE  Made(i, n, "open")
<1>1. CASE UNCHANGED checkouts
  BY <1>1 DEF Made
<1>2. CASE CheckoutEnds
  BY <1>2 DEF CheckoutEnds, BillingTypeOK, Made
<1>3. ASSUME NEW p \in Proc, checkouts' = [checkouts EXCEPT ![Bill(p)] = Append(@, "made")]
      PROVE  Made(i, n, "open")
  <2>1. checkouts[i] \in Seq(Checkouts) /\ "made" \in Checkouts
    BY DEF BillingTypeOK, Checkouts
  <2>2. checkouts'[i] = checkouts[i] \/ checkouts'[i] = Append(checkouts[i], "made")
    BY <1>3 DEF BillingTypeOK
  <2>3. \A m \in DOMAIN Append(checkouts[i], "made") : Append(checkouts[i], "made")[m] = "open"
          => m \in DOMAIN checkouts[i] /\ checkouts[i][m] = "open"
    BY <2>1, AppendProperties
  <2>4. QED
    BY <2>2, <2>3 DEF Made
<1>4. QED
  BY <1>1, <1>2, <1>3 DEF BillingNext, ProcStep, billing_vars, DueDatePasses, TrialEnds,
     platform_billing_webhook, webhook_settles, record_payment, reverse_payment, change_status,
     extend_trial, waive_invoice, invoice_waived, pay_invoice, initiate_invoice_payment,
     generate_monthly_invoices, create_invoice, handle_trial_expiry, trial_ended, enforce_billing,
     mark_overdue, select_candidates, suspend_operator, enforcement_commits, Rollback

\* A link is stored when no other checkout is open, so it is the only one.
LEMMA StoredLink ==
  ASSUME BillingTypeOK, WorkInv, LinkInv, NEW p \in Proc, checkout_stored(p), NEW i \in Invoice
  PROVE  LinkOK(i)' /\ OneOpen(i)'
<1>1. doing[p] = "opened" /\ Bill(p) \in Invoice /\ Made(Bill(p), work[p].n, "made")
  BY DEF checkout_stored, WorkInv, ReliesOn
<1>2. CASE i # Bill(p)
  <2>1. inv'[i] = inv[i] /\ checkouts'[i] = checkouts[i]
    BY <1>1, <1>2 DEF checkout_stored, BillingTypeOK
  <2>2. QED
    BY <2>1 DEF LinkInv, LinkOK, OneOpen, Made
<1>3. CASE i = Bill(p)
  <2>1. inv[i] \in Invoices
    BY DEF BillingTypeOK
  <2>2. inv'[i].url /\ inv'[i].ref = [kind |-> "checkout", n |-> work[p].n]
    BY <1>1, <1>3, <2>1 DEF checkout_stored, BillingTypeOK, Invoices
  <2>3. \A n : ~Made(i, n, "open")
    BY <1>1, <1>3 DEF LinkInv, HoldsLink
  <2>4. \A n : Made(i, n, "open")' => n = work[p].n
    BY <1>1, <1>3, <2>3 DEF checkout_stored, BillingTypeOK, Made
  <2>5. QED
    BY <2>2, <2>4 DEF LinkOK, OneOpen
<1>4. QED
  BY <1>2, <1>3

\* A checkout is made only when the stored one is over.
LEMMA MadeWhenOver ==
  ASSUME BillingTypeOK, WorkInv, LinkInv, Alone("checkout"), NEW p \in Proc,
         initiate_invoice_payment(p), doing'[p] = "opened"
  PROVE  \A n : ~Made(Bill(p), n, "open")
<1> DEFINE i == Bill(p)
<1>1. doing[p] = "checkout" /\ i \in Invoice /\ inv[i].status \in Payable
  BY DEF initiate_invoice_payment, WorkInv, ReliesOn
<1>2. work[p].bill.url = inv[i].url /\ work[p].bill.ref = inv[i].ref
  BY <1>1 DEF LinkInv, HoldsLink
<1>3. ~Finish(p)
  BY GotoValue DEF Finish
<1>4. IF work[p].bill.url THEN Over(i, work[p].bill) ELSE checkouts[i] = <<>>
  BY <1>3 DEF initiate_invoice_payment
<1>5. LinkOK(i) /\ inv[i].status \notin {"paid", "waived"}
  BY <1>1 DEF LinkInv, Payable
<1>6. CASE ~inv[i].url
  BY <1>5, <1>6 DEF LinkOK
<1>7. CASE inv[i].url
  <2>1. inv[i].ref.kind \notin {"none", "manual"}
    BY <1>5, <1>7 DEF LinkOK
  <2>2. checkouts[i][inv[i].ref.n] = "failed"
    BY <1>2, <1>4, <1>7, <2>1 DEF Over
  <2>3. ASSUME NEW n, Made(i, n, "open") PROVE FALSE
    <3>1. inv[i].ref = [kind |-> "checkout", n |-> n]
      BY <1>5, <2>3 DEF LinkOK
    <3>2. QED
      BY <2>2, <2>3, <3>1 DEF Made
  <2>4. QED
    BY <2>3
<1>8. QED
  BY <1>6, <1>7

\* The handler that pays an invoice is the only one with these steps.
LEMMA CheckoutSteps ==
  ASSUME BillingTypeOK, NEW p \in Proc, ProcStep(p)
  PROVE  /\ doing'[p] = "checkout" => pay_invoice(p)
         /\ doing'[p] = "opened" => initiate_invoice_payment(p)
<1>1. ~(doing[p] = "idle" /\ UNCHANGED doing /\ doing'[p] \in {"checkout", "opened"})
  OBVIOUS
<1>2. \A step, w : Goes(p, step, w) => doing'[p] = step
  BY GotoValue
<1>3. CASE \/ pay_invoice(p) \/ initiate_invoice_payment(p)
  BY <1>2, <1>3 DEF pay_invoice, initiate_invoice_payment, Finish
<1>4. CASE \/ platform_billing_webhook(p) \/ webhook_settles(p) \/ waive_invoice(p)
           \/ invoice_waived(p) \/ checkout_stored(p) \/ generate_monthly_invoices(p)
           \/ create_invoice(p) \/ handle_trial_expiry(p) \/ trial_ended(p)
           \/ enforce_billing(p) \/ mark_overdue(p) \/ select_candidates(p)
           \/ suspend_operator(p) \/ enforcement_commits(p) \/ Rollback(p)
  <2>1. \E step \in BillingSteps \ {"checkout", "opened"} : \E w : Goes(p, step, w)
    BY <1>4 DEF BillingSteps, Finish, platform_billing_webhook, webhook_settles, waive_invoice,
       invoice_waived, checkout_stored, generate_monthly_invoices, create_invoice,
       handle_trial_expiry, trial_ended, enforce_billing, mark_overdue, select_candidates,
       suspend_operator, enforcement_commits, Rollback
  <2>2. QED
    BY <1>2, <2>1
<1>5. CASE record_payment(p) \/ reverse_payment(p) \/ change_status(p) \/ extend_trial(p)
  BY <1>1, <1>5 DEF record_payment, reverse_payment, change_status, extend_trial, MayStart
<1>6. QED
  BY <1>3, <1>4, <1>5 DEF ProcStep

LEMMA LinksHeld ==
  ASSUME BillingTypeOK, AloneInv, WorkInv, LinkInv, Alone("checkout"), NEW p \in Proc, ProcStep(p),
         NEW q \in Proc
  PROVE  HoldsLink(q)'
<1>1. CASE q # p
  <2>1. doing'[q] \notin {"checkout", "opened"}
    BY <1>1, OthersKeep, OthersOverlap DEF Alone, Handler
  <2>2. QED
    BY <2>1 DEF HoldsLink
<1>2. CASE q = p /\ doing'[p] = "checkout"
  <2>1. PICK i \in Invoice : Goes(p, "checkout", [NoWork EXCEPT !.inv = i, !.bill = inv[i]])
    BY <1>2, CheckoutSteps DEF pay_invoice
  <2>2. work'[p] = [NoWork EXCEPT !.inv = i, !.bill = inv[i]]
    BY <2>1, GotoValue
  <2>3. work'[p].inv = i /\ work'[p].bill = inv[i]
    BY <2>2 DEF NoWork
  <2>4. UNCHANGED inv
    BY <1>2, CheckoutSteps DEF pay_invoice
  <2>5. QED
    BY <1>2, <2>3, <2>4 DEF HoldsLink, Bill
<1>3. CASE q = p /\ doing'[p] = "opened"
  <2>1. initiate_invoice_payment(p) /\ doing[p] = "checkout"
    BY <1>3, CheckoutSteps DEF initiate_invoice_payment
  <2>2. \A n : ~Made(Bill(p), n, "open")
    BY <1>3, <2>1, MadeWhenOver
  <2>3. Bill(p) \in Invoice
    BY <2>1 DEF WorkInv, ReliesOn
  <2>4. ~Finish(p)
    BY <1>3, GotoValue DEF Finish
  <2>5. \E n : Goes(p, "opened", [work[p] EXCEPT !.n = n])
    BY <2>1, <2>4 DEF initiate_invoice_payment
  <2>6. Bill(p)' = Bill(p)
    <3>1. \E n : work'[p] = [work[p] EXCEPT !.n = n]
      BY <2>5, GotoValue
    <3>2. QED
      BY <3>1 DEF Bill, BillingTypeOK, Works
  <2>7. \A r \in Proc : ~checkout_stored(r)
    <3>1. ASSUME NEW r \in Proc, checkout_stored(r) PROVE FALSE
      <4>1. doing[r] = "opened" /\ r # p
        BY <2>1, <3>1 DEF checkout_stored
      <4>2. QED
        BY <2>1, <4>1 DEF AloneInv, Alone, Handler
    <3>2. QED
      BY <3>1
  <2>8. \A i \in Invoice : i = Bill(p) => \A n : ~Made(i, n, "open")'
    BY <2>2, <2>7, OpenedByStoring DEF BillingNext
  <2>9. QED
    BY <1>3, <2>3, <2>6, <2>8 DEF HoldsLink, Made
<1>4. QED
  BY <1>1, <1>2, <1>3 DEF HoldsLink

LEMMA LinkStep ==
  ASSUME BillingTypeOK, AloneInv, WorkInv, LinkInv, NothingReversed',
         Alone("checkout"), Alone("enforce"), [BillingNext]_billing_vars
  PROVE  LinkInv'
<1>1. \A p \in Proc : ~reverse_payment(p)
  <2>1. ASSUME NEW p \in Proc, reverse_payment(p) PROVE FALSE
    <3>1. PICK i \in Invoice : \E n \in DOMAIN ledger[i] :
            ledger' = [ledger EXCEPT ![i][n] = "reversed"]
      BY <2>1 DEF reverse_payment
    <3>2. PICK n \in DOMAIN ledger[i] : ledger' = [ledger EXCEPT ![i][n] = "reversed"]
      BY <3>1
    <3>3. n \in DOMAIN ledger'[i] /\ ledger'[i][n] = "reversed"
      BY <3>2 DEF BillingTypeOK
    <3>4. QED
      BY <3>3 DEF NothingReversed
  <2>2. QED
    BY <2>1
<1>2. CASE \A p \in Proc : ~checkout_stored(p)
  <2>1. \A i \in Invoice : \A n : Made(i, n, "open")' => Made(i, n, "open")
    BY <1>2, OpenedByStoring
  <2>2. ASSUME NEW i \in Invoice
        PROVE  LinkOK(i)' /\ OneOpen(i)'
    <3>1. BillKept(i)
      BY <1>1, <1>2, BillsKept
    <3>2. LinkOK(i) /\ OneOpen(i)
      BY DEF LinkInv
    <3>3. QED
      BY <2>1, <3>1, <3>2 DEF BillKept, LinkOK, OneOpen
  <2>3. ASSUME NEW p \in Proc, ~\E q \in Proc : ProcStep(q)
        PROVE  HoldsLink(p)'
    <3>1. UNCHANGED <<doing, work>>
      BY <2>3 DEF BillingNext, billing_vars, CheckoutEnds, DueDatePasses, TrialEnds
    <3>2. \A i \in Invoice : inv'[i].url = inv[i].url /\ inv'[i].ref = inv[i].ref
      <4>1. CASE UNCHANGED inv
        BY <4>1
      <4>2. CASE DueDatePasses
        BY <4>2 DEF DueDatePasses, BillingTypeOK, Invoices
      <4>3. QED
        BY <2>3, <4>1, <4>2 DEF BillingNext, billing_vars, CheckoutEnds, TrialEnds
    <3>3. doing[p] \in {"checkout", "opened"} => Bill(p) \in Invoice
      BY DEF WorkInv, ReliesOn
    <3>4. HoldsLink(p)
      BY DEF LinkInv
    <3>5. \A i \in Invoice : doing[p] = "opened" /\ i = Bill(p) => \A n : ~Made(i, n, "open")'
      BY <2>1, <3>4 DEF HoldsLink
    <3>6. QED
      BY <3>1, <3>2, <3>3, <3>4, <3>5 DEF HoldsLink, Bill, Made
  <2>4. QED
    BY <2>2, <2>3, LinksHeld DEF LinkInv
<1>3. ASSUME NEW p \in Proc, checkout_stored(p)
      PROVE  LinkInv'
  BY <1>3, StoredLink, LinksHeld DEF LinkInv, ProcStep
<1>4. QED
  BY <1>2, <1>3

LEMMA OneOpenIsOneLive ==
  ASSUME BillingTypeOK, \A i \in Invoice : OneOpen(i)
  PROVE  OneLiveCheckout
<1>1. SUFFICES ASSUME NEW i \in Invoice
               PROVE  Cardinality({n \in DOMAIN checkouts[i] : checkouts[i][n] = "open"}) <= 1
  BY DEF OneLiveCheckout
<1> DEFINE open == {n \in DOMAIN checkouts[i] : checkouts[i][n] = "open"}
<1>2. CASE open = {}
  BY <1>2, FS_EmptySet
<1>3. ASSUME NEW n \in open
      PROVE  Cardinality(open) <= 1
  <2>1. open = {n}
    BY <1>3 DEF OneOpen, Made
  <2>2. Cardinality({n}) = 1
    BY FS_Singleton
  <2>3. QED
    BY <2>1, <2>2
<1>4. QED
  BY <1>2, <1>3

\* As long as no payment by hand is taken back, an invoice has one checkout that
\* can be paid, whatever overlaps but the checkout and the enforcement run: the
\* reversal, which erases the reference of an open checkout, is the cause of the
\* second.
THEOREM OneCheckoutUnlessReversed ==
  ASSUME Alone("checkout"), Alone("enforce")
  PROVE  BillingSpec /\ []NothingReversed => []OneLiveCheckout
<1>1. ASSUME BillingInit PROVE LinkInv
  <2>1. \A i \in Invoice : inv[i] = NoBill /\ checkouts[i] = <<>>
    BY <1>1 DEF BillingInit
  <2>2. \A i \in Invoice : \A n, c : ~Made(i, n, c)
    BY <2>1 DEF Made
  <2>3. \A i \in Invoice : LinkOK(i) /\ OneOpen(i)
    BY <2>1, <2>2 DEF LinkOK, OneOpen, NoBill, NoReference
  <2>4. \A p \in Proc : HoldsLink(p)
    BY <1>1 DEF BillingInit, HoldsLink
  <2>5. QED
    BY <2>3, <2>4 DEF LinkInv
<1>2. Inv /\ LinkInv /\ NothingReversed' /\ [BillingNext]_billing_vars => LinkInv'
  BY LinkStep DEF Inv
<1>3. Inv /\ LinkInv => OneLiveCheckout
  BY OneOpenIsOneLive DEF Inv, LinkInv
<1>4. QED
  BY <1>1, <1>2, <1>3, SpecInv, PTL DEF BillingSpec

-----------------------------------------------------------------------------
(* The promise                                                             *)

Bills == [i \in Invoice |-> BillStage(inv[i])]

Shown == <<Standing(op), Bills>>

LEMMA StageIs ==
  ASSUME NEW b \in Invoices
  PROVE  /\ b.status = "none" => BillStage(b) = "none"
         /\ b.status = "issued" => BillStage(b) = "owed"
         /\ b.status = "overdue" => BillStage(b) = IF b.due = 2 THEN "beyond" ELSE "late"
         /\ b.status = "paid" => BillStage(b) = "settled"
         /\ b.status = "waived" => BillStage(b) = "waived"
BY DEF BillStage, Invoices

LEMMA StandingIs ==
  ASSUME NEW o \in Operators
  PROVE  /\ o.status = "approved" => Standing(o) = "trading"
         /\ o.status = "cancelled" => Standing(o) = "gone"
         /\ o.status = "suspended" => Standing(o) = IF o.reason = "billing" THEN "stopped" ELSE "held"
BY DEF Standing, Operators

\* An invoice comes into being before its checkouts.
BilledInv == \A i \in Invoice : inv[i].status = "none" => checkouts[i] = <<>>

\* A step that shows of the invoices that i moves, and nothing else.
LEMMA MoveShown ==
  ASSUME NEW i \in Invoice, NEW from, NEW to, BillStage(inv[i]) \in from, BillStage(inv'[i]) = to,
         \A j \in Invoice \ {i} : inv'[j] = inv[j]
  PROVE  BillPromise!Move(i, from, to)
<1>1. Bills' = [Bills EXCEPT ![i] = to]
  BY DEF Bills
<1>2. QED
  BY <1>1 DEF Bills, BillPromise!Move

LEMMA SettleShown ==
  ASSUME BillingTypeOK, BillingTypeOK', NEW i \in Invoice, NEW r, settle_invoice(i, r),
         inv[i].status \in {"issued", "overdue", "waived"}
  PROVE  BillPromise!Settle(i)
<1>1. inv[i] \in Invoices /\ inv'[i] \in Invoices /\ op \in Operators /\ op' \in Operators
  BY DEF BillingTypeOK
<1>2. BillStage(inv[i]) \in {"owed", "late", "beyond", "waived"}
  BY <1>1, StageIs
<1>3. inv'[i].status = "paid"
  BY DEF BillingTypeOK, Invoices, settle_invoice
<1>4. BillStage(inv'[i]) = "settled"
  BY <1>1, <1>3, StageIs
<1>5. \A j \in Invoice \ {i} : inv'[j] = inv[j]
  BY DEF BillingTypeOK, settle_invoice
<1>6. BillPromise!Move(i, {"owed", "late", "beyond", "waived"}, "settled")
  BY <1>2, <1>4, <1>5, MoveShown
<1>7. BillPromise!Unpaid \cup {"waived"} = {"owed", "late", "beyond", "waived"}
  BY DEF BillPromise!Unpaid
<1>8. Standing(op') = IF Standing(op) = "stopped" THEN "trading" ELSE Standing(op)
  <2>1. CASE IsBillingSuspension(op)
    <3>1. op'.status = "approved" /\ Standing(op) = "stopped"
      BY <1>1, <2>1, StandingIs DEF settle_invoice, Settled, IsBillingSuspension, Holder
    <3>2. QED
      BY <1>1, <3>1, StandingIs
  <2>2. CASE ~IsBillingSuspension(op)
    <3>1. op'.status = op.status /\ op'.reason = op.reason
      BY <1>1, <2>2 DEF settle_invoice, Settled, Normalised, Operators
    <3>2. Standing(op') = Standing(op)
      BY <3>1 DEF Standing
    <3>3. Standing(op) # "stopped"
      BY <1>1, <2>2, StandingIs DEF IsBillingSuspension, Operators
    <3>4. QED
      BY <3>2, <3>3
  <2>3. QED
    BY <2>1, <2>2
<1>9. QED
  BY <1>6, <1>7, <1>8 DEF BillPromise!Settle

LEMMA NothingShown ==
  ASSUME op'.status = op.status, op'.reason = op.reason,
         \A i \in Invoice : inv'[i].status = inv[i].status /\ inv'[i].due = inv[i].due
  PROVE  UNCHANGED Shown
<1>1. Standing(op') = Standing(op)
  BY DEF Standing
<1>2. \A i \in Invoice : BillStage(inv'[i]) = BillStage(inv[i])
  BY DEF BillStage
<1>3. QED
  BY <1>1, <1>2 DEF Shown, Bills

LEMMA PaymentsShown ==
  ASSUME BillingTypeOK, BillingTypeOK', WorkInv, BilledInv, NEW p \in Proc,
         webhook_settles(p) \/ record_payment(p) \/ reverse_payment(p)
  PROVE  BillPromise!Next \/ UNCHANGED Shown
<1>1. CASE webhook_settles(p)
  <2>1. CASE UNCHANGED <<op, inv>>
    BY <2>1, NothingShown
  <2>2. CASE /\ StillUnpaid(Bill(p))
             /\ settle_invoice(Bill(p), [kind |-> "checkout", n |-> work[p].n])
    <3>1. Bill(p) \in Invoice /\ checkouts[Bill(p)] # <<>>
      BY <1>1 DEF BillingTypeOK, WorkInv, ReliesOn, Made, webhook_settles
    <3>2. inv[Bill(p)].status \in {"issued", "overdue", "waived"}
      BY <2>2, <3>1 DEF BillingTypeOK, Invoices, BilledInv, StillUnpaid
    <3>3. BillPromise!Settle(Bill(p))
      BY <2>2, <3>1, <3>2, SettleShown
    <3>4. QED
      BY <3>1, <3>3 DEF BillPromise!Next
  <2>3. QED
    BY <1>1, <2>1, <2>2 DEF webhook_settles
<1>2. CASE record_payment(p)
  <2>1. PICK i \in Invoice : \E r : inv[i].status \in Payable /\ settle_invoice(i, r)
    BY <1>2 DEF record_payment
  <2>2. BillPromise!Settle(i)
    BY <2>1, SettleShown DEF Payable
  <2>3. QED
    BY <2>2 DEF BillPromise!Next
<1>3. CASE reverse_payment(p)
  <2>1. PICK i \in Invoice :
          /\ inv[i].status = "paid"
          /\ inv' = [inv EXCEPT ![i].status = "issued", ![i].ref = NoReference]
    BY <1>3 DEF reverse_payment, Reversible
  <2>2. inv[i] \in Invoices /\ inv'[i] \in Invoices /\ inv'[i].status = "issued"
    BY <2>1 DEF BillingTypeOK, Invoices
  <2>3. BillStage(inv[i]) = "settled" /\ BillStage(inv'[i]) = "owed"
    BY <2>1, <2>2, StageIs
  <2>4. \A j \in Invoice \ {i} : inv'[j] = inv[j]
    BY <2>1 DEF BillingTypeOK
  <2>5. BillPromise!Move(i, {"settled"}, "owed")
    BY <2>3, <2>4, MoveShown
  <2>6. UNCHANGED Standing(op)
    BY <1>3 DEF reverse_payment
  <2>7. QED
    BY <2>5, <2>6 DEF BillPromise!Next, BillPromise!Reverse
<1>4. QED
  BY <1>1, <1>2, <1>3

LEMMA OwnersShown ==
  ASSUME Alone("waive"), BillingTypeOK, BillingTypeOK', WorkInv, NEW p \in Proc, change_status(p) \/ invoice_waived(p)
  PROVE  BillPromise!Next \/ UNCHANGED Shown
<1>1. CASE change_status(p)
  <2>1. PICK st \in Transitions[op.status] : op' = Moved(op, st)
    BY <1>1 DEF change_status
  <2>2. op \in Operators /\ op' \in Operators
    BY DEF BillingTypeOK
  <2>3. /\ st \in {"approved", "suspended", "cancelled"} /\ st # op.status
        /\ op.status = "cancelled" => st = "approved"
        /\ op.status = "suspended" => st \in {"approved", "cancelled"}
        /\ op.status = "approved" => st \in {"suspended", "cancelled"}
    BY <2>1, <2>2 DEF Operators, Transitions
  <2>4. op'.status = st /\ (st = "suspended" => op'.reason = "manual")
    BY <2>1, <2>3 DEF Moved, Suspended
  <2>5. Standing(op') = IF st = "approved" THEN "trading" ELSE IF st = "cancelled" THEN "gone" ELSE "held"
    BY <2>2, <2>3, <2>4, StandingIs
  <2>6. <<Standing(op), Standing(op')>> \in BillPromise!OwnerMoves
    <3>1. CASE op.status = "approved"
      BY <2>2, <2>3, <2>5, <3>1, StandingIs DEF BillPromise!OwnerMoves
    <3>2. CASE op.status = "suspended"
      BY <2>2, <2>3, <2>5, <3>2, StandingIs DEF BillPromise!OwnerMoves
    <3>3. CASE op.status = "cancelled"
      BY <2>2, <2>3, <2>5, <3>3, StandingIs DEF BillPromise!OwnerMoves
    <3>4. QED
      BY <2>2, <3>1, <3>2, <3>3 DEF Operators
  <2>7. UNCHANGED inv
    BY <1>1 DEF change_status
  <2>8. QED
    BY <2>6, <2>7 DEF BillPromise!Next, BillPromise!OwnerDecides
<1>2. CASE invoice_waived(p)
  <2>1. Bill(p) \in Invoice /\ inv[Bill(p)].status \in Payable
    BY <1>2 DEF WorkInv, ReliesOn, invoice_waived
  <2>2. PICK i \in Invoice : i = Bill(p)
    BY <2>1
  <2>3. inv[i] \in Invoices /\ inv'[i] \in Invoices /\ inv'[i].status = "waived"
    BY <1>2, <2>2 DEF BillingTypeOK, Invoices, invoice_waived
  <2>4. BillStage(inv[i]) \in BillPromise!Unpaid /\ BillStage(inv'[i]) = "waived"
    BY <2>1, <2>2, <2>3, StageIs DEF Payable, BillPromise!Unpaid
  <2>5. \A j \in Invoice \ {i} : inv'[j] = inv[j]
    BY <1>2, <2>2 DEF BillingTypeOK, invoice_waived
  <2>6. BillPromise!Move(i, BillPromise!Unpaid, "waived")
    BY <2>4, <2>5, MoveShown
  <2>7. UNCHANGED Standing(op)
    BY <1>2 DEF invoice_waived
  <2>8. QED
    BY <2>6, <2>7 DEF BillPromise!Next, BillPromise!Waive
<1>3. QED
  BY <1>1, <1>2

LEMMA TimeShown ==
  ASSUME BillingTypeOK, BillingTypeOK', (\E p \in Proc : create_invoice(p)) \/ DueDatePasses
  PROVE  BillPromise!Next \/ UNCHANGED Shown
<1>1. ASSUME NEW p \in Proc, create_invoice(p)
      PROVE  BillPromise!Next
  <2>1. PICK i \in Invoice : inv[i].status = "none" /\ inv' = [inv EXCEPT ![i].status = "issued"]
    BY <1>1 DEF create_invoice
  <2>2. inv[i] \in Invoices /\ inv'[i] \in Invoices /\ inv'[i].status = "issued"
    BY <2>1 DEF BillingTypeOK, Invoices
  <2>3. BillStage(inv[i]) = "none" /\ BillStage(inv'[i]) = "owed"
    BY <2>1, <2>2, StageIs
  <2>4. \A j \in Invoice \ {i} : inv'[j] = inv[j]
    BY <2>1 DEF BillingTypeOK
  <2>5. BillPromise!Move(i, {"none"}, "owed")
    BY <2>3, <2>4, MoveShown
  <2>6. UNCHANGED Standing(op)
    BY <1>1 DEF create_invoice
  <2>7. QED
    BY <2>5, <2>6 DEF BillPromise!Next, BillPromise!Charge
<1>2. CASE DueDatePasses
  <2>1. PICK i \in Invoice : inv[i].due < 2 /\ inv' = [inv EXCEPT ![i].due = @ + 1]
    BY <1>2 DEF DueDatePasses
  <2>2. /\ inv[i] \in Invoices /\ inv'[i] \in Invoices
        /\ inv'[i].status = inv[i].status /\ inv[i].due # 2
    BY <2>1 DEF BillingTypeOK, Invoices
  <2>3. \A j \in Invoice \ {i} : inv'[j] = inv[j]
    BY <2>1 DEF BillingTypeOK
  <2>4. UNCHANGED Standing(op)
    BY <1>2 DEF DueDatePasses
  <2>5. CASE inv[i].status = "overdue" /\ inv'[i].due = 2
    <3>1. BillStage(inv[i]) = "late" /\ BillStage(inv'[i]) = "beyond"
      BY <2>2, <2>5, StageIs
    <3>2. BillPromise!Move(i, {"late"}, "beyond")
      BY <2>3, <3>1, MoveShown
    <3>3. QED
      BY <2>4, <3>2 DEF BillPromise!Next, BillPromise!PassGrace
  <2>6. CASE ~(inv[i].status = "overdue" /\ inv'[i].due = 2)
    <3>1. BillStage(inv'[i]) = BillStage(inv[i])
      BY <2>2, <2>6, StageIs DEF Invoices
    <3>2. UNCHANGED Bills
      BY <2>3, <3>1 DEF Bills
    <3>3. QED
      BY <2>4, <3>2 DEF Shown
  <2>7. QED
    BY <2>5, <2>6
<1>3. QED
  BY <1>1, <1>2

LEMMA CommitShown ==
  ASSUME Alone("enforce"), BillingTypeOK, BillingTypeOK', WorkInv, NEW p \in Proc, enforcement_commits(p)
  PROVE  BillPromise!Next \/ UNCHANGED Shown
<1>0. PICK S \in SUBSET Invoice : S = work[p].marked
  BY DEF BillingTypeOK, Works
<1>1. EnforceInv(p) /\ doing[p] = "enforced"
  BY DEF WorkInv, ReliesOn, enforcement_commits
<1>2. \A i \in Invoice : inv[i] \in Invoices /\ inv'[i] \in Invoices
  BY DEF BillingTypeOK
<1>3. ASSUME NEW i \in S
      PROVE  inv[i].status = "issued" /\ inv'[i].status = "overdue"
  <2>1. inv[i].status = "issued"
    BY <1>0, <1>1 DEF EnforceInv
  <2>2. inv'[i] = [inv[i] EXCEPT !.status = "overdue", !.warned = TRUE]
    BY <1>0 DEF enforcement_commits
  <2>3. QED
    BY <1>2, <2>1, <2>2 DEF Invoices
<1>4. \A i \in Invoice \ S : inv'[i] = inv[i]
  BY <1>0 DEF enforcement_commits
<1>5. ASSUME NEW i \in S
      PROVE  Bills[i] = "owed" /\ Bills'[i] \in {"late", "beyond"}
  <2>1. inv[i] \in Invoices /\ inv[i].status = "issued" /\ inv'[i] \in Invoices /\ inv'[i].status = "overdue"
    BY <1>2, <1>3
  <2>2. BillStage(inv[i]) = "owed" /\ BillStage(inv'[i]) \in {"late", "beyond"}
    BY <2>1, StageIs
  <2>3. QED
    BY <2>2 DEF Bills
<1>6. Bills' = [i \in Invoice |-> IF i \in S THEN Bills'[i] ELSE Bills[i]]
  BY <1>4 DEF Bills
<1>7. BillPromise!MarkLate(S)
  BY <1>5, <1>6 DEF Bills, BillPromise!MarkLate
<1>8. CASE op' = op
  BY <1>7, <1>8 DEF BillPromise!Next, BillPromise!Remind
<1>9. CASE op' # op
  <2>1. op.status = "approved" /\ Indebted' /\ \E b : SuspendedFor(op', b)
    BY <1>9, CommitMoves
  <2>2. Standing(op) = "trading" /\ Standing(op') = "stopped"
    <3>1. op \in Operators /\ op' \in Operators
      BY DEF BillingTypeOK
    <3>2. op'.status = "suspended" /\ op'.reason = "billing"
      BY <2>1 DEF SuspendedFor
    <3>3. QED
      BY <2>1, <3>1, <3>2, StandingIs
  <2>3. \E i \in Invoice : Bills'[i] = "beyond"
    BY <1>2, <2>1, StageIs DEF Indebted, Bills
  <2>4. BillPromise!Stop(S)
    BY <1>7, <2>2, <2>3 DEF Bills, BillPromise!Stop
  <2>5. QED
    BY <2>4 DEF BillPromise!Next
<1>10. QED
  BY <1>8, <1>9

\* What no other step shows: a trial that ends and a checkout that is stored
\* leave the standing and the stages alone.
LEMMA OthersShown ==
  ASSUME BillingTypeOK, WorkInv, NEW p \in Proc, trial_ended(p) \/ checkout_stored(p)
  PROVE  UNCHANGED Shown
<1>1. op'.status = op.status /\ op'.reason = op.reason
  BY DEF BillingTypeOK, Operators, trial_ended, checkout_stored
<1>2. \A i \in Invoice : inv'[i].status = inv[i].status /\ inv'[i].due = inv[i].due
  <2>1. CASE trial_ended(p)
    BY <2>1 DEF trial_ended
  <2>2. CASE checkout_stored(p)
    BY <2>2 DEF BillingTypeOK, Invoices, checkout_stored
  <2>3. QED
    BY <2>1, <2>2
<1>3. QED
  BY <1>1, <1>2, NothingShown

LEMMA PromiseStep ==
  ASSUME Alone("waive"), Alone("enforce"), BillingTypeOK, BillingTypeOK', WorkInv, BilledInv, [BillingNext]_billing_vars
  PROVE  BillPromise!Next \/ UNCHANGED Shown
<1>1. CASE UNCHANGED <<op, inv>>
  BY <1>1, NothingShown
<1>2. QED
  BY <1>1, PaymentsShown, OwnersShown, TimeShown, CommitShown, OthersShown DEF BillingNext, ProcStep, billing_vars,
     CheckoutEnds, TrialEnds, platform_billing_webhook, extend_trial, waive_invoice, pay_invoice,
     initiate_invoice_payment, generate_monthly_invoices, handle_trial_expiry, enforce_billing,
     mark_overdue, select_candidates, suspend_operator, Rollback

LEMMA BilledStep ==
  ASSUME BillingTypeOK, WorkInv, BilledInv, [BillingNext]_billing_vars
  PROVE  BilledInv'
<1>1. SUFFICES ASSUME NEW i \in Invoice, inv'[i].status = "none" PROVE checkouts'[i] = <<>>
  BY DEF BilledInv
<1>2. inv[i].status = "none"
  BY <1>1, NeverUnmade
<1>3. checkouts[i] = <<>>
  BY <1>2 DEF BilledInv
<1>4. ASSUME NEW p \in Proc, initiate_invoice_payment(p)
      PROVE  checkouts'[i] = checkouts[i]
  <2>1. i # Bill(p)
    BY <1>2, <1>4 DEF WorkInv, ReliesOn, initiate_invoice_payment
  <2>2. QED
    BY <1>4, <2>1 DEF BillingTypeOK, initiate_invoice_payment
<1>5. ASSUME NEW p \in Proc, checkout_stored(p)
      PROVE  checkouts'[i] = checkouts[i]
  <2>1. i # Bill(p)
    BY <1>2, <1>5 DEF WorkInv, ReliesOn, checkout_stored
  <2>2. QED
    BY <1>5, <2>1 DEF BillingTypeOK, checkout_stored
<1>6. CASE CheckoutEnds
  <2>1. PICK j \in Invoice : \E n \in DOMAIN checkouts[j] : \E c \in {"paid", "failed"} :
          checkouts' = [checkouts EXCEPT ![j][n] = c]
    BY <1>6 DEF CheckoutEnds
  <2>2. i # j
    BY <1>3, <2>1
  <2>3. QED
    BY <1>3, <2>1, <2>2 DEF BillingTypeOK
<1>7. CASE UNCHANGED checkouts
  BY <1>3, <1>7
<1>8. QED
  BY <1>3, <1>4, <1>5, <1>6, <1>7 DEF BillingNext, ProcStep, billing_vars, DueDatePasses, TrialEnds,
     platform_billing_webhook, webhook_settles, record_payment, reverse_payment, change_status,
     extend_trial, waive_invoice, invoice_waived, pay_invoice, generate_monthly_invoices,
     create_invoice, handle_trial_expiry, trial_ended, enforce_billing, mark_overdue,
     select_candidates, suspend_operator, enforcement_commits, Rollback

\* What the operator is shown, its standing and its invoices, implements
\* BillingPromise, whichever handlers overlap beside waive_invoice and the
\* enforcement run.
THEOREM PromiseIsKept ==
  ASSUME Alone("waive"), Alone("enforce")
  PROVE  BillingSpec => BillingKeepsPromise
<1>1. BillingInit => BillPromise!Init /\ BilledInv
  <2>1. SUFFICES ASSUME BillingInit PROVE BillPromise!Init /\ BilledInv
    OBVIOUS
  <2>2. BillingTypeOK /\ op.status = "approved"
    BY <2>1, InitInv DEF BillingInit, Inv, Holder
  <2>3. Standing(op) = "trading"
    BY <2>2, StandingIs DEF BillingTypeOK
  <2>4. \A i \in Invoice : inv[i].status = "none" /\ checkouts[i] = <<>>
    BY <2>1 DEF BillingInit, NoBill
  <2>5. \A i \in Invoice : BillStage(inv[i]) = "none"
    BY <2>2, <2>4, StageIs DEF BillingTypeOK
  <2>6. QED
    BY <2>3, <2>4, <2>5 DEF BilledInv, BillPromise!Init
<1>2. Inv /\ BilledInv /\ [BillingNext]_billing_vars => BilledInv'
  BY BilledStep DEF Inv
<1>3. Inv /\ Inv' /\ BilledInv /\ [BillingNext]_billing_vars => [BillPromise!Next]_Shown
  BY PromiseStep DEF Inv
<1>4. QED
  BY <1>1, <1>2, <1>3, SpecInv, PTL DEF BillingSpec, BillingKeepsPromise, BillPromise!Spec, Shown, Bills
=============================================================================
