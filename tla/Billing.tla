------------------------------ MODULE Billing -------------------------------
(***************************************************************************)
(* What the platform bills one operator: its status row, its invoices,     *)
(* the Paystack checkouts opened for them, the ledger of payments recorded *)
(* by hand, and the handlers and daily jobs that move them.  Operators     *)
(* share nothing but the daily runs, whose other operators are the pauses  *)
(* between two steps here.                                                 *)
(*                                                                         *)
(* A process is a request or a daily run in its own database transaction.  *)
(* What runs under the operator's row lock is one step: the webhook after  *)
(* its first look at the invoice, the payments recorded by hand and the    *)
(* status route.  The daily runs, waiving and checkouts lock nothing and   *)
(* write what they loaded; an invoice the enforcement run has updated      *)
(* stays locked until it commits.  Overlap names the handlers that may run *)
(* while others of them are under way; any other handler runs alone.       *)
(***************************************************************************)
EXTENDS Naturals, Sequences, FiniteSets

CONSTANTS Proc, Invoice,
          MaxCheckouts,   \* bound: checkouts opened for an invoice
          MaxPayments,    \* bound: payments recorded by hand for an invoice
          MaxMoves,       \* bound: status changes by the platform owner
          Overlap,
          NoInvoice

Handlers == {"webhook", "record", "reverse", "status", "extend", "waive",
             "checkout", "generate", "trial", "enforce"}
DailyRuns == {"generate", "trial", "enforce"}

ASSUME BillingAssumption ==
  /\ MaxCheckouts \in Nat /\ MaxPayments \in Nat /\ MaxMoves \in Nat
  /\ Overlap \subseteq Handlers
  /\ NoInvoice \notin Invoice

VARIABLES op,         \* the operator's row
          trial,      \* trial_ends_at: none, running or over
          inv,        \* the invoices
          checkouts,  \* per invoice, the checkouts opened at Paystack, in order
          ledger,     \* per invoice, the payments recorded by hand, in order
          moves,      \* status changes made by the platform owner
          doing, work \* per process: its next step and what it has loaded

billing_vars == <<op, trial, inv, checkouts, ledger, moves, doing, work>>

Operators == [status  : {"approved", "suspended", "cancelled"},
              billing : {"trial", "active", "past_due", "paused", "cancelled"},
              reason  : {"none", "billing", "manual"}]

\* payment_reference: none, the n-th checkout or the n-th payment by hand.
References == [kind : {"none", "checkout", "manual"}, n : Nat]
NoReference == [kind |-> "none", n |-> 0]

\* due: 0 before due_at, 1 within the grace period, 2 after it.  url: a
\* checkout link is stored.  warned: the grace warning has been recorded.
Invoices == [status : {"none", "issued", "overdue", "paid", "waived"},
             due : 0..2, ref : References, url : BOOLEAN, warned : BOOLEAN]
NoBill == [status |-> "none", due |-> 0, ref |-> NoReference,
           url |-> FALSE, warned |-> FALSE]

\* A checkout is made at Paystack, and open once its link has been returned.
Checkouts == {"made", "open", "failed", "paid"}

Works == [inv : Invoice \cup {NoInvoice}, n : Nat, loaded : BOOLEAN,
          op : Operators, bill : Invoices,
          todo : SUBSET Invoice, marked : SUBSET Invoice]

BillingSteps == {"idle", "webhook", "waive", "checkout", "opened",
          "generate", "trial", "enforce", "suspend", "enforced"}

Holder == [status |-> "approved", billing |-> "active", reason |-> "none"]
NoWork == [inv |-> NoInvoice, n |-> 0, loaded |-> FALSE, op |-> Holder,
           bill |-> NoBill, todo |-> {}, marked |-> {}]

BillingTypeOK ==
  /\ op \in Operators
  /\ trial \in {"none", "running", "over"}
  /\ inv \in [Invoice -> Invoices]
  /\ checkouts \in [Invoice -> Seq(Checkouts)]
  /\ ledger \in [Invoice -> Seq({"paid", "reversed"})]
  /\ moves \in 0..MaxMoves
  /\ doing \in [Proc -> BillingSteps]
  /\ work \in [Proc -> Works]

\* An operator is created approved, on a trial or billed at once.
BillingInit ==
  /\ \/ op = [Holder EXCEPT !.billing = "trial"] /\ trial = "running"
     \/ op = Holder /\ trial = "none"
  /\ inv = [i \in Invoice |-> NoBill]
  /\ checkouts = [i \in Invoice |-> <<>>]
  /\ ledger = [i \in Invoice |-> <<>>]
  /\ moves = 0
  /\ doing = [p \in Proc |-> "idle"]
  /\ work = [p \in Proc |-> NoWork]

-----------------------------------------------------------------------------
(* Processes and row locks.                                                *)

Handler(step) ==
  CASE step \in {"suspend", "enforced"} -> "enforce"
    [] step = "opened" -> "checkout"
    [] OTHER -> step

Busy == {p \in Proc : doing[p] # "idle"}

\* An idle process may start a handler that overlaps with what is under way;
\* a daily run does not overlap with itself.
MayStart(p, handler) ==
  /\ doing[p] = "idle"
  /\ \A q \in Busy : {handler, Handler(doing[q])} \subseteq Overlap
  /\ handler \in DailyRuns => \A q \in Busy : Handler(doing[q]) # handler

Goes(p, step, w) ==
  /\ doing' = [doing EXCEPT ![p] = step]
  /\ work' = [work EXCEPT ![p] = w]

Finish(p) == Goes(p, "idle", NoWork)

InvoiceLocked(i, p) == \E q \in Proc \ {p} : i \in work[q].marked

Bill(p) == work[p].inv

-----------------------------------------------------------------------------
(* settle_invoice: what every payment does.                                *)

Payable == {"issued", "overdue"}

IsAnySuspension(o) == o.status = "suspended"   \* mutant: whoever suspended it
IsBillingSuspension(o) == o.status = "suspended" /\ o.reason = "billing"

NormalisedAll(o) == [o EXCEPT !.billing = "active"]   \* mutant: cancelled too
Normalised(o) ==
  IF o.billing \in {"active", "cancelled", "paused"} THEN o
  ELSE [o EXCEPT !.billing = "active"]

SettledUnlifted(o) == Normalised(o)   \* mutant: the suspension not lifted
Settled(o) == IF IsBillingSuspension(o) THEN Holder ELSE Normalised(o)

settle_invoice(i, reference) ==
  /\ inv' = [inv EXCEPT ![i].status = "paid", ![i].ref = reference]
  /\ op' = Settled(op)

-----------------------------------------------------------------------------
(* The Paystack webhook, delivered any number of times once a checkout is  *)
(* paid.  It looks at the invoice, waits for the operator's lock, and      *)
(* reads the invoice again.                                                *)

StillUnpaidUnread(i) == TRUE   \* mutant: not read again
StillUnpaid(i) == inv[i].status # "paid"

platform_billing_webhook(p) ==
  /\ MayStart(p, "webhook")
  /\ \E i \in Invoice : \E n \in DOMAIN checkouts[i] :
       /\ checkouts[i][n] = "paid"
       /\ inv[i].status # "paid"
       /\ Goes(p, "webhook", [NoWork EXCEPT !.inv = i, !.n = n])
  /\ UNCHANGED <<op, trial, inv, checkouts, ledger, moves>>

webhook_settles(p) ==
  /\ doing[p] = "webhook"
  /\ ~InvoiceLocked(Bill(p), p)
  /\ IF StillUnpaid(Bill(p))
       THEN settle_invoice(Bill(p), [kind |-> "checkout", n |-> work[p].n])
       ELSE UNCHANGED <<op, inv>>
  /\ Finish(p)
  /\ UNCHANGED <<trial, checkouts, ledger, moves>>

-----------------------------------------------------------------------------
(* Payments recorded by hand, and their reversal, under the operator's and *)
(* the invoice's locks.                                                    *)

record_payment(p) ==
  /\ MayStart(p, "record")
  /\ \E i \in Invoice :
       /\ ~InvoiceLocked(i, p)
       /\ inv[i].status \in Payable
       /\ Len(ledger[i]) < MaxPayments
       /\ ledger' = [ledger EXCEPT ![i] = Append(@, "paid")]
       /\ settle_invoice(i, [kind |-> "manual", n |-> Len(ledger'[i])])
  /\ UNCHANGED <<trial, checkouts, moves, doing, work>>

\* Only the payment that settled the invoice can be reversed.
Reversible(i, n) ==
  /\ ledger[i][n] = "paid"
  /\ inv[i].status = "paid"
  /\ inv[i].ref = [kind |-> "manual", n |-> n]

reverse_payment(p) ==
  /\ MayStart(p, "reverse")
  /\ \E i \in Invoice : \E n \in DOMAIN ledger[i] :
       /\ ~InvoiceLocked(i, p)
       /\ Reversible(i, n)
       /\ ledger' = [ledger EXCEPT ![i][n] = "reversed"]
       /\ inv' = [inv EXCEPT ![i].status = "issued", ![i].ref = NoReference]
  /\ UNCHANGED <<op, trial, checkouts, moves, doing, work>>

-----------------------------------------------------------------------------
(* The platform owner's status changes, in one step under the operator's   *)
(* lock; the trial moved to a later end, and the waiving of an invoice,    *)
(* which take no lock.                                                     *)

TransitionsWide == [approved  |-> {"suspended", "cancelled"},   \* mutant
                    suspended |-> {"approved", "cancelled"},
                    cancelled |-> {"approved", "suspended"}]
Transitions == [approved  |-> {"suspended", "cancelled"},
                suspended |-> {"approved", "cancelled"},
                cancelled |-> {"approved"}]

Resumed == IF trial = "running" THEN "trial" ELSE "active"

SuspendedInBilling(o) == [status |-> "suspended", billing |-> "suspended",
                          reason |-> "manual"]   \* mutant: no such billing status
Suspended(o) ==
  [status  |-> "suspended",
   billing |-> IF o.billing \in {"trial", "active"} THEN "paused" ELSE o.billing,
   reason  |-> "manual"]

Moved(o, status) ==
  CASE status = "suspended" -> Suspended(o)
    [] status = "cancelled" ->
         [status |-> "cancelled", billing |-> "cancelled", reason |-> "none"]
    [] status = "approved" ->
         [status  |-> "approved",
          billing |-> IF o.billing \in {"paused", "cancelled"} THEN Resumed ELSE o.billing,
          reason  |-> "none"]

change_status(p) ==
  /\ MayStart(p, "status")
  /\ moves < MaxMoves
  /\ moves' = moves + 1
  /\ \E status \in Transitions[op.status] : op' = Moved(op, status)
  /\ UNCHANGED <<trial, inv, checkouts, ledger, doing, work>>

extend_trial(p) ==
  /\ MayStart(p, "extend")
  /\ trial = "over"
  /\ trial' = "running"
  /\ UNCHANGED <<op, inv, checkouts, ledger, moves, doing, work>>

waive_invoice(p) ==
  /\ MayStart(p, "waive")
  /\ \E i \in Invoice :
       /\ inv[i].status \in Payable
       /\ Goes(p, "waive", [NoWork EXCEPT !.inv = i])
  /\ UNCHANGED <<op, trial, inv, checkouts, ledger, moves>>

invoice_waived(p) ==
  /\ doing[p] = "waive"
  /\ ~InvoiceLocked(Bill(p), p)
  /\ inv' = [inv EXCEPT ![Bill(p)].status = "waived"]
  /\ Finish(p)
  /\ UNCHANGED <<op, trial, checkouts, ledger, moves>>

-----------------------------------------------------------------------------
(* Checkouts.  The first for an invoice has a fixed reference, which       *)
(* Paystack accepts once; a stored one is handed out again until it is     *)
(* over.                                                                   *)

pay_invoice(p) ==
  /\ MayStart(p, "checkout")
  /\ \E i \in Invoice :
       /\ inv[i].status \in Payable
       /\ Goes(p, "checkout", [NoWork EXCEPT !.inv = i, !.bill = inv[i]])
  /\ UNCHANGED <<op, trial, inv, checkouts, ledger, moves>>

\* The stored checkout: the first one when no reference is stored, none that
\* Paystack knows when the reference is a payment by hand.
Over(i, bill) ==
  LET n == IF bill.ref.kind = "none" THEN 1 ELSE bill.ref.n
  IN  bill.ref.kind = "manual" \/ checkouts[i][n] = "failed"

initiate_invoice_payment(p) ==
  /\ doing[p] = "checkout"
  /\ LET i == Bill(p)
         bill == work[p].bill
     IN  \/ /\ IF bill.url THEN Over(i, bill) ELSE checkouts[i] = <<>>
            /\ Len(checkouts[i]) < MaxCheckouts
            /\ checkouts' = [checkouts EXCEPT ![i] = Append(@, "made")]
            /\ Goes(p, "opened", [work[p] EXCEPT !.n = Len(checkouts'[i])])
         \/ Finish(p) /\ UNCHANGED checkouts   \* reused, paid, refused or unreachable
  /\ UNCHANGED <<op, trial, inv, ledger, moves>>

checkout_stored(p) ==
  /\ doing[p] = "opened"
  /\ ~InvoiceLocked(Bill(p), p)
  /\ inv' = [inv EXCEPT ![Bill(p)].url = TRUE,
                        ![Bill(p)].ref = [kind |-> "checkout", n |-> work[p].n]]
  /\ checkouts' = [checkouts EXCEPT ![Bill(p)][work[p].n] = "open"]
  /\ Finish(p)
  /\ UNCHANGED <<op, trial, ledger, moves>>

\* External: the operator pays or fails an open checkout.
CheckoutEnds ==
  /\ \E i \in Invoice : \E n \in DOMAIN checkouts[i] : \E c \in {"paid", "failed"} :
       /\ checkouts[i][n] = "open"
       /\ checkouts' = [checkouts EXCEPT ![i][n] = c]
  /\ UNCHANGED <<op, trial, inv, ledger, moves, doing, work>>

-----------------------------------------------------------------------------
(* The daily runs.                                                         *)

generate_monthly_invoices(p) ==
  /\ MayStart(p, "generate")
  /\ op.billing = "active"
  /\ trial # "running"   \* trial_covers_period
  /\ Goes(p, "generate", NoWork)
  /\ UNCHANGED <<op, trial, inv, checkouts, ledger, moves>>

create_invoice(p) ==
  /\ doing[p] = "generate"
  /\ \E i \in Invoice :
       /\ inv[i].status = "none"
       /\ inv' = [inv EXCEPT ![i].status = "issued"]
  /\ Finish(p)
  /\ UNCHANGED <<op, trial, checkouts, ledger, moves>>

handle_trial_expiry(p) ==
  /\ MayStart(p, "trial")
  /\ op.billing = "trial"
  /\ trial = "over"
  /\ Goes(p, "trial", NoWork)
  /\ UNCHANGED <<op, trial, inv, checkouts, ledger, moves>>

trial_ended(p) ==
  /\ doing[p] = "trial"
  /\ op' = [op EXCEPT !.billing = "active"]
  /\ Finish(p)
  /\ UNCHANGED <<trial, inv, checkouts, ledger, moves>>

\* Step 1: the issued invoices past due_at, each updated in turn.  The first
\* warning about an invoice loads the operator's row, which is then kept.
enforce_billing(p) ==
  /\ MayStart(p, "enforce")
  /\ \E i \in Invoice : inv[i].status \in Payable /\ inv[i].due >= 1
  /\ Goes(p, "enforce", [NoWork EXCEPT !.todo =
            {i \in Invoice : inv[i].status = "issued" /\ inv[i].due >= 1}])
  /\ UNCHANGED <<op, trial, inv, checkouts, ledger, moves>>

Loaded(w) == IF w.loaded THEN w ELSE [w EXCEPT !.op = op, !.loaded = TRUE]

mark_overdue(p) ==
  /\ doing[p] = "enforce"
  /\ \E i \in work[p].todo :
       /\ ~InvoiceLocked(i, p)
       /\ LET w == IF inv[i].warned THEN work[p] ELSE Loaded(work[p])
          IN  Goes(p, "enforce", [w EXCEPT !.todo = @ \ {i}, !.marked = @ \cup {i}])
  /\ UNCHANGED <<op, trial, inv, checkouts, ledger, moves>>

\* Step 2: the overdue invoices past the grace period.
PastGraceAlways(i) == TRUE   \* mutant: the grace period forgotten
PastGrace(i) == inv[i].due = 2

select_candidates(p) ==
  /\ doing[p] = "enforce"
  /\ work[p].todo = {}
  /\ LET candidates == {i \in Invoice : /\ i \in work[p].marked \/ inv[i].status = "overdue"
                                        /\ PastGrace(i)}
     IN  Goes(p, IF candidates = {} THEN "enforced" ELSE "suspend",
              [work[p] EXCEPT !.todo = candidates])
  /\ UNCHANGED <<op, trial, inv, checkouts, ledger, moves>>

\* Only a trading operator is suspended; todo is then left non-empty.
SuspendableOnce(o) == o.status = "approved" /\ o.billing # "past_due"   \* mutant
Suspendable(o) == o.status = "approved"

suspend_operator(p) ==
  /\ doing[p] = "suspend"
  /\ LET w == Loaded(work[p])
     IN  Goes(p, "enforced", IF Suspendable(w.op) THEN w ELSE [w EXCEPT !.todo = {}])
  /\ UNCHANGED <<op, trial, inv, checkouts, ledger, moves>>

\* The commit writes what differs from the row as loaded.  A CHECK refuses to
\* suspend an operator cancelled meanwhile: the run can only be rolled back.
enforcement_commits(p) ==
  /\ doing[p] = "enforced"
  /\ inv' = [i \in Invoice |-> IF i \in work[p].marked
                 THEN [inv[i] EXCEPT !.status = "overdue", !.warned = TRUE] ELSE inv[i]]
  /\ \/ /\ work[p].todo = {}
        /\ op' = op
     \/ /\ work[p].todo # {}
        /\ op.status # "cancelled"
        /\ op' = [status  |-> "suspended",
                  billing |-> IF work[p].op.billing = "past_due" THEN op.billing
                              ELSE "past_due",
                  reason  |-> "billing"]
  /\ Finish(p)
  /\ UNCHANGED <<trial, checkouts, ledger, moves>>

-----------------------------------------------------------------------------
(* Time, and what is lost: a crash, a refused commit, or the transaction   *)
(* PostgreSQL aborts when the enforcement run (invoice, then operator) and *)
(* a payment (operator, then invoice) wait for each other.                 *)

Rollback(p) ==
  /\ doing[p] # "idle"
  /\ Finish(p)
  /\ UNCHANGED <<op, trial, inv, checkouts, ledger, moves>>

\* A run takes the time once, when it starts.
DueDatePasses ==
  /\ \A p \in Proc : Handler(doing[p]) # "enforce"
  /\ \E i \in Invoice : /\ inv[i].status # "none" /\ inv[i].due < 2
                        /\ inv' = [inv EXCEPT ![i].due = @ + 1]
  /\ UNCHANGED <<op, trial, checkouts, ledger, moves, doing, work>>

TrialEnds ==
  /\ trial = "running"
  /\ trial' = "over"
  /\ UNCHANGED <<op, inv, checkouts, ledger, moves, doing, work>>

ProcStep(p) ==
  \/ platform_billing_webhook(p)  \/ webhook_settles(p)
  \/ record_payment(p)            \/ reverse_payment(p)
  \/ change_status(p)             \/ extend_trial(p)
  \/ waive_invoice(p)             \/ invoice_waived(p)
  \/ pay_invoice(p)               \/ initiate_invoice_payment(p)
  \/ checkout_stored(p)
  \/ generate_monthly_invoices(p) \/ create_invoice(p)
  \/ handle_trial_expiry(p)       \/ trial_ended(p)
  \/ enforce_billing(p)           \/ mark_overdue(p)
  \/ select_candidates(p)         \/ suspend_operator(p)
  \/ enforcement_commits(p)       \/ Rollback(p)

BillingNext == (\E p \in Proc : ProcStep(p)) \/ CheckoutEnds \/ DueDatePasses \/ TrialEnds

BillingSpec == BillingInit /\ [][BillingNext]_billing_vars

\* A handler under way goes on or is rolled back; the daily enforcement run is
\* started again and again, is not broken off for ever, and its commit is not
\* refused for ever.  Nobody has to pay, time need not pass, and the platform
\* owner need not act.
BillingFairness ==
  \A p \in Proc :
    /\ WF_billing_vars(doing[p] # "idle" /\ ProcStep(p))
    /\ SF_billing_vars(enforce_billing(p))
    /\ <>[][doing[p] \in {"enforce", "suspend"} => doing'[p] # "idle"]_billing_vars
    /\ SF_billing_vars(enforcement_commits(p))

BillingFairSpec == BillingSpec /\ BillingFairness

-----------------------------------------------------------------------------
(* Properties.                                                             *)

\* The standing and the stages of BillingPromise that the rows stand for.
Standing(o) ==
  CASE o.status = "approved"  -> "trading"
    [] o.status = "cancelled" -> "gone"
    [] o.status = "suspended" -> IF o.reason = "billing" THEN "stopped" ELSE "held"

BillStage(bill) ==
  CASE bill.status = "issued"  -> "owed"
    [] bill.status = "overdue" -> IF bill.due = 2 THEN "beyond" ELSE "late"
    [] bill.status = "paid"    -> "settled"
    [] bill.status \in {"none", "waived"} -> bill.status

BillPromise == INSTANCE BillingPromise
  WITH standing <- Standing(op), bill <- [i \in Invoice |-> BillStage(inv[i])]

\* The handlers and daily runs implement the promise: whatever settles an
\* invoice lets a stopped operator trade again and nobody else, only the run
\* stops one, and no invoice is settled, waived or reopened out of order.
BillingKeepsPromise == BillPromise!Spec

\* An operator is past due, or suspended for not paying, only while an
\* invoice of it is overdue, or was until the platform owner waived it: every
\* way of paying puts the operator back, whatever came before.
DebtBehindStatus ==
  op.billing = "past_due" \/ op.reason = "billing"
    => \E i \in Invoice : inv[i].status \in {"overdue", "waived"}

\* The ledger and the invoices tell one story: a paid invoice names the
\* payment that settled it, a paid checkout or a payment by hand that stands;
\* and a payment by hand that stands has settled its invoice.  The webhook,
\* record_payment and reverse_payment all rewrite the pair.
LedgerAgrees ==
  \A i \in Invoice :
    /\ inv[i].status = "paid" =>
         LET r == inv[i].ref
         IN  \/ r.kind = "checkout" /\ checkouts[i][r.n] = "paid"
             \/ r.kind = "manual" /\ ledger[i][r.n] = "paid"
    /\ \A n \in DOMAIN ledger[i] : ledger[i][n] = "paid" =>
         inv[i].status = "paid" /\ inv[i].ref = [kind |-> "manual", n |-> n]

\* A cancelled operator stays out of billing: neither the payment of a last
\* invoice, nor a daily run, nor the end of its trial brings it back.
CancelledNotBilled == op.status = "cancelled" => op.billing = "cancelled"

\* No customer can pay for an invoice twice: at most one checkout whose link
\* was handed out is open (the comment above _REUSABLE_PAYSTACK_STATES).
OneLiveCheckout ==
  \A i \in Invoice : Cardinality({n \in DOMAIN checkouts[i] : checkouts[i][n] = "open"}) <= 1

\* A suspension the platform owner imposed is lifted, and its reason changed,
\* by the platform owner only: not by a payment, not by the enforcement run.
ManualSuspensionStands ==
  [][op.reason = "manual" /\ moves' = moves
       => op'.status = "suspended" /\ op'.reason = "manual"]_billing_vars

\* The enforcement run suspends an operator only with an invoice that is
\* overdue, and past its grace period, as the suspension is committed.
SuspendedForDebt ==
  [][op.reason # "billing" /\ op'.reason = "billing"
       => \E i \in Invoice : inv'[i].status = "overdue" /\ inv'[i].due = 2]_billing_vars

\* An operator that trades with an unpaid invoice past the grace period does
\* not go on for ever: the invoice is settled or waived, or the operator
\* stops trading.
DebtCollected ==
  \A i \in Invoice :
    inv[i].status \in Payable /\ inv[i].due = 2 /\ op.status = "approved"
      ~> inv[i].status \notin Payable \/ op.status # "approved"
=============================================================================
