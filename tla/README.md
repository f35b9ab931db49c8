# Verification of the hotspot platform

The repository is a multi-tenant service that lets internet providers
("operators") sell Wi-Fi vouchers on MikroTik hotspots.  A customer pays on the
captive portal, gets a voucher code on the screen and by text, and logs in with
it; FreeRADIUS and the routers report the sessions; the platform bills the
operators every month and stops those that do not pay.  The backend
(`src/backend/src`) is FastAPI with SQLAlchemy async sessions on PostgreSQL,
Redis, and arq workers that run jobs and crons.

This directory holds TLA+ models of the parts of that backend whose
correctness depends on order and concurrency, TLC configurations that check
them on small instances, and theorems proved with TLAPS for every instance.
`PROJECT.json` maps each definition to the lines it stands for.  File names
below are relative to `src/backend/src`.

## 1. The system

| Component | State | Operations | Where it is hard |
|---|---|---|---|
| Customer payments: `modules/payments`, `modules/webhooks/processor.py`, `jobs/payment_reconciliation.py`, `jobs/voucher_sms.py`, payment endpoints of `portal/routes.py` | `payment_transactions`, the charge at the provider, the voucher issued, the arq job of the text | initiate, continue with an OTP, poll, Verify/Re-check, webhooks, reconciliation, late re-check, refund | several sessions hold copies of one row across provider calls; webhooks late, twice or never; a timeout of ours that may be contradicted |
| Platform billing: `modules/billing`, `modules/webhooks/platform_billing.py`, `jobs/billing_enforcement.py`, `jobs/invoice_generation.py`, `jobs/trial_expiry.py` | `isp_operators.(status, billing_status, suspension_reason, trial_ends_at)`, `operator_invoices`, `operator_invoice_payments`, checkouts at Paystack | invoice generation, checkout, webhook, manual payment, reversal, waive, enforcement, trial expiry | three status columns moved by eight handlers; long daily runs that write what they read minutes ago; money taken through two channels |
| Operator status: `modules/platform/operator_status.py` | the same three columns | suspend, cancel, un-suspend, restore | a suspension by the owner against one for debt |
| Cron lock: `jobs/job_lock.py` | a Redis key with a token and a TTL | acquire, release, expiry | overlap of runs, crash with the lock held, release in two commands |
| Vouchers: `modules/vouchers` , `jobs/voucher_expiry.py` | `vouchers.(status, activated_at, expires_at, ...)` | generate, activate, use up, expire, disable, restore | status tested and written without a row lock, by requests, RADIUS callbacks and jobs |
| RADIUS and disconnection: `radius`, `modules/mikrotik/access_revocation.py`, `jobs/coa_retry.py`, `jobs/session_watchdog.py`, `jobs/reconcile_hotspot.py`, `jobs/check_exhausted_sessions.py` | `wifi_sessions`, `coa_events` | Start, Interim, Stop, disconnect, retry, watch, reconcile | packets lost, twice and out of order; retries that race a restored voucher |
| Hotspot wind-down: `jobs/hotspot_service_end.py` | `isp_operators.hotspot_*` columns | claim, cut off, release | a run that crashes half-way; an operator restored meanwhile |
| Resellers: `modules/resellers`, `jobs/reseller_redemption_repair.py` | consignments, redemptions, payments | allocate, reclaim, redeem (a trigger), pay, reverse, repair | a code reclaimed while it is redeemed; a trigger that fails open |
| Sign-in and limits: `modules/admin_accounts`, `modules/auth`, `modules/platform/owner_*`, `portal/login_limits.py` | attempt counters, lockouts, one-time codes | sign in, count, lock, reset | concurrent attempts against one counter |
| SMS: `modules/sms`, `jobs/sms_*` | `sms_messages`, usage periods | send, meter, poll delivery, roll up | usage counted once, also across a month's end |
| Routers and WireGuard: `modules/mikrotik`, `modules/wireguard` | router rows, peers, addresses | set up, check, remove, allocate an address | long I/O against devices; address allocation |
| The rest: applications, audit log, notifications, credentials, plans, towns, catalogue, branding, analytics, web headers, front ends | single rows, files | create, read, update, delete | nothing to interleave; not modelled |

The parts meet in the database.  A payment that succeeds calls the voucher
engine and enqueues a text; a voucher's end disconnects its sessions; billing
changes an operator's status, which the portal, the wind-down and the daily
jobs read; the crons of the voucher, wind-down, reseller and audit jobs take
the cron lock.

What makes each of these correct, in one line:

- **payments**: a voucher is issued exactly once and only for money taken; no
  payment hangs; a final verdict is not undone.
- **billing**: status and debt agree; the ledger and the invoices tell one
  story; no debtor trades on for ever and nobody is suspended without a debt.
- **cron lock**: one run at a time, and a crash does not stop the job for good.
- **vouchers, RADIUS, wind-down**: an ended voucher has no live session after
  the retries; a restored one is not disconnected by an old event.
- **resellers**: every code is in one hand; the debt is what was redeemed less
  what was paid.
- **sign-in**: after the limit, no guess is tested until the lock is over (not so
  for the PIN: finding 7); a token or a reset grant that has ended never passes
  again.
- **tunnels**: no peer on the interface without a row, no address given twice (the
  first only until a mishap the code does not guard against: finding 6).
- **texts**: each is charged once, and is charged.

## 2. Modules

| Module | What it is |
|---|---|
| `Payments.tla` | one purchase: row, charge, sessions, text job, with its properties |
| `PaymentPromise.tla` | what a purchase promises, with none of the machinery |
| `MCPayments.tla`, `Payments_double.cfg` | instance for TLC with the double sale |
| `PaymentsProofs.tla` | type correctness of `Payments` |
| `PaymentsSafety.tla` | its safety theorems, and when it keeps `PaymentPromise` |
| `Billing.tla` | one operator: status columns, invoices, checkouts, ledger, handlers and daily runs |
| `BillingPromise.tla` | what an operator is promised about its standing |
| `MCBilling.tla`, `Billing_*.cfg` | instances for TLC, with the violations |
| `BillingProofs.tla` | its types, safety theorems and refinement; each names the handlers that have to run alone for it |
| `MCMoney.tla`, `Money_*.cfg` | `Payments` and `Billing` side by side, with what races and one at a time |
| `JobLock.tla` | the lock of a cron job |
| `MCJobLock.tla`, `JobLock_overrun.cfg` | instance for TLC with runs that outlast their key |
| `Consignment.tla` | a reseller's codes: allocation, reclaim, uses, charges, repair, and the status writers around them |
| `ConsignmentPromise.tla` | what the account promises about each code |
| `MCConsignment.tla`, `Consignment_*.cfg` | instances for TLC |
| `ConsignmentProofs.tla` | type correctness, safety and refinement of `Consignment` |
| `VoucherAccess.tla` | one voucher on one router: log-ins, accounting, disconnects and their retries, expiry, reconciliation, the watchdog, the wind-down of its operator |
| `AccessPromise.tla` | what that promises: nobody in but through a door opened while the voucher was good, and out in the end |
| `MCVoucherAccess.tla`, `Access.cfg` | instance for TLC |
| `VoucherAccessProofs.tla` | types, safety, and the steps of the refinement |
| `Tunnels.tla`, `TunnelsProofs.tla` | WireGuard keys, addresses and peers; when there is no stray peer |
| `MCTunnels.tla`, `Tunnels_stray.cfg` | instance for TLC with a stray peer |
| `SignIn.tla`, `SignInProofs.tla` | an admin's sign-in, limits, PIN and tokens; revocation is final |
| `MCSignIn.tla`, `SignIn_pins.cfg` | instance for TLC with PIN requests that overlap |
| `LoginLimits.tla` | the wrong-code limits of a portal |
| `SmsUsage.tla` | the metering of texts and their charge on the monthly invoice |
| `NumericCodes.tla` | the check digit of numeric codes, typed with one slip |
| `MCParts.tla`, `Parts.cfg` | the five above and `JobLock` side by side, for one run of TLC |
| `PartsProofs.tla` | theorems of `JobLock`, `SmsUsage`, `LoginLimits` and `NumericCodes`, and that side by side they are what they are alone |

### Payments

Payments share no state, so one is modelled.  A **session** is a SQLAlchemy
session of a portal request, an operator's request, a webhook job or a
reconciliation run.  What decides the behaviour is what such a session holds:

- `row` is the committed row; `obj[s]` is the object session `s` loaded.  The
  session factory sets `expire_on_commit=False` and no query uses
  `populate_existing` (`db/base.py`), so a later `SELECT ... FOR UPDATE` gives
  the lock and not the new values.  `Flushed(old, new)` writes only the
  attributes that changed, as the ORM does.
- `charge` is the truth at the provider, `said` the verdicts it has sent a
  webhook about.  Any of these may arrive at any time, any number of times or
  never.  An abandoned charge is reported as failed and may still be paid.
- `age` and `recent` are the clock: 15 minutes, 2 hours and 48 hours after the
  start, and whether the last check is less than 30 minutes old.
- `pc`, `job`, `ans`, `seen` are where a session is, in which role, the
  provider's answer it holds and the "now" a reconciliation run took.

Every step is what happens between two awaits of the provider or two commits,
so every interleaving the event loop and PostgreSQL allow is there.  `Crash`
ends any session at any step.  `create_pending_transaction`,
`initiate_payment`, `resolve_failed_initiation`, `continue_payment`,
`apply_provider_result`, `apply_late_result`, `resolve_successful_payment`,
`apply_webhook_update`, `run_payment_reconciliation` and the rest carry the
names of the functions they model.

`PaymentPromise` has five stages: open, timed out (provisional), failed
(final), sold (with exactly one voucher), void (a refund was recorded: the code
guards nothing after that).  `Stage` maps the row to them.

### Billing

Operators share nothing but the daily runs; one operator is modelled.  `op` is
its row, `inv` its invoices with the age of their due date, the stored payment
reference and whether a checkout link is stored, `checkouts` those made
at Paystack for each invoice, `ledger` the payments recorded by hand.

A **process** is a request or a run in one transaction.  The handlers that
lock the operator's row (the webhook after its first look at the invoice,
payments by hand, reversals, status changes) are one step under that lock.
Enforcement, generation, trial expiry, waiving and checkouts take no lock, so
their steps are kept apart, with what they loaded in `work`.  An invoice the
enforcement run has updated is locked until it commits.

`Overlap` names the handlers that may run at the same time in an instance.
This is a bound on the interleavings, chosen per run and stated there: the code
takes no lock that would exclude the others.

`BillingPromise` has four standings (trading, stopped for a debt, held by the
owner, gone) and gives each bill a stage: none, owed, late, beyond its grace,
settled, waived.  `Standing` reads the status and its reason, `BillStage` an
invoice's status and the age of its due date.  The promise is that trading
ends for a bill only when one is beyond its grace, that settling a bill ends
such a stop, and that nothing but the owner lifts what the owner imposed.  It
has no fairness; that no debtor trades on for ever is `DebtCollected`.

Left out: amounts and the verification of a charge's amount, currency and mode
(`modules/webhooks/charge_verification.py`), invoice lines and SMS usage on
them, the notifications.

### MCMoney

What customers pay for vouchers and what operators pay the platform share no
state.  `side` chooses which of the two modules moves in a behaviour, the other
keeps its initial state, so one run has both and each property is that of its
own module.  The names of `Billing` that `Payments` has too begin with
`Billing` for that reason.  `MoneyFairness` is the fairness of both modules, each
owed where its side moves.

### JobLock

A run is its token.  `acquire` is `SET NX EX`; the release is a GET (`compare`)
and a DEL (`delete`).  `MayOverrun` says whether a run can outlast its key; the
comments at the TTL constants claim it cannot.

### Consignment

The codes of one reseller.  For each code: `status` and `activated` of its
voucher, `allocation` and `price` of its allocation, `redemption`, the row that
charges it.  `rate` is the commission in force, which the operator may change
between any two steps.

Two kinds of writers move a voucher's status, and the difference is the point
of the module.  FreeRADIUS's Accounting-Start, the sell-by expiry and `reclaim`
test and write the row in one step (a guarded UPDATE, or rows locked and tested
again).  Everybody else goes through `transition_voucher_status`, which reads
the row without a lock and writes it later: `Reads` puts what was decided in
`request`, `transition_writes` writes it over whatever the row holds by then.
So a code may become active twice, and a disabled one may come back.

The trigger charges a use inside the transaction that makes the code active and
fails open (`record_redemption`); `repair_selects`, `repair_inserts` and
`repair_fails` are the nightly job, one run at a time as `JobLock` promises.
`Share` rounds as PostgreSQL's `round(numeric, 2)` does, in pesewas.

`ConsignmentPromise` has five stages: with the operator, held by the reseller,
sold, owed, returned.  `Stage` maps a code to them through `CodeState`, what
both sides are shown of it (`_code_state`).

Left out: time (a sell-by or a plan may run out at any moment or never),
requests that are refused, several resellers (a code has one), a disabled
reseller (refuses allocations only), wallet-era codes.

### VoucherAccess

One voucher, one router, the operator.  What the **router** knows: `online`, its
active list; `cookie`, a login cookie of a client, which lets it in again
without RADIUS (`access_revocation.py:4-6`); `granted`, an Access-Accept on its
way.  What goes **between**: `wire`, accounting packets.  What the **database**
knows: `status` and `spent` of the voucher, `row` and `age` of its session
rows, `event`, the failed disconnects (`coa_events`) with their attempts,
`ended` and `cut_off` of the operator's service.

`accounting` is FreeRADIUS's own SQL (`freeradius/sql.conf`): insert unless the
id has a row, activate only an unused voucher and only with a row that landed.
Each **job** is a list of steps with what it read in `work`: `expire` (select,
end, disconnect), `disable` (end, disconnect), `wind_down` (disconnect all,
mark the operator), `exhausted` (list the router, act), `reconcile` (list the
router, then read the rows and act).  Between two of its steps anything else
may happen; what it holds may be stale.  A call to the router may be refused or
its answer lost (`Outcomes`, `Answers`), and a worker may die (`crash`).

`adopted` are clients online under an id whose row of an earlier login was left
open: the only ones a reconciliation may mistake (see `LiveRowKept`).

### Tunnels

`tunnel`, `allocated` and `router_active` are what the database has of each router;
`peers` is the interface.  `request` holds the requests under way, as many as there
are `Call`s, on any routers: setup, DELETE and removal, each with the tunnel it has
loaded or made (`held`) and the step it is at.  The code locks nothing but the
allocation of an address (an advisory lock until the commit), so any of them
may overlap, setup's `add_peer` with a DELETE of the same router among others.  A
call to the sidecar may fail, or be carried out and its answer lost; a request
may die at any step.  `reaping` and `reaped` are the job that finishes incomplete
removals: it selects, calls the sidecar row by row, and commits once at the end.

Three things leave a peer that no row records, and nothing in the code
prevents them.  They are the **mishaps**, at most `MaxMishaps` of them: the sidecar
fails a DELETE's call, after which the row is cleared all the same
(`wireguard/routes.py:186-201`); a request begins while another is under way on the
same router; a removed router is set up (`_load_router` does not test `is_active`).
`NoStrayPeer` says what holds until the first; `FreedAddressHasNoPeer`, the promise of
`mikrotik/removal.py:184-190`, is what one of them breaks (finding 6).

### SmsUsage

For each text, `writing` is where the metering of it stands (`sms/metering.py`
tries up to three times, each in its own transaction) and `row` the records its
tries made, with their age in months.  The invoice run reads the unbilled
records of earlier months and commits them with the invoice, or is rolled back
(`sms/billing_rollup.py`, `jobs/invoice_generation.py`).

### SignIn

One admin's account.  `token_version` is the version every token and reset
grant must carry; `minted` and `granted` are the versions some token and some
grant carries.  `count` and `locked` are the three limits (password, PIN,
security answer).  Sign-ins and answers hold the row `FOR UPDATE` from their
read to their commit (`row_lock`, `loaded`).  The PIN's handlers lock nothing:
they read the row with the token (`pin_reads`), await the rate limits, and write
what they make of what they read (`pin_wrong`, `pin_right`, `reset_my_pin`), only the
columns they have changed (`Flushed`).  `PinsOverlap` says whether anything may
happen in between.  `elevation` is the PIN's window: it stands on the account, so
whether it was entered in this session is kept apart (`this`, `earlier`).
`tested` and `texted` are history for the properties.

`GuessesBounded` and `OneTextPerLock` speak of passwords and answers, whose
handlers lock the row: they hold with PIN requests that overlap as well.
`PinLockTextsOnce` is the same of the PIN, and fails (finding 7).

### LoginLimits

The Redis counters of one site: per device, for its address, for the operator.
The check reads them before the code is looked up and the failure is counted
afterwards; only the request whose count equals the limit reports the site.

### NumericCodes

Damm's check digit (`vouchers/engine.py`): the code on the slip and the one that
is typed, each followed by its interim digit only, so that a hundred pairs stand
for codes of every length.  `slip` is one digit mistaken or two neighbours
swapped, at any place, the check digit included.

### MCParts

The six small components share no state.  `part` chooses which of them moves
in a behaviour; the others keep their initial state.  So their state spaces add
up in one run, and each property is that of the component's own specification.
A component's fairness is owed in the behaviours where it moves.  `MCParts` extends `JobLock`, `Tunnels` and `SignIn`, whose theorems are
about the very properties the run checks; so their specifications have names of
their own (`TunnelsSpec`, `SignInSpec`).

## 3. What the runs check

| Run | Instance | Shows |
|---|---|---|
| `money_race` | payments: 2 sessions, no phone, no refunds; billing: 2 processes in the locking handlers, the others alone, 2 invoices, 1 checkout, 1 payment by hand, 1 status change | `VoucherOnlyWhenPaid`, `SuccessHasVoucher`, `SettledNotRevived` in every interleaving; `DebtBehindStatus`, `LedgerAgrees`, `ManualSuspensionStands` |
| `money_serial` | payments: 1 session at a time, phone, 1 refund; billing: 1 process at a time, 2 invoices, no checkout, 1 payment, 2 status changes; fairness | `OneVoucher`, `TextedOnce`, the refinement `KeepsPromise`, `PendingEnds`; `CancelledNotBilled`, `SuspendedForDebt`, the refinement `BillingKeepsPromise`, `DebtCollected` |
| `payments_double` | 2 sessions | `OneVoucher` **fails**: see finding 1 |
| `billing_stale` | enforcement, webhook and manual payment overlap | `SuspendedForDebt` **fails**: finding 2 |
| `billing_checkouts` | 1 process, 3 checkouts, 1 manual payment | `OneLiveCheckout` **fails**: finding 3 |
| `parts` | `MCParts`: the lock with 4 ticks and no overrun; 2 routers, 3 keys, 2 addresses, 2 requests, 1 death of the job, no mishap; 2 texts, one without reference; 2 sign-ins at once, PIN requests alone, 2 versions; 2 portal requests, 2 devices; codes of any length; fairness | `OneRun`, `SelfHeals`; `NoStrayPeer`, `RemovalCompletes`; `BilledOnce`, `EverySendIsBilled`; `GuessesBounded`, `OneTextPerLock`, `RevokedStaysRevoked`, `ElevationNotInherited`; `WrongCodesBounded`, `BlockedSiteIsReported`; `SlipsAreRefused` |
| `tunnels_stray` | 2 routers, 3 keys, 2 addresses, 2 requests, 1 mishap | `FreedAddressHasNoPeer` **fails**: finding 6 |
| `signin_pins` | 2 attempts, PIN requests overlap | `PinLockTextsOnce` **fails**: finding 7 |
| `job_lock_overrun` | 2 ticks that may overrun | `DeletesOwnLock` **fails**: finding 4 |
| `consignment_race` | 2 codes, 2 status changes in flight, 2 commissions, 1 error or crash, fairness | `OwesOnlyForUse`, the refinement `KeepsPromise`, `EveryUseIsCharged` |
| `consignment_reclaimed` | 2 codes, 1 status change in flight | `ReclaimedIsDead` **fails**: finding 5 |
| `access` | 1 session id that comes round, 1 job in flight, 1 fault, 2 attempts, fairness | `NotRevived`, `MarkIsOfThisEnd`, `LiveRowKept`, the refinement `KeepsPromise`, `RowsClose`, `RetriesEnd`, `ServiceCutOff` |

Bounds and why they suffice.  The races of a payment are between two sessions:
one that has loaded the row and one that changes it; a third adds another
writer and no new kind of stale copy, and the theorems of section 5 hold for
any number.  A refund (one in the serial run) ends what the code promises about
a payment.  Two invoices are what it takes for one to be paid while another is
still overdue.  Two status changes reach suspended-then-cancelled and
cancelled-then-restored; with one payment per invoice each invoice can be
paid, reversed and paid again through the other channel.  Three checkouts are
the first, its successor and a second live one.  Four ticks leave a holder, a
crashed holder and two more that try.  Two codes are allocated, reclaimed and
repaired together or apart; two status changes in flight are what it takes for
one to overwrite the other (two restores of one code); one error makes the
trigger, the repair or its worker fail, and the theorems hold for any number of
each.  The fixed commission exceeds the price, so that the cap is met.

`VoucherAccess`: one Acct-Session-Id stands for every session, because it is
reused: a second login under it meets the row, the packets and the events of the
first.  One job runs at a time next to the router, the network, the clients and
the owners (the theorems of section 5 hold for any number); a disconnect has 2
attempts (the code: 3).  A behaviour meets one kind of fault: packets (lost,
repeated, overtaken) or the router and the workers (an outage, failing calls, a
death).  Routers without API credentials are met only with the packets; the
code promises nothing of who is on such a router beyond its disconnects, and
`KeepsPromise` says so.  One reason to end access is met at a time, the
voucher's or the operator's; an id comes round only after its row is closed,
unless packets were lost.

The small components: two routers are what it takes for one to be given the
other's address; a text that is recorded twice and one whose record comes in the
next month need two texts, the thresholds are 2 (code: 5, 3, 10) and the
tries 2 (code: 3); two sign-ins and two portal requests are the race each
property is about, and the theorems of `SignInProofs`, `TunnelsProofs` and
`PartsProofs` hold for any number.
`NumericCodes` has no bound: its states are finite as they are.

Two of the bounds of `parts` take something away that the code does, and its
properties must be read with them.  With `MaxMishaps = 0` requests on one router
come one after the other (on two routers they overlap), none sets up a removed
router, and the sidecar answers a DELETE's call; `NoStrayPeer` is stated for such
behaviours (`mishaps = 0 => ...`), and `RemovalCompletes` is checked in them only.
With `PinsOverlap = FALSE` a PIN request runs alone, which `RevokedStaysRevoked` and
`ElevationNotInherited` need: an overlapping one may reuse a version, or write a
window after a logout.  The runs `tunnels_stray` and `signin_pins` have the mishap
and the overlap.

`CHECK_DEADLOCK FALSE` in the Money and Billing runs: with all bounds used up and
all invoices settled there is nothing left to do in the billing.

## 4. Fairness

- **Payments.** Time passes; a session that has begun goes on or dies
  (`WF`); the cron starts reconciliation again and again, and none of a run's
  own steps is lost for ever (`SF`): the arq worker restarts, and a provider
  that is asked every few minutes answers at last.  Nothing is assumed of the
  customer, of webhooks or of requests.  Without the answer of the provider the
  property would not hold: a verification that keeps raising is skipped before
  the two-hour test (`payment_reconciliation.py`, the `continue` after the
  exception).
- **Billing.** A handler under way goes on or is rolled back (`WF`); the daily
  enforcement is started again and again, its runs are from some time on not
  broken off, and its commit is not refused for ever.  The last two are real
  assumptions: one operator's refused CHECK rolls the run back for all, and if
  it happened every day no debt would ever be collected.
- **JobLock.** Redis drops a key whose TTL has passed (`WF`).
- **VoucherAccess.** A run that has begun goes on, a retry is made, the watchdog
  comes round, the router comes back, an Access-Accept arrives or is lost
  (`WF`).  Expiry, wind-down and reconciliation are on the cron schedule of
  `jobs/worker.py:48-79` and begin again and again (`SF`, because the bound on
  jobs in flight and an absent router disable them in between), and rows grow
  older (`SF`).  Nothing is owed by clients, the network or the owners.
- **Tunnels.** The clean-up job begins and commits (`WF`), and a sidecar that is
  asked for ever about a router answers in the end (`SF`).
- **SmsUsage.** Months turn, tries begin and end (`WF`); the invoice run comes
  round and is not rolled back for ever (`SF`).
- **SignIn, LoginLimits, NumericCodes.** Safety only.
- **Consignment.** The cron starts the repair every night, and a run that has
  codes left goes on (`WF`); database errors and crashes are at most `MaxFaults`,
  because a repair that failed every night would never add anything.  Nothing
  is assumed of customers, the operator or requests.

## 5. What is proved

For any set of sessions, any number of refunds, with or without a phone number
(`ConstantsAssumption`):

- `TypeCorrect` (PaymentsProofs): `Spec => []TypeOK`.
- `SuccessAlwaysHasVoucher`: `Spec => []SuccessHasVoucher`.  The property is not
  inductive: a session may flush a voucher it loaded.  `SaleInv` adds that the
  row and every loaded object name only issued vouchers; `FlushedSale` is the
  lemma that a flush that sells nothing neither changes the row's voucher nor
  turns it into a success.
- `VouchersArePaidFor`: `Spec => []VoucherOnlyWhenPaid`, from `PaidInv`: whoever
  has heard of a success (an answer held, a webhook sent, a session about to
  resolve, a voucher issued) implies that the charge was paid.  This holds with
  any number of racing sessions, so the double sale of finding 1 never gives a
  voucher for free: it gives two for one payment.
- `SettledStaysSettled`: `Spec => SettledNotRevived`, from `LiveInv`: an object
  through which a verdict may write the status was pending when loaded, so a
  flush never writes `pending` over anything.
- `OneVoucherPerPayment`, `TextsAreNotRepeated` and `PromiseIsKept`: `Spec /\
  []CopiesCurrent` implies `[]OneVoucher`, `[]TextedOnce` and `KeepsPromise`.
  `CopiesCurrent` says that the status, reason and voucher a session has loaded
  are those committed.  The code does not ensure it, and then `payments_double`
  refutes the first: so the stale copy is not one cause of finding 1 but the only
  one, however polls, webhooks, re-checks, runs and crashes interleave.
  `StageInv` ties the vouchers issued to the row's status and says at each step
  of a session what its object may be; `TextInv` that only the session that sold
  enqueues the text, and arq forgets the job only after its one try.
- `AloneIsCurrent`: `Spec /\ []OneAtATime => []CopiesCurrent`: sessions one after
  another, crashes included, meet the condition; `OneAtATimeKeepsAll` draws the
  three conclusions (`money_serial` checks one such instance, with a refund).

For any invoices, any number of processes, checkouts, payments and status
changes, and any `Overlap`.  Each theorem names the handlers that must run
alone for it, `Alone(h)` (`h \notin Overlap`), because they write what they read
without a lock; everything else may interleave as it likes:

| Theorem (BillingProofs) | States | Alone |
|---|---|---|
| `BillingTypes` | `BillingSpec => []BillingTypeOK` | none |
| `LedgerAlwaysAgrees` | `BillingSpec => []LedgerAgrees` | waive, checkout, enforce |
| `StatusHasDebt` | `BillingSpec => []DebtBehindStatus` | enforce |
| `CancelledStaysOut` | `BillingSpec => []CancelledNotBilled` | trial |
| `OwnersSuspensionStands` | `BillingSpec => ManualSuspensionStands` | enforce |
| `SuspensionHasDebt` | `BillingSpec => SuspendedForDebt` | enforce |
| `PromiseIsKept` | `BillingSpec => BillingKeepsPromise` | waive, enforce |
| `OneCheckoutUnlessReversed` | `BillingSpec /\ []NothingReversed => []OneLiveCheckout` | checkout, enforce |

Finding 2 shows that `SuspensionHasDebt` needs its condition; the run that ends
trials and `waive_invoice` need theirs for the reasons given as hazards in
`PROJECT.json`.  `OneCheckoutUnlessReversed` says that with these two alone the
reversal is what finding 3 takes.  Overlapping with a payment by hand, the
enforcement run turns the paid invoice back into an overdue one whose stored
reference names no checkout: a second checkout beside the open one, without any
reversal, and a ledger that disagrees.

- The invariant `Inv` they share holds whatever overlaps: `AloneInv`, of two
  handlers under way each is one that overlaps; `WorkInv`, what each relies on
  between its steps, of which one part needs nothing (the checkout a webhook is
  about stays paid, two requests never store the same checkout, an invoice that
  was looked up exists) and one part needs the handler alone (an invoice being
  waived or checked out is still unpaid, the operator the enforcement run loaded
  is the operator, its candidates are overdue past their grace); `ReasonInv`,
  only a suspended operator has a reason.
- On top of it: `LedgerInv`, `LedgerAgrees` with the places in bounds; `LinkInv`,
  until an invoice is closed an open checkout of it is the stored one;
  `BilledInv`, there is no checkout of an invoice that does not exist yet.
- `RowMoves` lists all that a step may do to the operator's row, and `RowStep`
  shows that nothing else happens; the properties of the row follow from what
  each of the five moves does.  For `PromiseIsKept`, each group of actions moves
  the stage of one bill, or marks some of them late, or shows nothing.

In `PartsProofs`, for any ticks, texts, tries, months, requests and devices:

- `RunsDoNotOverlap` and `DeletesOnlyItsOwn` (`JobLock`), both assuming
  `~MayOverrun`; `HolderInv` says that whoever works or releases has its token
  in the key.  `TypeCorrect` there gives the type invariant, which no run lists.
- `TextsAreBilledOnce` (`SmsUsage`): `BilledOnce`, from `SmsInv`: of a text with a
  provider's reference at most one try has left its record, only records are
  charged, and the invoice run has read nothing else.
- `LimitsAreNearlyKept` and `BlockedSitesAreReported` (`LoginLimits`).
  `LimitsAssumption`: finitely many requests, at least one device, positive
  limits (`platform/routes.py:1987` takes 1 to 10000), and counters of a device,
  an address and an operator under different keys.  `LimitsInv` weighs a count
  against the requests that have passed its check: each will add one at most, so
  the count and those requests together stay below the limit and all requests.
- `SlipsAreAlwaysRefused` (`NumericCodes`): `SlipsAreRefused`, from `CodeInv` and
  the lemma `Damm`, that the table has a Latin row and column for each digit and
  never gives two neighbours the same result in both orders.
- `PartsAreThemselves`: a behaviour of `PartsSpec` is one of each component's own
  specification, so what the theorems say of a component is said of the run.

For any codes, prices, legal commissions, status changes in flight and faults
(`ConsignmentAssumption`):

- `TypeCorrect` (ConsignmentProofs), with `CommissionWithinPrice`: under any
  legal rate the commission is between zero and the price, so the CHECK on a
  redemption's amounts never refuses the row.
- `OwesOnlyForUseAlways`: `Spec => []OwesOnlyForUse`.  A repair run charges what
  it selected earlier, so the invariant has to say that those codes were used,
  and that a code not yet printed was not (`UseInv`); a use is never forgotten
  and only an unused code is taken back.
- `PromiseIsKept`: `Spec => KeepsPromise`.  Every step of `Consignment`, stale
  writes included, is a step of `ConsignmentPromise` or leaves what is shown of
  the codes alone.
- `ReclaimedUnlessRevived`: `Spec /\ []NoRevival => []ReclaimedIsDead`.  Finding 5
  takes a restore, or an Accounting-Start of the endpoint that read the code
  before it was taken back and is written after: no other writer, stale or not,
  brings such a code back.  `DeadInv` adds that it was never used, and that what
  ends a use is only ever written to used codes.

For any session ids, jobs in flight, faults and attempts
(`VoucherAccessAssumption`), in `VoucherAccessProofs`:

- `AccessTypes`: `Spec => []TypeOK`; an event's attempts stay below the limit.
- `EndedStaysEnded`: `Spec => NotRevived`, from what each action can do to the
  status; `MarkMeansEnded`: `Spec => []MarkIsOfThisEnd`.
- `ReconcileKeepsLiveRows`: `Spec => LiveRowKept`.  It needs `FreshRowsYoung`:
  while a reconciliation that saw an empty router is in flight, whoever is on
  the air under a row of his own came since, and that row has not passed the
  grace.
- `StepsKeepPromise`: initial states and steps of `VoucherAccess` are those of
  `AccessPromise`.  The promise's fairness is left to TLC (`KeepsPromise`).

For any routers, keys, addresses (natural numbers, whose order gives the first
free one), requests under way, deaths of the job and mishaps (`Hypotheses` in
`TunnelsProofs`: no more than that `None` is none of these):

- `AddressesDiffer`: no address is allocated to two routers.  No condition: it holds
  whatever overlaps, fails or dies, because a setup about to commit an
  allocation of its own has an address nobody else has (`SavingInv`), which is
  what the advisory lock is for.
- `StrayPeersNeedAMishap`: `TunnelsSpec => []NoStrayPeer`: until a mishap every peer
  is one a row records and no two rows share a key or an address.  It says
  nothing of what follows a mishap.  It is not inductive.  `CleanInv`, which holds
  until a mishap, adds that requests on one router come one after the other
  (`AloneInv`), that what a request or the job loaded is still on the row or the
  row has been cleared (`HeldInv`), and that a peer the sidecar has removed stays
  away until then (`GoneInv`).  The condition is no assumption on the constants:
  the mishaps are steps of the specification, and `NoStrayPeer` counts them.

For any attempts, thresholds and versions (`Limits` in `SignInProofs`):

- `LimitsHold` and `LockTextsOnce`: `SignInSpec` implies `[]GuessesBounded` and
  `[]OneTextPerLock`, for passwords and answers, with PIN requests that overlap as
  they like.  From `AccountInvariant`: an attempt that has loaded the row for
  update holds its lock, so what it loaded is what is there, but for a lock that
  lapses; the guesses tested are those counted while no lock has lapsed.
- `RevocationIsFinal`, `SignInSpec => RevokedStaysRevoked`, and `WindowNotInherited`,
  both assuming `~PinsOverlap`.  From `AloneInvariant`: no token or grant is of a
  version still to come, what a PIN request has read is what is there, and a
  window of an earlier session stands only under a lock of the PIN.

Each proof splits on the actions of `Next`, grouped as the code groups them
(portal, settlement, jobs, environment), with lemmas for what a session's end,
a load and a flush do to the state.

Only model-checked: the liveness properties (`PendingEnds`, `DebtCollected`,
`SelfHeals`, `EveryUseIsCharged`, `RowsClose`, `RetriesEnd`, `ServiceCutOff`,
`RemovalCompletes`, `EverySendIsBilled`, the fairness in `KeepsPromise` of
`VoucherAccess`), which rest on fairness and `ENABLED`, out of the prover's reach.
The properties of the first five findings (`OneVoucher`, `SuspendedForDebt`,
`OneLiveCheckout`, `DeletesOwnLock`, `ReclaimedIsDead`) are refuted as they stand
and proved under the conditions above, which the code does not ensure: each says
what a fix has to bring about.  `FreedAddressHasNoPeer` and `PinLockTextsOnce` are
refuted and not proved of anything.
Facts by induction over data and `RECURSIVE` operators are out of the prover's
reach as well; no module here uses them.

## 6. Where the code and its documentation disagree

1. **Two vouchers for one payment** (`payments_double`).  `service.py:414`
   locks the row, but the session already holds the object it loaded while the
   payment was pending, and tests that.  A poll and a webhook that both loaded
   a pending row each issue a voucher.  `jobs/voucher_sms.py:5-6` says that only
   the caller that flips the payment enqueues.
2. **Suspended for an invoice just paid** (`billing_stale`).  The enforcement
   run selects its invoices, notifies, and commits at the end without looking
   again.
3. **Two live checkouts** (`billing_checkouts`).  Reversing a manual payment
   erases the stored reference of a checkout that is still open.
4. **Releasing another run's lock** (`job_lock_overrun`).  GET and DEL are two
   commands, and the key can change hands between them.
5. **A reclaimed code can be used again** (`consignment_reclaimed`).
   `consignment.py:204-205` disables it "for good", but restoring it from the
   vouchers page makes it unused (`engine.py:405-407`), and a use of it is
   charged to nobody because its allocation stays reclaimed.
6. **An address given out under a live peer** (`tunnels_stray`).  DELETE
   `/wireguard` clears the row and its allocation although the sidecar failed
   (`wireguard/routes.py:186-201`; "the peer can be reaped later", line 181, but
   nothing looks for one), and the next router gets the address.
   `mikrotik/removal.py:184-190` keeps the key on the row so that this does not
   happen.  It happens without a failure too: between setup's commit and its
   `add_peer` (lines 85-90) a DELETE or a removal takes away the row and not the
   peer; a second setup makes a key of its own for a router that is getting one;
   a DELETE that loaded no tunnel frees the address of the one made since.
7. **Two texts for one lock of the PIN** (`signin_pins`).  Two wrong PINs that both
   read the count one below the limit both lock and both text, against
   `admin_accounts/lockout.py:21-25`; two further below count as one, so more are
   tested than the limit (`admin_accounts/routes.py:735`).

## 7. Not modelled, and why

- Providers other than Paystack and Flutterwave, and a switch of provider with
  payments open (`provider_for_transaction`): next in Payments.
- Amounts, currencies, taxes and invoice lines: the control does not depend on
  them, apart from the verification of a charge, a pure function kept for the
  algorithms below.
- Encryption, templates, emails, texts' wording, CRUD endpoints, dashboards and
  the front ends: no state machine, or pure I/O.
- A reseller's payments and reversals: each is one transaction under a row lock,
  with a trigger and a UNIQUE key behind it; the balance is a sum computed on
  reading.
- The repository vendors pypdf (`src/.vendor`, over 30,000 lines), and most of the rest is
  routes that validate, store and list, templates, migrations and front ends.
  The models cover the parts with a state machine, a few thousand lines;
  mapping more would mean to widen lines past what a definition translates.
- Components listed as `not_modelled` in `PROJECT.json`, for the reasons there.

Races that are known and outside the instances:

- `change_my_password` reads the admin without a lock and is one step in `SignIn`;
  overlapping with another writer it may use a version twice.  With PIN requests
  that overlap, a version may be used twice and an elevation written after a
  logout: `RevokedStaysRevoked` and `ElevationNotInherited` are not checked there.
- After a mishap in `Tunnels` only `AddressesDiffer` is claimed.  The sidecar's
  saved peer list is never behind the interface.
- A login limit lowered between two failures is never equalled by a count, so the
  blocked site is not reported (`login_limits.py:235` tests `==`).
- The polling of a text's delivery writes the state it read over a later one
  (`sms/status_tracking.py`).
- Waiving an invoice (`platform/routes.py`) and recording a refund
  (`payments/routes.py`) take no lock on the row they change.

## 8. Plan

In this order, the most important behaviour first:

1. `Payments`, `PaymentPromise`, proofs: done.
2. `Billing`, `BillingPromise`, proofs: done.
3. `JobLock` with proofs: done.
4. `VoucherAccess`, `AccessPromise`, proofs: done, with the wind-down.
5. `Consignment`, `ConsignmentPromise`, proofs: done, without the account's
   payments and reversals.
6. `SignIn`, `LoginLimits`, `NumericCodes`, all with proofs: done, with the races of
   the PIN, without those named in section 7.
7. `Tunnels`, `SmsUsage`, both with proofs: done.
8. Left: several sessions and devices of one voucher; a switch of payment
   provider; the other pure algorithms (SMS segmentation, the verification of a
   charge), each against a reference definition.
