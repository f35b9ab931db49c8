SPECIFICATION MoneyFairSpec
\* An operator whose invoices are settled needs nothing more from the billing.
CHECK_DEADLOCK FALSE
CONSTANTS
  Session = {s1}
  HasPhone = TRUE
  MaxRefunds = 1
  Proc = {p1}
  Invoice = {i1, i2}
  MaxCheckouts = 0
  MaxPayments = 1
  MaxMoves = 2
  Overlap = {}
  NoInvoice = none
INVARIANTS OneVoucher TextedOnce CancelledNotBilled
PROPERTIES KeepsPromise PendingEnds SuspendedForDebt BillingKeepsPromise DebtCollected
