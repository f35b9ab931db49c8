SPECIFICATION MoneySpec
\* An operator whose invoices are settled needs nothing more from the billing.
CHECK_DEADLOCK FALSE
\* Sessions and handlers have the same names: one symmetry serves both.
CONSTANTS
  Session = {p1, p2}
  HasPhone = FALSE
  MaxRefunds = 0
  Proc = {p1, p2}
  Invoice = {i1, i2}
  MaxCheckouts = 1
  MaxPayments = 1
  MaxMoves = 1
  Overlap <- Locked
  NoInvoice = none
SYMMETRY Symmetry
INVARIANTS TypeOK VoucherOnlyWhenPaid SuccessHasVoucher BillingTypeOK DebtBehindStatus LedgerAgrees
PROPERTIES SettledNotRevived ManualSuspensionStands
