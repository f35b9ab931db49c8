SPECIFICATION BillingSpec
CHECK_DEADLOCK FALSE
CONSTANTS
  Proc = {p1}
  Invoice = {i1}
  MaxCheckouts = 3
  MaxPayments = 1
  MaxMoves = 0
  Overlap = {}
  NoInvoice = none
INVARIANTS OneLiveCheckout
