SPECIFICATION BillingSpec
CHECK_DEADLOCK FALSE
CONSTANTS
  Proc = {p1, p2}
  Invoice = {i1}
  MaxCheckouts = 1
  MaxPayments = 1
  MaxMoves = 1
  Overlap <- Stale
  NoInvoice = none
PROPERTIES SuspendedForDebt
