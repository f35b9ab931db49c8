SPECIFICATION Spec
CONSTANTS
  Code = {c1, c2}
  Request = {r1}
  Prices <- PlanPrices
  Rates <- Commissions
  MaxFaults = 1
  NoRedemption = none
  NoTransition = idle
INVARIANTS ReclaimedIsDead
