SPECIFICATION FairSpec
CONSTANTS
  Code = {c1, c2}
  Request = {r1, r2}
  Prices <- PlanPrices
  Rates <- Commissions
  MaxFaults = 1
  NoRedemption = none
  NoTransition = idle
INVARIANTS OwesOnlyForUse
PROPERTIES KeepsPromise EveryUseIsCharged
