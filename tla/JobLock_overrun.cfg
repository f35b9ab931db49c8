SPECIFICATION Spec
CONSTANTS
  Run = {r1, r2}
  NoRun = none
  MayOverrun = TRUE
INVARIANTS DeletesOwnLock
