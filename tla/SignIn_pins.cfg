SPECIFICATION SignInSpec
CONSTANTS
  Attempt = {a1, a2}
  NoAttempt = none
  LOGIN_MAX_ATTEMPTS = 2
  PIN_MAX_ATTEMPTS = 2
  SECURITY_ANSWER_MAX_ATTEMPTS = 2
  MaxVersion = 2
  PinsOverlap = TRUE
INVARIANTS PinLockTextsOnce
