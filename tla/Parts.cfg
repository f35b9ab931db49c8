SPECIFICATION PartsSpec
CONSTANTS
  Run = {r1, r2, r3, r4}
  NoRun = none
  MayOverrun = FALSE
  Router = {ra, rb}
  Key = {k1, k2, k3}
  Address = {1, 2}
  Call = {c1, c2}
  MaxMishaps = 0
  None = none
  MaxCrashes = 1
  Send = {s1, s2}
  Unreferenced = {s2}
  MaxAttempts = 2
  Floor = 2
  MaxAge = 2
  Attempt = {a1, a2}
  NoAttempt = none
  LOGIN_MAX_ATTEMPTS = 2
  PIN_MAX_ATTEMPTS = 2
  SECURITY_ANSWER_MAX_ATTEMPTS = 2
  MaxVersion = 2
  PinsOverlap = FALSE
  Request = {q1, q2}
  Device = {d1, d2}
  IP = ip
  Operator = op
  DeviceLimit = 1
  IpLimit = 2
  AlertLimit = 2
  MaxWrong = 3
INVARIANTS OneRun NoStrayPeer BilledOnce GuessesBounded OneTextPerLock ElevationNotInherited WrongCodesBounded BlockedSiteIsReported SlipsAreRefused
PROPERTIES SelfHeals RemovalCompletes EverySendIsBilled RevokedStaysRevoked

