------------------------------- MODULE MCParts -------------------------------
(***************************************************************************)
(* The small components side by side, for one run of TLC.  They share no   *)
(* state, so in every behaviour one of them moves, `part`, and the others  *)
(* keep their initial state: their state spaces add instead of multiply,   *)
(* and each component's properties are those of its own specification.     *)
(***************************************************************************)
EXTENDS JobLock, Tunnels, SignIn

CONSTANTS
  Send, Unreferenced, MaxAttempts, Floor, MaxAge,
  Request, Device, IP, Operator, DeviceLimit, IpLimit, AlertLimit, MaxWrong

VARIABLES
  part,
  writing, attempt, row, account, on_fee, invoiced, run_step, taken,
  step, mac, seen, counted, noted,
  printed, typed, slip

\* Of LoginLimits: the platform's settings are at least 1 each, and a device's
\* counter is not the one of the site or the operator (three key prefixes).
ASSUME LimitsAssumption ==
  /\ IsFiniteSet(Request) /\ Device # {}
  /\ IpLimit \in Nat \ {0} /\ DeviceLimit \in Nat \ {0}
  /\ IP \notin Device /\ Operator \notin Device

U == INSTANCE SmsUsage
L == INSTANCE LoginLimits
N == INSTANCE NumericCodes

cron_lock == vars
sms == <<writing, attempt, row, account, on_fee, invoiced, run_step, taken>>
portal == <<step, mac, seen, counted, noted>>
code == <<printed, typed, slip>>
all == <<part, cron_lock, tunnels, sms, sign_in, portal, code>>

PartsInit ==
  /\ part \in {"cron lock", "tunnels", "sms", "sign-in", "portal", "code"}
  /\ Init /\ TunnelsInit /\ U!Init /\ SignInInit /\ L!Init /\ N!Init
  /\ part # "sms" => account = "active" /\ on_fee

PartsNext ==
  \/ part = "cron lock" /\ Next /\ UNCHANGED <<part, tunnels, sms, sign_in, portal, code>>
  \/ part = "tunnels" /\ TunnelsNext /\ UNCHANGED <<part, cron_lock, sms, sign_in, portal, code>>
  \/ part = "sms" /\ U!Next /\ UNCHANGED <<part, cron_lock, tunnels, sign_in, portal, code>>
  \/ part = "sign-in" /\ SignInNext /\ UNCHANGED <<part, cron_lock, tunnels, sms, portal, code>>
  \/ part = "portal" /\ L!Next /\ UNCHANGED <<part, cron_lock, tunnels, sms, sign_in, code>>
  \/ part = "code" /\ N!Next /\ UNCHANGED <<part, cron_lock, tunnels, sms, sign_in, portal>>

\* Each component's own fairness, owed in the behaviours where it moves: the
\* part that stands still has steps it could take and never does.  The sign-in,
\* the portal and the code have safety properties only.
PartsFairness ==
  \/ part = "cron lock" /\ WF_cron_lock(ttl_expires)
  \/ part = "tunnels" /\ TunnelsFairness
  \/ part = "sms" /\ U!Fairness
  \/ part \notin {"cron lock", "tunnels", "sms"}

PartsSpec == PartsInit /\ [][PartsNext]_all /\ PartsFairness

-----------------------------------------------------------------------------
(* The properties of JobLock, Tunnels and SignIn are used as they are.     *)

\* SmsUsage: a text with a reference is charged at most once.
BilledOnce == U!BilledOnce

\* SmsUsage: a recorded text is charged in the end.
EverySendIsBilled == part = "sms" => U!EverySendIsBilled

\* LoginLimits: the limit is passed at most by the requests in flight.
WrongCodesBounded == L!WrongCodesBounded

\* LoginLimits: somebody is told of a site that is blocked.
BlockedSiteIsReported == L!BlockedSiteIsReported

\* NumericCodes: a code with one slip is refused.
SlipsAreRefused == N!SlipsAreRefused
==============================================================================
