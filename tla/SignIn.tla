-------------------------------- MODULE SignIn --------------------------------
(***************************************************************************)
(* One operator admin's account: wrong passwords, PINs and security        *)
(* answers with their limits, the version that every token and every reset *)
(* grant carries, and what ends them.                                      *)
(*                                                                         *)
(* A secret is right or wrong; a token or a grant is its version.          *)
(* The PIN's handlers do not lock the row: they read it with the token,    *)
(* ask Redis twice, and write what they make of it.  A session writes the  *)
(* columns whose value it has changed, and no others.                      *)
(*                                                                         *)
(* Bounds: MaxVersion; PinsOverlap, whether the row may change between a   *)
(* PIN handler's read and its write; a change of one's own password is one *)
(* step.                                                                   *)
(***************************************************************************)
EXTENDS Integers, FiniteSets

CONSTANTS Attempt, NoAttempt,
          LOGIN_MAX_ATTEMPTS, PIN_MAX_ATTEMPTS, SECURITY_ANSWER_MAX_ATTEMPTS,
          MaxVersion,   \* bound: the versions there are
          PinsOverlap   \* bound: whether PIN requests overlap with others

Kind == {"login", "pin", "answer"}
Threshold == [login |-> LOGIN_MAX_ATTEMPTS, pin |-> PIN_MAX_ATTEMPTS]

VARIABLES is_active,      \* of the admin
          logins_on,      \* of the operator: not disabled, not cancelled
          token_version,
          minted, granted,   \* the versions some token, some grant carries
          count, locked,    \* per kind; a lock is a time: none, ahead, or past
          elevation,      \* a PIN entered in this session, an earlier one, or none
          row_lock,       \* the attempt that holds the row FOR UPDATE
          loaded,         \* what each attempt in progress has read of the row
          tested, texted  \* guesses tested and texts sent since the last clear

access == <<is_active, logins_on>>
counters == <<count, locked>>
tokens == <<minted, granted>>
history == <<tested, texted>>
signing == <<row_lock, loaded>>
sign_in == <<access, token_version, tokens, counters, elevation, signing, history>>

LockTimes == {"none", "ahead", "past"}
NotReading == [kind |-> "none", count |-> 0, lock |-> "none", version |-> 0]

Loads == [kind : Kind \cup {"none"}, count : Nat, lock : LockTimes, version : 0..MaxVersion]

SignInTypeOK ==
  /\ is_active \in BOOLEAN /\ logins_on \in BOOLEAN
  /\ token_version \in 0..MaxVersion
  /\ minted \subseteq 0..MaxVersion /\ granted \subseteq 0..MaxVersion
  /\ count \in [Kind -> Nat]
  /\ locked \in [Kind -> LockTimes]
  /\ elevation \in {"none", "this", "earlier"}
  /\ row_lock \in Attempt \cup {NoAttempt}
  /\ loaded \in [Attempt -> Loads]
  /\ tested \in [Kind -> Nat] /\ texted \in [Kind -> Nat]

SignInInit ==
  /\ is_active = TRUE /\ logins_on = TRUE
  /\ token_version = 0 /\ minted = {} /\ granted = {}
  /\ count = [k \in Kind |-> 0] /\ locked = [k \in Kind |-> "none"]
  /\ elevation = "none"
  /\ row_lock = NoAttempt /\ loaded = [a \in Attempt |-> NotReading]
  /\ tested = [k \in Kind |-> 0] /\ texted = [k \in Kind |-> 0]

admin_may_sign_in == is_active /\ logins_on

RowUnlocked == TRUE   \* mutant: the row read without FOR UPDATE
RowFree == row_lock = NoAttempt

\* Without overlaps nobody has the row, or changes it, while a PIN handler does
\* its work.
PinsAlone == PinsOverlap \/ (RowFree /\ \A a \in Attempt : loaded[a].kind # "pin")

-----------------------------------------------------------------------------
(* Counters and the version                                                *)

clear(K) ==
  /\ count' = [k \in Kind |-> IF k \in K THEN 0 ELSE count[k]]
  /\ locked' = [k \in Kind |-> IF k \in K THEN "none" ELSE locked[k]]
  /\ tested' = [k \in Kind |-> IF k \in K THEN 0 ELSE tested[k]]
  /\ texted' = [k \in Kind |-> IF k \in K THEN 0 ELSE texted[k]]

\* What a session's flush leaves in a column that it read as `was` and set to
\* `is`.
Flushed(was, is, column) == IF is = was THEN column ELSE is

Counts(k, read, n) ==
  /\ count' = [count EXCEPT ![k] = Flushed(read.count, n, @)]
  /\ tested' = [tested EXCEPT ![k] = @ + 1]

\* Counts one failure from the values the handler has read.  A lock that has
\* lapsed is the end of a run of failures, and the failure starts another.
Failures(read) == (IF read.lock = "past" THEN 0 ELSE read.count) + 1
Locks(k, read) == Failures(read) >= Threshold[k]

register_failure(k, read) ==
  /\ Counts(k, read, Failures(read))
  /\ locked' = [locked EXCEPT ![k] =
       IF Locks(k, read) THEN "ahead"
       ELSE Flushed(read.lock, IF read.lock = "past" THEN "none" ELSE read.lock, @)]
  /\ texted' = [texted EXCEPT ![k] = IF Locks(k, read) THEN @ + 1 ELSE @]

\* From the version the handler has read.
EndsSessionsOf(version) ==
  /\ version < MaxVersion
  /\ token_version' = version + 1
EndsSessions == EndsSessionsOf(token_version)

\* An elevation the handler leaves on the row outlives the session it was
\* entered in.
Outlived == IF elevation = "this" THEN "earlier" ELSE elevation

-----------------------------------------------------------------------------
(* POST /auth/login, and the security question of a reset                  *)

Loading(a, k) ==
  /\ loaded[a] = NotReading
  /\ PinsAlone
  /\ loaded' = [loaded EXCEPT ![a] =
       [kind |-> k, count |-> count[k], lock |-> locked[k], version |-> token_version]]

attempt_reads(a, k) ==
  /\ RowFree /\ admin_may_sign_in
  /\ row_lock' = a
  /\ Loading(a, k)
  /\ UNCHANGED <<access, token_version, tokens, counters, elevation, history>>

Answered(a, k) ==
  /\ loaded[a].kind = k
  /\ loaded' = [loaded EXCEPT ![a] = NotReading]
  /\ row_lock' = NoAttempt

LockedNever(k, read) == FALSE   \* mutant: an attempt under a live lock is counted
is_locked(k, read) ==
  IF k = "answer" THEN read.count >= SECURITY_ANSWER_MAX_ATTEMPTS ELSE read.lock = "ahead"

attempt_refused(a, k) ==
  /\ is_locked(k, loaded[a])
  /\ Answered(a, k)
  /\ UNCHANGED <<access, token_version, tokens, counters, elevation, history>>

attempt_wrong(a, k) ==
  /\ ~is_locked(k, loaded[a])
  /\ Answered(a, k)
  /\ IF k = "login"
     THEN register_failure(k, loaded[a])
     ELSE Counts(k, loaded[a], loaded[a].count + 1) /\ UNCHANGED <<locked, texted>>
  /\ UNCHANGED <<access, token_version, tokens, elevation>>

\* Every sign-in starts unelevated: the window is on the account.
ElevationStays == Outlived   \* mutant: pin_verified_until is not cleared
ElevationAtSignIn == "none"

login_right(a) ==
  /\ ~is_locked("login", loaded[a])
  /\ Answered(a, "login")
  /\ clear({"login"})
  /\ elevation' = ElevationAtSignIn
  /\ minted' = minted \cup {token_version}
  /\ UNCHANGED <<access, token_version, granted>>

\* A grant for one new password; the count stays as it is.
answer_right(a) ==
  /\ ~is_locked("answer", loaded[a])
  /\ Answered(a, "answer")
  /\ granted' = granted \cup {token_version}
  /\ UNCHANGED <<access, token_version, minted, counters, elevation, history>>

-----------------------------------------------------------------------------
(* What a session asks for                                                 *)

PinLocked == locked["pin"] = "ahead"
SignedIn == token_version \in minted /\ admin_may_sign_in

\* Needs no onboarding done, no PIN: only a token of the current version.
logout ==
  /\ SignedIn /\ RowFree /\ PinsAlone
  /\ EndsSessions
  /\ elevation' = "none"
  /\ UNCHANGED <<access, tokens, counters, signing, history>>

\* verify_my_pin, the current PIN that set_my_pin asks for, and reset_my_pin:
\* the row is read to test the token, without a lock.
pin_reads(a) ==
  /\ SignedIn
  /\ Loading(a, "pin")
  /\ UNCHANGED <<access, token_version, tokens, counters, elevation, row_lock, history>>

PinAnswered(a) ==
  /\ loaded[a].kind = "pin"
  /\ loaded' = [loaded EXCEPT ![a] = NotReading]
  /\ UNCHANGED <<access, tokens, row_lock>>

pin_refused(a) ==
  /\ is_locked("pin", loaded[a])
  /\ PinAnswered(a)
  /\ UNCHANGED <<token_version, counters, elevation, history>>

pin_wrong(a) ==
  /\ ~is_locked("pin", loaded[a]) /\ RowFree
  /\ PinAnswered(a)
  /\ register_failure("pin", loaded[a])
  /\ IF Locks("pin", loaded[a])
     THEN EndsSessionsOf(loaded[a].version) /\ elevation' = Outlived
     ELSE UNCHANGED <<token_version, elevation>>

\* The PIN's count and lock are cleared as the handler knows them, and the gated
\* areas are open to the session it was asked by.
OpensGates(a) ==
  /\ RowFree
  /\ PinAnswered(a)
  /\ count' = [count EXCEPT !["pin"] = Flushed(loaded[a].count, 0, @)]
  /\ locked' = [locked EXCEPT !["pin"] = Flushed(loaded[a].lock, "none", @)]
  /\ tested' = [tested EXCEPT !["pin"] = 0]
  /\ texted' = [texted EXCEPT !["pin"] = 0]
  /\ elevation' = IF loaded[a].version = token_version THEN "this" ELSE "earlier"
  /\ UNCHANGED token_version

pin_right(a) == ~is_locked("pin", loaded[a]) /\ OpensGates(a)

\* By a code to the phone: it ends a PIN lock.
reset_my_pin(a) == OpensGates(a)

-----------------------------------------------------------------------------
(* A new password: proof of ownership                                      *)

\* Sessions and outstanding grants end, and so do both lockouts.
NewPassword(K) ==
  /\ RowFree /\ PinsAlone
  /\ EndsSessions
  /\ clear(K)
  /\ elevation' = "none"
  /\ UNCHANGED <<access, granted, signing>>

\* The caller is handed a token of the new version.
change_my_password ==
  /\ SignedIn
  /\ NewPassword(Kind)
  /\ minted' = minted \cup {token_version'}

\* The first password, from a session that is over with it.
onboarding_set_password ==
  /\ SignedIn
  /\ NewPassword(Kind)
  /\ UNCHANGED minted

\* The code texted to the verified phone.
reset_verify_otp ==
  /\ admin_may_sign_in
  /\ granted' = granted \cup {token_version}
  /\ UNCHANGED <<access, token_version, minted, counters, elevation, signing, history>>

GrantIsGood == token_version \in granted /\ admin_may_sign_in
reset_set_password ==
  /\ GrantIsGood
  /\ NewPassword(Kind)
  /\ UNCHANGED minted

\* By the platform, for an admin who may be off: the answers stay counted.
reset_admin_password ==
  /\ NewPassword({"login", "pin"})
  /\ UNCHANGED minted

-----------------------------------------------------------------------------
(* Turning access off and on.  Each locks the admin's row, or updates it.  *)

EndsNothing == UNCHANGED token_version   \* mutant: disable leaves the version
EndsTheirs == EndsSessions

disable_admin ==
  /\ is_active /\ RowFree /\ PinsAlone
  /\ is_active' = FALSE
  /\ EndsTheirs
  /\ elevation' = "none"
  /\ UNCHANGED <<logins_on, tokens, counters, signing, history>>

enable_admin ==
  /\ ~is_active /\ RowFree /\ PinsAlone
  /\ is_active' = TRUE
  /\ UNCHANGED <<logins_on, token_version, tokens, counters, elevation, signing, history>>

\* disable_operator_logins, and the cancellation of the operator.
sign_out_operator ==
  /\ logins_on /\ RowFree /\ PinsAlone
  /\ logins_on' = FALSE
  /\ EndsSessions
  /\ elevation' = "none"
  /\ UNCHANGED <<is_active, tokens, counters, signing, history>>

enable_operator_logins ==
  /\ ~logins_on
  /\ logins_on' = TRUE
  /\ UNCHANGED <<is_active, token_version, tokens, counters, elevation, signing, history>>

-----------------------------------------------------------------------------
(* Time                                                                    *)

\* Three hours: an elevation from before a PIN's lock is over by then, and
\* nothing gives one during it.
lock_lapses(k) ==
  /\ locked[k] = "ahead"
  /\ locked' = [locked EXCEPT ![k] = "past"]
  /\ tested' = [tested EXCEPT ![k] = 0]
  /\ texted' = [texted EXCEPT ![k] = 0]
  /\ elevation' = IF k = "pin" THEN "none" ELSE elevation
  /\ UNCHANGED <<access, token_version, tokens, count, signing>>

elevation_ends ==
  /\ elevation # "none"
  /\ elevation' = "none"
  /\ UNCHANGED <<access, token_version, tokens, counters, signing, history>>

-----------------------------------------------------------------------------
Try(a) ==
  \/ \E k \in {"login", "answer"} : attempt_reads(a, k) \/ attempt_refused(a, k) \/ attempt_wrong(a, k)
  \/ login_right(a) \/ answer_right(a)
  \/ pin_reads(a) \/ pin_refused(a) \/ pin_wrong(a) \/ pin_right(a) \/ reset_my_pin(a)

SignInNext ==
  \/ \E a \in Attempt : Try(a)
  \/ logout
  \/ change_my_password \/ onboarding_set_password
  \/ reset_verify_otp \/ reset_set_password \/ reset_admin_password
  \/ disable_admin \/ enable_admin \/ sign_out_operator \/ enable_operator_logins
  \/ \E k \in {"login", "pin"} : lock_lapses(k)
  \/ elevation_ends

SignInSpec == SignInInit /\ [][SignInNext]_sign_in

-----------------------------------------------------------------------------
\* Between two clears no more passwords and no more security answers are tested
\* than the limit: two concurrent wrong guesses count "as two, not one"
\* (auth/routes.py).  PINs are another matter.
GuessesBounded ==
  /\ tested["login"] <= Threshold["login"]
  /\ tested["answer"] <= SECURITY_ANSWER_MAX_ATTEMPTS

\* For a lock on signing in the admin's phone gets "one SMS per lock, never per
\* attempt" (lockout.py).
OneTextPerLock == texted["login"] <= 1

\* For a lock of the PIN as well: the transition that sends it "happens exactly
\* once per lock period" (lockout.py).
PinLockTextsOnce == texted["pin"] <= 1

\* A token or a grant that has stopped passing never passes again: not when
\* the admin or the operator is let back in, not after a lock, not after the
\* password it was good for.
Passes(v) == v = token_version /\ admin_may_sign_in
RevokedStaysRevoked ==
  [][\A v \in minted \cup granted : ~Passes(v) => ~Passes(v)']_sign_in

\* The areas behind the PIN are open only to the session that entered it: not
\* to whoever signs in next "inside someone else's 15-minute window".
PinOpens == SignedIn /\ elevation # "none" /\ ~PinLocked
ElevationNotInherited == PinOpens => elevation = "this"
==============================================================================
