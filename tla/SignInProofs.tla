----------------------------- MODULE SignInProofs -----------------------------
(***************************************************************************)
(* Proofs about SignIn, for any number of concurrent attempts, any limits  *)
(* and any number of versions.  Whatever PIN requests do: the limits on    *)
(* passwords and answers hold and a login lock sends one text.  When no    *)
(* PIN request overlaps with another request: a revoked token or grant     *)
(* stays revoked, and the PIN's window is not inherited.                   *)
(***************************************************************************)
EXTENDS SignIn, TLAPS

Limits ==
  /\ NoAttempt \notin Attempt
  /\ MaxVersion \in Nat
  /\ LOGIN_MAX_ATTEMPTS \in Nat \ {0}
  /\ PIN_MAX_ATTEMPTS \in Nat \ {0}
  /\ SECURITY_ANSWER_MAX_ATTEMPTS \in Nat \ {0}

\* Who is reading the row to sign in or to answer holds it, of somebody who may
\* sign in.
ReaderInv ==
  /\ \A a \in Attempt : loaded[a].kind \in {"login", "answer"} => row_lock = a
  /\ row_lock # NoAttempt => admin_may_sign_in

\* What such an attempt has read is what the row holds, but for a lock that
\* lapses while it looks.
ReadInv ==
  \A a \in Attempt :
    LET k == loaded[a].kind IN
    k \in {"login", "answer"} =>
      /\ loaded[a].count = count[k]
      /\ loaded[a].lock # "ahead" => loaded[a].lock = locked[k]

\* The columns tell the guesses tested and the texts sent.
CountInv ==
  /\ locked["login"] = "none" =>
       tested["login"] = count["login"] /\ count["login"] < Threshold["login"] /\ texted["login"] = 0
  /\ locked["login"] = "ahead" => tested["login"] <= Threshold["login"] /\ texted["login"] = 1
  /\ locked["login"] = "past" => tested["login"] = 0 /\ texted["login"] = 0
  /\ tested["answer"] = count["answer"] /\ count["answer"] <= SECURITY_ANSWER_MAX_ATTEMPTS

Inv == SignInTypeOK /\ ReaderInv /\ ReadInv /\ CountInv

\* No token or grant is ahead of the version, and while the admin may not sign
\* in every one is behind it.
VersionInv ==
  \A v \in minted \cup granted :
    /\ v <= token_version
    /\ ~admin_may_sign_in => v < token_version

\* A PIN request is alone, and the version and the lock it has read are the
\* row's, but for a lock that lapses.
PinReadInv ==
  \A a \in Attempt :
    loaded[a].kind = "pin" =>
      /\ \A b \in Attempt : loaded[b].kind = "pin" => b = a
      /\ loaded[a].version = token_version
      /\ loaded[a].lock # "ahead" => loaded[a].lock = locked["pin"]

ElevationInv == elevation = "earlier" => PinLocked

\* What holds besides when PIN requests do not overlap with others.
AloneInv == VersionInv /\ PinReadInv /\ ElevationInv

-----------------------------------------------------------------------------
(* Types *)

\* A count, a lock and what the history keeps stay of their types.
LEMMA CountsTyped ==
  ASSUME SignInTypeOK, NEW k \in Kind, NEW read, NEW n \in Nat, Counts(k, read, n)
  PROVE  count' \in [Kind -> Nat] /\ tested' \in [Kind -> Nat]
BY DEF SignInTypeOK, Counts, Flushed

LEMMA FailureTyped ==
  ASSUME SignInTypeOK, NEW k \in Kind, NEW read,
         read.count \in Nat, read.lock \in LockTimes, register_failure(k, read)
  PROVE  /\ count' \in [Kind -> Nat] /\ tested' \in [Kind -> Nat]
         /\ locked' \in [Kind -> LockTimes] /\ texted' \in [Kind -> Nat]
<1>1. Failures(read) \in Nat
  BY DEF Failures
<1>2. QED
  BY <1>1, CountsTyped DEF SignInTypeOK, register_failure, Flushed, LockTimes

LEMMA ClearTyped ==
  ASSUME SignInTypeOK, NEW K, clear(K)
  PROVE  /\ count' \in [Kind -> Nat] /\ tested' \in [Kind -> Nat]
         /\ locked' \in [Kind -> LockTimes] /\ texted' \in [Kind -> Nat]
BY DEF SignInTypeOK, clear, LockTimes

LEMMA LoadTyped ==
  ASSUME Limits, SignInTypeOK, NEW a \in Attempt,
         \/ \E k \in Kind : Loading(a, k)
         \/ loaded' = [loaded EXCEPT ![a] = NotReading]
  PROVE  loaded' \in [Attempt -> Loads]
<1>1. NotReading \in Loads
  BY DEF NotReading, Loads, LockTimes, Limits
<1>2. \A k \in Kind :
        [kind |-> k, count |-> count[k], lock |-> locked[k], version |-> token_version] \in Loads
  BY DEF SignInTypeOK, Loads
<1>3. QED
  BY <1>1, <1>2 DEF SignInTypeOK, Loading

LEMMA TypeStep ==
  ASSUME Limits, SignInTypeOK, [SignInNext]_sign_in
  PROVE  SignInTypeOK'
<1> USE DEF Kind
<1>1. CASE UNCHANGED sign_in
  BY <1>1 DEF SignInTypeOK, sign_in, access, counters, tokens, history, signing
<1>2. ASSUME NEW a \in Attempt, NEW k \in {"login", "answer"}, attempt_reads(a, k)
      PROVE  SignInTypeOK'
  BY <1>2, LoadTyped DEF SignInTypeOK, attempt_reads, access, counters, tokens, history
<1>3. ASSUME NEW a \in Attempt, NEW k \in {"login", "answer"}, attempt_refused(a, k)
      PROVE  SignInTypeOK'
  BY <1>3, LoadTyped DEF SignInTypeOK, attempt_refused, Answered, access, counters, tokens, history
<1>4. ASSUME NEW a \in Attempt, NEW k \in {"login", "answer"}, attempt_wrong(a, k)
      PROVE  SignInTypeOK'
  <2>1. loaded[a].count \in Nat /\ loaded[a].lock \in LockTimes
    BY DEF SignInTypeOK, Loads
  <2>2. /\ count' \in [Kind -> Nat] /\ tested' \in [Kind -> Nat]
        /\ locked' \in [Kind -> LockTimes] /\ texted' \in [Kind -> Nat]
    BY <1>4, <2>1, CountsTyped, FailureTyped DEF attempt_wrong, SignInTypeOK
  <2>3. QED
    BY <1>4, <2>2, LoadTyped DEF SignInTypeOK, attempt_wrong, Answered, access, tokens
<1>5. ASSUME NEW a \in Attempt, login_right(a)
      PROVE  SignInTypeOK'
  <2>1. clear({"login"}) /\ loaded' \in [Attempt -> Loads]
    BY <1>5, LoadTyped DEF login_right, Answered
  <2>2. QED
    BY <1>5, <2>1, ClearTyped DEF SignInTypeOK, login_right, Answered, ElevationAtSignIn, access
<1>50. ASSUME NEW a \in Attempt, answer_right(a)
       PROVE  SignInTypeOK'
  BY <1>50, LoadTyped DEF SignInTypeOK, answer_right, Answered, access, counters, history
<1>6. ASSUME NEW a \in Attempt, pin_reads(a) \/ pin_refused(a)
      PROVE  SignInTypeOK'
  BY <1>6, LoadTyped DEF SignInTypeOK, pin_reads, pin_refused, PinAnswered, access, counters, tokens, history
<1>60. ASSUME NEW a \in Attempt, OpensGates(a)
       PROVE  SignInTypeOK'
  BY <1>60, LoadTyped DEF SignInTypeOK, OpensGates, PinAnswered, Flushed, LockTimes, access, tokens
<1>7. ASSUME NEW a \in Attempt, pin_wrong(a)
      PROVE  SignInTypeOK'
  <2>1. loaded[a].count \in Nat /\ loaded[a].lock \in LockTimes /\ loaded[a].version \in 0..MaxVersion
    BY DEF SignInTypeOK, Loads
  <2>2. /\ count' \in [Kind -> Nat] /\ tested' \in [Kind -> Nat]
        /\ locked' \in [Kind -> LockTimes] /\ texted' \in [Kind -> Nat]
    BY <1>7, <2>1, FailureTyped DEF pin_wrong
  <2>3. token_version' \in 0..MaxVersion /\ elevation' \in {"none", "this", "earlier"}
    BY <1>7, <2>1 DEF SignInTypeOK, Limits, pin_wrong, EndsSessionsOf, Outlived
  <2>4. QED
    BY <1>7, <2>2, <2>3, LoadTyped DEF SignInTypeOK, pin_wrong, PinAnswered, access, tokens
<1>8. CASE change_my_password \/ onboarding_set_password \/ reset_set_password \/ reset_admin_password
  <2>1. PICK K : NewPassword(K)
    BY <1>8 DEF change_my_password, onboarding_set_password, reset_set_password, reset_admin_password
  <2>2. /\ token_version' \in 0..MaxVersion
        /\ elevation' = "none" /\ UNCHANGED <<access, granted, signing>>
    BY <2>1 DEF NewPassword, EndsSessions, EndsSessionsOf, SignInTypeOK, Limits
  <2>3. minted' \subseteq 0..MaxVersion
    BY <1>8, <2>2 DEF SignInTypeOK, change_my_password, onboarding_set_password, reset_set_password,
       reset_admin_password
  <2>4. /\ count' \in [Kind -> Nat] /\ tested' \in [Kind -> Nat]
        /\ locked' \in [Kind -> LockTimes] /\ texted' \in [Kind -> Nat]
    BY <2>1, ClearTyped DEF NewPassword
  <2>5. /\ is_active' = is_active /\ logins_on' = logins_on
        /\ granted' = granted /\ row_lock' = row_lock /\ loaded' = loaded
    BY <2>2 DEF access, signing
  <2>6. QED
    BY <2>2, <2>3, <2>4, <2>5 DEF SignInTypeOK
<1>9. CASE logout \/ disable_admin \/ sign_out_operator
  <2>1. token_version' \in 0..MaxVersion
    BY <1>9 DEF SignInTypeOK, Limits, logout, disable_admin, sign_out_operator, EndsTheirs, EndsSessions,
       EndsSessionsOf
  <2>2. /\ is_active' \in BOOLEAN /\ logins_on' \in BOOLEAN
        /\ elevation' = "none" /\ UNCHANGED <<tokens, counters, signing, history>>
    BY <1>9 DEF SignInTypeOK, logout, disable_admin, sign_out_operator, access
  <2>3. QED
    BY <2>1, <2>2 DEF SignInTypeOK, counters, tokens, history, signing
<1>10. CASE enable_admin \/ enable_operator_logins \/ reset_verify_otp \/ elevation_ends
  BY <1>10 DEF SignInTypeOK, enable_admin, enable_operator_logins, reset_verify_otp, elevation_ends,
     access, counters, tokens, history, signing
<1>11. ASSUME NEW k \in {"login", "pin"}, lock_lapses(k)
       PROVE  SignInTypeOK'
  BY <1>11 DEF SignInTypeOK, lock_lapses, LockTimes, access, tokens, signing
<1>12. QED
  BY <1>1, <1>2, <1>3, <1>4, <1>5, <1>50, <1>6, <1>60, <1>7, <1>8, <1>9, <1>10, <1>11
     DEF SignInNext, Try, pin_right, reset_my_pin

-----------------------------------------------------------------------------
(* The row's holder *)

\* A PIN request leaves what the others have read, and the row's lock, alone.
PinTry(a) == pin_reads(a) \/ pin_refused(a) \/ pin_wrong(a) \/ OpensGates(a)

LEMMA PinTries ==
  ASSUME SignInTypeOK, NEW a \in Attempt, PinTry(a)
  PROVE  /\ UNCHANGED <<row_lock, access, tokens>>
         /\ \A b \in Attempt : loaded'[b].kind \in {"login", "answer"} => loaded'[b] = loaded[b]
BY DEF PinTry, SignInTypeOK, pin_reads, Loading, pin_refused, pin_wrong, OpensGates, PinAnswered, NotReading

\* The row's holder keeps others off it, and nobody turns the admin off while it
\* is held.
LEMMA ReaderStep ==
  ASSUME Limits, SignInTypeOK, ReaderInv, [SignInNext]_sign_in
  PROVE  ReaderInv'
<1>1. CASE UNCHANGED sign_in
  BY <1>1 DEF ReaderInv, sign_in, access, signing, admin_may_sign_in
<1>2. ASSUME NEW a \in Attempt, NEW k \in {"login", "answer"}, attempt_reads(a, k)
      PROVE  ReaderInv'
  BY <1>2 DEF ReaderInv, SignInTypeOK, Limits, attempt_reads, Loading, RowFree, access, admin_may_sign_in
<1>3. ASSUME NEW a \in Attempt, NEW k \in {"login", "answer"}, Answered(a, k), UNCHANGED access
      PROVE  ReaderInv'
  BY <1>3 DEF ReaderInv, SignInTypeOK, Answered, NotReading, access, admin_may_sign_in
<1>30. ASSUME NEW a \in Attempt, PinTry(a)
       PROVE  ReaderInv'
  BY <1>30, PinTries DEF ReaderInv, access, admin_may_sign_in
<1>4. ASSUME NEW a \in Attempt, Try(a)
      PROVE  ReaderInv'
  <2>1. CASE \E k \in {"login", "answer"} : attempt_reads(a, k)
    BY <1>2, <2>1
  <2>2. ASSUME NEW k \in {"login", "answer"}, attempt_refused(a, k) \/ attempt_wrong(a, k)
        PROVE  ReaderInv'
    BY <1>3, <2>2 DEF attempt_refused, attempt_wrong
  <2>3. CASE login_right(a)
    BY <1>3, <2>3 DEF login_right
  <2>4. CASE answer_right(a)
    BY <1>3, <2>4 DEF answer_right
  <2>5. CASE PinTry(a)
    BY <1>30, <2>5
  <2>6. QED
    BY <1>4, <2>1, <2>2, <2>3, <2>4, <2>5 DEF Try, PinTry, pin_right, reset_my_pin
<1>5. CASE UNCHANGED <<access, signing>>
  BY <1>5 DEF ReaderInv, access, signing, admin_may_sign_in
<1>6. CASE disable_admin \/ sign_out_operator
  BY <1>6 DEF ReaderInv, Limits, disable_admin, sign_out_operator, RowFree, signing
<1>7. CASE enable_admin \/ enable_operator_logins
  BY <1>7 DEF ReaderInv, enable_admin, enable_operator_logins, signing, admin_may_sign_in
<1>8. QED
  BY <1>1, <1>4, <1>5, <1>6, <1>7 DEF SignInNext, logout,
     change_my_password, onboarding_set_password, reset_verify_otp, reset_set_password,
     reset_admin_password, NewPassword, lock_lapses, elevation_ends

-----------------------------------------------------------------------------
(* Guesses *)

\* A PIN request leaves the other kinds' columns and history alone.
LEMMA PinsApart ==
  ASSUME SignInTypeOK, NEW a \in Attempt, PinTry(a), NEW k \in {"login", "answer"}
  PROVE  /\ count'[k] = count[k] /\ locked'[k] = locked[k]
         /\ tested'[k] = tested[k] /\ texted'[k] = texted[k]
<1>1. CASE pin_reads(a) \/ pin_refused(a)
  BY <1>1 DEF pin_reads, pin_refused, counters, history
<1>2. CASE pin_wrong(a)
  BY <1>2 DEF pin_wrong, register_failure, Counts, SignInTypeOK, Kind
<1>3. CASE OpensGates(a)
  BY <1>3 DEF OpensGates, SignInTypeOK, Kind
<1>4. QED
  BY <1>1, <1>2, <1>3 DEF PinTry

\* Only one attempt at a time has the row, so what it has read stays true.
LEMMA ReadStep ==
  ASSUME Limits, SignInTypeOK, ReaderInv, ReadInv, [SignInNext]_sign_in
  PROVE  ReadInv'
<1>1. CASE UNCHANGED <<counters, loaded>>
  BY <1>1 DEF ReadInv, counters
<1>2. ASSUME NEW a \in Attempt, NEW k \in {"login", "answer"}, attempt_reads(a, k)
      PROVE  ReadInv'
  BY <1>2 DEF ReadInv, ReaderInv, Limits, SignInTypeOK, attempt_reads, Loading, RowFree, counters
<1>3. ASSUME NEW a \in Attempt, NEW k \in {"login", "answer"}, Answered(a, k)
      PROVE  ReadInv'
  <2>1. \A b \in Attempt : loaded'[b].kind \notin {"login", "answer"}
    BY <1>3 DEF ReaderInv, Answered, NotReading, SignInTypeOK
  <2>2. QED
    BY <2>1 DEF ReadInv
<1>30. ASSUME NEW a \in Attempt, PinTry(a)
       PROVE  ReadInv'
  BY <1>30, PinTries, PinsApart DEF ReadInv
<1>4. ASSUME NEW a \in Attempt, Try(a)
      PROVE  ReadInv'
  <2>1. CASE \E k \in {"login", "answer"} : attempt_reads(a, k)
    BY <1>2, <2>1
  <2>2. ASSUME NEW k \in {"login", "answer"}, attempt_refused(a, k) \/ attempt_wrong(a, k)
        PROVE  ReadInv'
    BY <1>3, <2>2 DEF attempt_refused, attempt_wrong
  <2>3. CASE login_right(a) \/ answer_right(a)
    BY <1>3, <2>3 DEF login_right, answer_right
  <2>4. CASE PinTry(a)
    BY <1>30, <2>4
  <2>5. QED
    BY <1>4, <2>1, <2>2, <2>3, <2>4 DEF Try, PinTry, pin_right, reset_my_pin
<1>5. CASE RowFree /\ UNCHANGED signing
  <2>1. \A b \in Attempt : loaded'[b].kind \notin {"login", "answer"}
    BY <1>5 DEF ReaderInv, RowFree, Limits, signing
  <2>2. QED
    BY <2>1 DEF ReadInv
<1>6. ASSUME NEW k \in {"login", "pin"}, lock_lapses(k)
      PROVE  ReadInv'
  BY <1>6 DEF ReadInv, SignInTypeOK, Kind, lock_lapses, signing
<1>7. CASE UNCHANGED sign_in
  BY <1>1, <1>7 DEF sign_in, signing
<1>8. CASE enable_operator_logins \/ reset_verify_otp \/ elevation_ends
  BY <1>1, <1>8 DEF enable_operator_logins, reset_verify_otp, elevation_ends, signing
<1>9. CASE change_my_password \/ onboarding_set_password \/ reset_set_password \/ reset_admin_password
  BY <1>5, <1>9 DEF change_my_password, onboarding_set_password, reset_set_password,
     reset_admin_password, NewPassword
<1>10. CASE logout \/ disable_admin \/ enable_admin \/ sign_out_operator
  BY <1>5, <1>10 DEF logout, disable_admin, enable_admin, sign_out_operator
<1>11. QED
  BY <1>4, <1>6, <1>7, <1>8, <1>9, <1>10 DEF SignInNext

\* A failure counted from what the row holds is one more guess, and the lock
\* comes with its text, once.
LEMMA FailureCounts ==
  ASSUME Limits, SignInTypeOK, CountInv, NEW read, read.count = count["login"],
         read.lock = locked["login"], read.lock # "ahead", register_failure("login", read)
  PROVE  CountInv'
<1> DEFINE k == "login"
<1>1. /\ count[k] \in Nat /\ tested[k] \in Nat /\ texted[k] \in Nat
      /\ locked[k] \in {"none", "past"} /\ Threshold[k] \in Nat \ {0}
  BY DEF SignInTypeOK, Kind, LockTimes, Limits, Threshold
<1> DEFINE n == (IF read.lock = "past" THEN 0 ELSE read.count) + 1
<1>2. /\ count'[k] = n /\ tested'[k] = tested[k] + 1
      /\ locked'[k] = IF n >= Threshold[k] THEN "ahead" ELSE "none"
      /\ texted'[k] = IF n >= Threshold[k] THEN texted[k] + 1 ELSE texted[k]
  BY <1>1 DEF register_failure, Counts, Failures, Locks, Flushed, SignInTypeOK, Kind
<1>3. n = tested[k] + 1 /\ n <= Threshold[k] /\ texted[k] = 0
  BY <1>1 DEF CountInv
<1>4. count'["answer"] = count["answer"] /\ tested'["answer"] = tested["answer"]
  BY DEF register_failure, Counts, SignInTypeOK, Kind
<1>5. QED
  <2> HIDE DEF n
  <2>1. n \in Nat /\ (n < Threshold[k] \/ n = Threshold[k])
    BY <1>1, <1>3
  <2>2. QED
    BY <1>1, <1>2, <1>3, <1>4, <2>1 DEF CountInv

LEMMA ClearCounts ==
  ASSUME Limits, SignInTypeOK, CountInv, NEW K, clear(K)
  PROVE  CountInv'
<1>1. Threshold["login"] \in Nat \ {0}
  BY DEF Limits, Threshold
<1>2. QED
  BY <1>1 DEF CountInv, clear, Kind, Limits

LEMMA CountStep ==
  ASSUME Limits, SignInTypeOK, ReaderInv, ReadInv, CountInv, [SignInNext]_sign_in
  PROVE  CountInv'
<1>1. CASE UNCHANGED <<counters, history>>
  BY <1>1 DEF CountInv, counters, history
<1>2. ASSUME NEW a \in Attempt, attempt_wrong(a, "login")
      PROVE  CountInv'
  BY <1>2, FailureCounts DEF attempt_wrong, ReadInv, Answered, is_locked
<1>3. ASSUME NEW a \in Attempt, attempt_wrong(a, "answer")
      PROVE  CountInv'
  <2>1. loaded[a].count = count["answer"] /\ count["answer"] < SECURITY_ANSWER_MAX_ATTEMPTS
    BY <1>3 DEF attempt_wrong, ReadInv, Answered, is_locked, SignInTypeOK, Kind, Limits
  <2>2. /\ count'["answer"] = count["answer"] + 1 /\ tested'["answer"] = tested["answer"] + 1
        /\ count'["login"] = count["login"] /\ tested'["login"] = tested["login"]
        /\ UNCHANGED <<locked, texted>>
    BY <1>3, <2>1 DEF attempt_wrong, Counts, Flushed, SignInTypeOK, Kind
  <2>3. SECURITY_ANSWER_MAX_ATTEMPTS \in Nat /\ count["answer"] \in Nat
    BY DEF Limits, SignInTypeOK, Kind
  <2>4. QED
    BY <2>1, <2>2, <2>3 DEF CountInv
<1>4. ASSUME NEW a \in Attempt, PinTry(a)
      PROVE  CountInv'
  BY <1>4, PinsApart DEF CountInv
<1>5. ASSUME NEW K, clear(K)
      PROVE  CountInv'
  BY <1>5, ClearCounts
<1>6. ASSUME NEW k \in {"login", "pin"}, lock_lapses(k)
      PROVE  CountInv'
  BY <1>6 DEF CountInv, lock_lapses, SignInTypeOK, Kind
<1>7. ASSUME NEW a \in Attempt, Try(a)
      PROVE  CountInv'
  <2>1. ASSUME NEW k \in {"login", "answer"}, attempt_reads(a, k) \/ attempt_refused(a, k)
        PROVE  CountInv'
    BY <1>1, <2>1 DEF attempt_reads, attempt_refused
  <2>2. CASE answer_right(a)
    BY <1>1, <2>2 DEF answer_right
  <2>3. CASE login_right(a)
    BY <1>5, <2>3 DEF login_right
  <2>4. CASE PinTry(a)
    BY <1>4, <2>4
  <2>5. QED
    BY <1>2, <1>3, <1>7, <2>1, <2>2, <2>3, <2>4 DEF Try, PinTry, pin_right, reset_my_pin
<1>8. CASE change_my_password \/ onboarding_set_password \/ reset_set_password \/ reset_admin_password
  BY <1>5, <1>8 DEF change_my_password, onboarding_set_password, reset_set_password,
     reset_admin_password, NewPassword
<1>9. CASE logout \/ reset_verify_otp \/ disable_admin \/ enable_admin \/ sign_out_operator
           \/ enable_operator_logins \/ elevation_ends
  BY <1>1, <1>9 DEF logout, reset_verify_otp, disable_admin, enable_admin, sign_out_operator,
     enable_operator_logins, elevation_ends
<1>10. CASE UNCHANGED sign_in
  BY <1>1, <1>10 DEF sign_in
<1>11. QED
  BY <1>6, <1>7, <1>8, <1>9, <1>10 DEF SignInNext

-----------------------------------------------------------------------------
(* PIN requests that do not overlap *)

\* A step moves the version, or a PIN's lock, only where no PIN request is under
\* way, or it is the answer of the one that is.
LEMMA PinReadStep ==
  ASSUME Limits, ~PinsOverlap, SignInTypeOK, PinReadInv, [SignInNext]_sign_in
  PROVE  PinReadInv'
<1>1. CASE UNCHANGED <<token_version, locked, loaded>>
  BY <1>1 DEF PinReadInv
<1>2. CASE PinsAlone /\ UNCHANGED loaded
  BY <1>2 DEF PinReadInv, PinsAlone
<1>3. ASSUME NEW a \in Attempt, NEW k \in Kind, Loading(a, k), UNCHANGED <<token_version, locked>>
      PROVE  PinReadInv'
  BY <1>3 DEF PinReadInv, PinsAlone, Loading, SignInTypeOK
<1>4. ASSUME NEW a \in Attempt, loaded[a].kind \in {"login", "answer"},
             loaded' = [loaded EXCEPT ![a] = NotReading],
             token_version' = token_version, locked'["pin"] = locked["pin"]
      PROVE  PinReadInv'
  BY <1>4 DEF PinReadInv, SignInTypeOK, NotReading
<1>5. ASSUME NEW a \in Attempt, PinAnswered(a)
      PROVE  PinReadInv'
  BY <1>5 DEF PinReadInv, SignInTypeOK, PinAnswered, NotReading
<1>6. ASSUME NEW a \in Attempt, Try(a)
      PROVE  PinReadInv'
  <2>1. ASSUME NEW k \in {"login", "answer"}, attempt_reads(a, k)
        PROVE  PinReadInv'
    BY <1>3, <2>1 DEF attempt_reads, counters, Kind
  <2>2. ASSUME NEW k \in {"login", "answer"}, attempt_refused(a, k)
        PROVE  PinReadInv'
    BY <1>4, <2>2 DEF attempt_refused, Answered, counters
  <2>3. ASSUME NEW k \in {"login", "answer"}, attempt_wrong(a, k)
        PROVE  PinReadInv'
    BY <1>4, <2>3 DEF attempt_wrong, Answered, register_failure, SignInTypeOK, Kind
  <2>4. CASE login_right(a)
    BY <1>4, <2>4 DEF login_right, Answered, clear, Kind
  <2>5. CASE answer_right(a)
    BY <1>4, <2>5 DEF answer_right, Answered, counters
  <2>6. CASE pin_reads(a)
    BY <1>3, <2>6 DEF pin_reads, counters, Kind
  <2>7. CASE pin_refused(a) \/ pin_wrong(a) \/ OpensGates(a)
    BY <1>5, <2>7 DEF pin_refused, pin_wrong, OpensGates
  <2>8. QED
    BY <1>6, <2>1, <2>2, <2>3, <2>4, <2>5, <2>6, <2>7 DEF Try, pin_right, reset_my_pin
<1>7. ASSUME NEW k \in {"login", "pin"}, lock_lapses(k)
      PROVE  PinReadInv'
  BY <1>7 DEF PinReadInv, lock_lapses, SignInTypeOK, Kind, signing
<1>8. CASE change_my_password \/ onboarding_set_password \/ reset_set_password \/ reset_admin_password
  BY <1>2, <1>8 DEF change_my_password, onboarding_set_password, reset_set_password,
     reset_admin_password, NewPassword, signing
<1>9. CASE logout \/ disable_admin \/ enable_admin \/ sign_out_operator
  BY <1>2, <1>9 DEF logout, disable_admin, enable_admin, sign_out_operator, signing
<1>10. CASE enable_operator_logins \/ reset_verify_otp \/ elevation_ends \/ UNCHANGED sign_in
  BY <1>1, <1>10 DEF enable_operator_logins, reset_verify_otp, elevation_ends, sign_in, counters, signing
<1>11. QED
  BY <1>6, <1>7, <1>8, <1>9, <1>10 DEF SignInNext

\* What a step does to the version and to the tokens and grants: it adds those
\* of the version it leaves, and turning the admin off raises it.
VersionMove ==
  /\ token_version' \in {token_version, token_version + 1}
  /\ \A v \in minted' \cup granted' :
       v \in minted \cup granted \/ (v = token_version' /\ admin_may_sign_in /\ admin_may_sign_in')
  /\ admin_may_sign_in /\ ~admin_may_sign_in' => token_version' = token_version + 1

LEMMA VersionMoves ==
  ASSUME Limits, SignInTypeOK, ReaderInv, PinReadInv, [SignInNext]_sign_in
  PROVE  VersionMove
<1> USE DEF EndsSessions, EndsSessionsOf
<1>1. CASE UNCHANGED <<access, token_version, tokens>>
  BY <1>1 DEF VersionMove, access, tokens, admin_may_sign_in
<1>2. ASSUME NEW a \in Attempt, login_right(a) \/ answer_right(a)
      PROVE  VersionMove
  <2>1. loaded[a].kind \in {"login", "answer"} /\ UNCHANGED <<access, token_version>>
    BY <1>2 DEF login_right, answer_right, Answered
  <2>2. admin_may_sign_in /\ admin_may_sign_in'
    BY <2>1 DEF ReaderInv, Limits, access, admin_may_sign_in
  <2>3. QED
    BY <1>2, <2>1, <2>2 DEF VersionMove, login_right, answer_right
<1>3. CASE logout
  BY <1>3 DEF VersionMove, logout, access, tokens, admin_may_sign_in
<1>30. ASSUME NEW a \in Attempt, pin_wrong(a)
       PROVE  VersionMove
  <2>1. loaded[a].version = token_version /\ UNCHANGED <<access, tokens>>
    BY <1>30 DEF PinReadInv, pin_wrong, PinAnswered
  <2>2. QED
    BY <1>30, <2>1 DEF VersionMove, pin_wrong, access, tokens, admin_may_sign_in
<1>4. CASE change_my_password \/ onboarding_set_password \/ reset_set_password \/ reset_admin_password
  BY <1>4 DEF VersionMove, change_my_password, onboarding_set_password, reset_set_password, reset_admin_password,
     NewPassword, SignedIn, access, admin_may_sign_in
<1>5. CASE reset_verify_otp
  BY <1>5 DEF VersionMove, reset_verify_otp, access, admin_may_sign_in
<1>6. CASE disable_admin \/ sign_out_operator
  BY <1>6 DEF VersionMove, disable_admin, sign_out_operator, EndsTheirs, tokens
<1>7. CASE enable_admin \/ enable_operator_logins
  BY <1>7 DEF VersionMove, enable_admin, enable_operator_logins, tokens, admin_may_sign_in
<1>8. ASSUME NEW a \in Attempt, NEW k \in {"login", "answer"},
             attempt_reads(a, k) \/ attempt_refused(a, k) \/ attempt_wrong(a, k)
      PROVE  UNCHANGED <<access, token_version, tokens>>
  BY <1>8 DEF attempt_reads, attempt_refused, attempt_wrong
<1>80. ASSUME NEW a \in Attempt, pin_reads(a) \/ pin_refused(a) \/ OpensGates(a)
       PROVE  UNCHANGED <<access, token_version, tokens>>
  BY <1>80 DEF pin_reads, pin_refused, OpensGates, PinAnswered
<1>9. CASE elevation_ends \/ \E k \in {"login", "pin"} : lock_lapses(k)
  BY <1>1, <1>9 DEF elevation_ends, lock_lapses
<1>10. CASE UNCHANGED sign_in
  BY <1>1, <1>10 DEF sign_in
<1>11. ASSUME NEW a \in Attempt, Try(a)
       PROVE  VersionMove
  BY <1>1, <1>2, <1>30, <1>8, <1>80, <1>11 DEF Try, pin_right, reset_my_pin
<1>12. QED
  BY <1>3, <1>4, <1>5, <1>6, <1>7, <1>9, <1>10, <1>11 DEF SignInNext

LEMMA VersionStep ==
  ASSUME Limits, SignInTypeOK, ReaderInv, PinReadInv, VersionInv, [SignInNext]_sign_in
  PROVE  VersionInv'
<1>1. token_version \in Nat
  BY DEF SignInTypeOK, Limits
<1>2. ASSUME NEW v \in (minted \cup granted)'
      PROVE  v <= token_version' /\ (~admin_may_sign_in' => v < token_version')
  <2>1. CASE v \in minted \cup granted
    BY <1>1, <2>1, VersionMoves DEF VersionMove, VersionInv, SignInTypeOK, Limits
  <2>2. CASE v \notin minted \cup granted
    BY <1>1, <1>2, <2>2, VersionMoves DEF VersionMove
  <2>3. QED
    BY <2>1, <2>2
<1>3. QED
  BY <1>2 DEF VersionInv

\* An elevation outlives its session only behind a PIN lock.
LEMMA ElevationStep ==
  ASSUME SignInTypeOK, PinReadInv, ElevationInv, [SignInNext]_sign_in
  PROVE  ElevationInv'
<1>1. CASE elevation' \in {"none", "this"}
  BY <1>1 DEF ElevationInv
<1>2. CASE elevation' = elevation /\ locked'["pin"] = locked["pin"]
  BY <1>2 DEF ElevationInv, PinLocked
<1>3. ASSUME NEW a \in Attempt, NEW k \in {"login", "answer"}, attempt_wrong(a, k)
      PROVE  ElevationInv'
  BY <1>2, <1>3 DEF attempt_wrong, register_failure, SignInTypeOK, Kind
<1>5. ASSUME NEW a \in Attempt, pin_wrong(a)
      PROVE  ElevationInv'
  <2>1. loaded[a].lock # "ahead" /\ loaded[a].lock = locked["pin"]
    BY <1>5 DEF pin_wrong, PinAnswered, is_locked, PinReadInv
  <2>2. elevation # "earlier"
    BY <2>1 DEF ElevationInv, PinLocked
  <2>3. CASE Locks("pin", loaded[a])
    BY <1>5, <2>3 DEF ElevationInv, PinLocked, pin_wrong, register_failure, SignInTypeOK, Kind
  <2>4. CASE ~Locks("pin", loaded[a])
    BY <1>5, <2>2, <2>4 DEF pin_wrong, ElevationInv
  <2>5. QED
    BY <2>3, <2>4
<1>50. ASSUME NEW a \in Attempt, OpensGates(a)
       PROVE  ElevationInv'
  BY <1>1, <1>50 DEF OpensGates, PinAnswered, PinReadInv
<1>4. ASSUME NEW a \in Attempt, Try(a)
      PROVE  ElevationInv'
  <2>1. ASSUME NEW k \in {"login", "answer"}, attempt_reads(a, k) \/ attempt_refused(a, k)
        PROVE  ElevationInv'
    BY <1>2, <2>1 DEF attempt_reads, attempt_refused, counters
  <2>2. CASE login_right(a) \/ answer_right(a)
    BY <1>1, <1>2, <2>2 DEF login_right, answer_right, ElevationAtSignIn, counters
  <2>3. CASE pin_reads(a) \/ pin_refused(a)
    BY <1>2, <2>3 DEF pin_reads, pin_refused, counters
  <2>4. QED
    BY <1>3, <1>4, <1>5, <1>50, <2>1, <2>2, <2>3 DEF Try, pin_right, reset_my_pin
<1>6. ASSUME NEW k \in {"login", "pin"}, lock_lapses(k)
      PROVE  ElevationInv'
  BY <1>1, <1>2, <1>6 DEF lock_lapses, SignInTypeOK, Kind
<1>7. CASE change_my_password \/ onboarding_set_password \/ reset_set_password \/ reset_admin_password
  BY <1>1, <1>7 DEF change_my_password, onboarding_set_password, reset_set_password,
     reset_admin_password, NewPassword
<1>8. CASE logout \/ disable_admin \/ sign_out_operator \/ elevation_ends
  BY <1>1, <1>8 DEF logout, disable_admin, sign_out_operator, elevation_ends
<1>9. CASE reset_verify_otp \/ enable_admin \/ enable_operator_logins \/ UNCHANGED sign_in
  BY <1>2, <1>9 DEF reset_verify_otp, enable_admin, enable_operator_logins, sign_in, counters
<1>10. QED
  BY <1>4, <1>6, <1>7, <1>8, <1>9 DEF SignInNext

-----------------------------------------------------------------------------
(* The theorems *)

LEMMA InvInit ==
  ASSUME Limits, SignInInit
  PROVE  Inv /\ AloneInv
<1>1. SignInTypeOK
  BY DEF Limits, SignInInit, SignInTypeOK, Kind, LockTimes, NotReading, Loads
<1>2. Threshold["login"] \in Nat \ {0}
  BY DEF Limits, Threshold
<1>3. ReaderInv /\ ReadInv /\ VersionInv /\ PinReadInv /\ ElevationInv
  BY DEF SignInInit, NotReading, ReaderInv, ReadInv, VersionInv, PinReadInv, ElevationInv
<1>4. CountInv
  BY <1>2 DEF SignInInit, CountInv, Kind, Limits
<1>5. QED
  BY <1>1, <1>3, <1>4 DEF Inv, AloneInv

\* The state of the account is always one the invariant describes, whatever
\* requests overlap.
THEOREM AccountInvariant ==
  ASSUME Limits
  PROVE  SignInSpec => []Inv
<1>1. SignInInit => Inv
  BY InvInit
<1>2. Inv /\ [SignInNext]_sign_in => Inv'
  BY TypeStep, ReaderStep, ReadStep, CountStep DEF Inv
<1>3. QED
  BY <1>1, <1>2, PTL DEF SignInSpec

\* When PIN requests do not overlap with others, the version only grows and an
\* elevation that outlived its session is behind a PIN lock.
THEOREM AloneInvariant ==
  ASSUME Limits, ~PinsOverlap
  PROVE  SignInSpec => []AloneInv
<1>1. SignInInit => AloneInv
  BY InvInit
<1>2. Inv /\ AloneInv /\ [SignInNext]_sign_in => AloneInv'
  BY VersionStep, PinReadStep, ElevationStep DEF Inv, AloneInv
<1>3. QED
  BY <1>1, <1>2, AccountInvariant, PTL DEF SignInSpec

\* When PIN requests do not overlap with others: a token or a grant that has
\* stopped passing never passes again, whatever is turned off and on and however
\* the sign-ins interleave.
THEOREM RevocationIsFinal ==
  ASSUME Limits, ~PinsOverlap
  PROVE  SignInSpec => RevokedStaysRevoked
<1>1. ASSUME Inv, AloneInv, [SignInNext]_sign_in
      PROVE  [\A v \in minted \cup granted : ~Passes(v) => ~Passes(v)']_sign_in
  <2>1. token_version \in Nat
    BY <1>1 DEF Inv, SignInTypeOK, Limits
  <2>2. VersionMove
    BY <1>1, VersionMoves DEF Inv, AloneInv
  <2>3. ASSUME NEW v \in minted \cup granted, ~Passes(v)
        PROVE  ~Passes(v)'
    <3>1. v < token_version /\ v \in Nat
      BY <1>1, <2>1, <2>3 DEF Inv, AloneInv, SignInTypeOK, Limits, VersionInv, Passes
    <3>2. QED
      BY <2>1, <2>2, <3>1 DEF VersionMove, Passes
  <2>4. QED
    BY <2>3
<1>2. QED
  BY <1>1, AccountInvariant, AloneInvariant, PTL DEF SignInSpec, RevokedStaysRevoked

\* The limits on passwords and answers hold, for any number of concurrent
\* sign-ins and answers, and whatever PIN requests overlap with them.
THEOREM LimitsHold ==
  ASSUME Limits
  PROVE  SignInSpec => []GuessesBounded
<1>1. Inv => GuessesBounded
  <2>1. ASSUME Inv
        PROVE  /\ locked["login"] \in LockTimes /\ tested["login"] \in Nat /\ count["login"] \in Nat
               /\ Threshold["login"] \in Nat
    BY <2>1 DEF Inv, SignInTypeOK, Limits, Threshold, Kind
  <2>2. QED
    BY <2>1 DEF Inv, CountInv, LockTimes, GuessesBounded
<1>2. QED
  BY <1>1, AccountInvariant, PTL

\* However many wrong passwords arrive at once, a lock on signing in sends one
\* text.
THEOREM LockTextsOnce ==
  ASSUME Limits
  PROVE  SignInSpec => []OneTextPerLock
<1>1. Inv => OneTextPerLock
  BY DEF Inv, SignInTypeOK, CountInv, LockTimes, OneTextPerLock, Kind
<1>2. QED
  BY <1>1, AccountInvariant, PTL

\* When PIN requests do not overlap with others: the areas behind the PIN are
\* never open to a session that did not enter it.
THEOREM WindowNotInherited ==
  ASSUME Limits, ~PinsOverlap
  PROVE  SignInSpec => []ElevationNotInherited
<1>1. Inv /\ AloneInv => ElevationNotInherited
  BY DEF Inv, AloneInv, SignInTypeOK, ElevationInv, ElevationNotInherited, PinOpens
<1>2. QED
  BY <1>1, AccountInvariant, AloneInvariant, PTL
==============================================================================
