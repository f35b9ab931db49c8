----------------------------- MODULE PartsProofs -----------------------------
(***************************************************************************)
(* Theorems about the small components: the cron lock, the metering of     *)
(* texts, the wrong-code limits of the portal and the numeric codes, each  *)
(* for its own specification, and about MCParts, which runs them side by   *)
(* side.                                                                   *)
(***************************************************************************)
EXTENDS MCParts, TLAPS, FiniteSetTheorems

-----------------------------------------------------------------------------
(* The lock of the cron jobs, for any number of ticks.                     *)

\* The variables keep their types: a key holds one run's token or none.
THEOREM TypeCorrect == Spec => []TypeOK
<1>1. Init => TypeOK
  BY DEF Init, TypeOK, Steps
<1>2. TypeOK /\ [Next]_vars => TypeOK'
  BY DEF TypeOK, Steps, Next, RunStep, vars, run_unguarded, unguarded_ends,
         acquire, work_ends, compare, delete, ttl_expires, Crash, Goto
<1>3. QED
  BY <1>1, <1>2, PTL DEF Spec

\* What keeps runs apart: whoever works or releases has its token in the key.
\* It takes a key that outlives the runs.
HolderInv == \A r \in Holders : lock = r

\* The holder's invariant is inductive when no run lasts longer than the key.
THEOREM HoldersHold ==
  ASSUME ~MayOverrun
  PROVE  Spec => []HolderInv
<1>1. Init => HolderInv
  BY DEF Init, HolderInv, Holders
<1>2. ASSUME TypeOK, HolderInv, [Next]_vars
      PROVE  HolderInv'
  <2>1. CASE UNCHANGED vars
    BY <1>2, <2>1 DEF HolderInv, Holders, vars
  <2>2. CASE ttl_expires
    BY <1>2, <2>2, JobLockAssumption DEF HolderInv, Holders, ttl_expires, Expires
  <2>3. ASSUME NEW r \in Run, RunStep(r)
        PROVE  HolderInv'
    <3>1. CASE run_unguarded(r) \/ unguarded_ends(r) \/ Crash(r)
      BY <1>2, <3>1 DEF HolderInv, Holders, TypeOK, run_unguarded, unguarded_ends,
                        Crash, Goto
    <3>2. CASE acquire(r)
      <4>1. Holders = {}
        BY <1>2, <3>2, JobLockAssumption DEF HolderInv, Holders, acquire, Free
      <4>2. QED
        BY <1>2, <3>2, <4>1 DEF HolderInv, Holders, TypeOK, acquire, Goto
    <3>3. CASE work_ends(r) \/ compare(r)
      BY <1>2, <3>3 DEF HolderInv, Holders, TypeOK, work_ends, compare, Goto
    <3>4. CASE delete(r)
      <4>1. Holders = {r}
        BY <1>2, <3>4 DEF HolderInv, Holders, delete
      <4>2. QED
        BY <1>2, <3>4, <4>1 DEF HolderInv, Holders, TypeOK, delete, Goto
    <3>5. QED
      BY <2>3, <3>1, <3>2, <3>3, <3>4 DEF RunStep
  <2>4. QED
    BY <1>2, <2>1, <2>2, <2>3 DEF Next
<1>3. QED
  BY <1>1, <1>2, TypeCorrect, PTL DEF Spec

\* As long as no run lasts longer than its key, two runs of a job are never in
\* flight at once, however many ticks fire and whichever of them crash.
THEOREM RunsDoNotOverlap ==
  ASSUME ~MayOverrun
  PROVE  Spec => []OneRun
<1>1. HolderInv => OneRun
  BY DEF HolderInv, OneRun
<1>2. QED
  BY <1>1, HoldersHold, PTL

\* Nor does a run then delete another's lock.
THEOREM DeletesOnlyItsOwn ==
  ASSUME ~MayOverrun
  PROVE  Spec => []DeletesOwnLock
<1>1. HolderInv => DeletesOwnLock
  BY DEF HolderInv, Holders, DeletesOwnLock
<1>2. QED
  BY <1>1, HoldersHold, PTL
-----------------------------------------------------------------------------
(* The metering of texts, for any number of texts and tries.               *)

\* What makes a second charge impossible: of a text with a reference at most
\* one try has left its record, only such records are charged, and the invoice
\* run has read no other.
SmsInv ==
  /\ row \in [U!Rows -> [kept : BOOLEAN, age : Nat, billed : BOOLEAN]]
  /\ taken \subseteq {w \in U!Rows : row[w].kept}
  /\ \A w \in U!Rows : row[w].billed => row[w].kept
  /\ \A s \in Send \ Unreferenced : \A m, n \in U!Tries :
       row[<<s, m>>].kept /\ row[<<s, n>>].kept => m = n

\* The cardinality SmsUsage speaks of is the usual one.
LEMMA CardinalityOfSms == ASSUME NEW S PROVE U!Cardinality(S) = Cardinality(S)
BY DEF U!Cardinality, Cardinality

\* A try keeps its record or finds another try's, so the records stay single.
LEMMA KeptKeepsSingle ==
  ASSUME SmsInv, NEW s \in Send, row' \in {row, U!Kept(s)}, taken' = taken
  PROVE  SmsInv'
<1>1. CASE row' = row
  BY <1>1 DEF SmsInv
<1>2. CASE row' = [row EXCEPT ![<<s, attempt[s]>>].kept = TRUE] /\ ~U!Conflicts(s)
  <2>1. row' \in [U!Rows -> [kept : BOOLEAN, age : Nat, billed : BOOLEAN]]
    BY <1>2 DEF SmsInv
  <2>2. \A w \in U!Rows : /\ row[w].kept => row'[w].kept
                          /\ row'[w].billed = row[w].billed
                          /\ w # <<s, attempt[s]>> => row'[w] = row[w]
    BY <1>2 DEF SmsInv
  <2>3. ASSUME NEW t \in Send \ Unreferenced, NEW m \in U!Tries, NEW n \in U!Tries,
               row'[<<t, m>>].kept, row'[<<t, n>>].kept
        PROVE  m = n
    <3>1. <<t, m>> \in U!Rows /\ <<t, n>> \in U!Rows
      BY <2>3 DEF U!Rows
    <3>2. CASE t = s
      <4>1. ~row[<<s, m>>].kept /\ ~row[<<s, n>>].kept
        BY <1>2, <2>3, <3>2 DEF U!Conflicts
      <4>2. QED
        BY <2>2, <2>3, <3>1, <3>2, <4>1
    <3>3. CASE t # s
      BY <2>2, <2>3, <3>1, <3>3 DEF SmsInv
    <3>4. QED
      BY <3>2, <3>3
  <2>4. QED
    BY <2>1, <2>2, <2>3 DEF SmsInv
<1>3. QED
  BY <1>1, <1>2 DEF U!Kept

\* A text with a reference is charged at most once, whatever is lost between
\* the gateway, the database and the invoice run.
THEOREM TextsAreBilledOnce == U!Spec => []BilledOnce
<1>1. U!Init => SmsInv
  BY DEF U!Init, SmsInv, U!Absent, U!Rows, U!Tries
<1>2. ASSUME SmsInv, [U!Next]_(U!vars)
      PROVE  SmsInv'
  <2>1. CASE UNCHANGED U!vars
    BY <1>2, <2>1 DEF SmsInv, U!vars, U!run
  <2>2. ASSUME NEW s \in Send, U!deliver_voucher_sms(s) \/ U!insert(s)
        PROVE  SmsInv'
    BY <1>2, <2>2 DEF SmsInv, U!deliver_voucher_sms, U!insert, U!run
  <2>3. ASSUME NEW s \in Send, U!committed(s) \/ U!try_failed(s)
        PROVE  SmsInv'
    <3>1. row' \in {row, U!Kept(s)} /\ taken' = taken
      BY <2>3 DEF U!committed, U!try_failed, U!run
    <3>2. QED
      BY <1>2, <3>1, KeptKeepsSingle
  <2>4. CASE U!run_reads
    BY <1>2, <2>4 DEF SmsInv, U!run_reads, U!Unbilled
  <2>5. CASE U!run_commits
    <3>1. \A w \in U!Rows : /\ row'[w].kept = row[w].kept
                            /\ row'[w].billed = (row[w].billed \/ w \in taken)
      BY <1>2, <2>5 DEF SmsInv, U!run_commits
    <3>2. row' \in [U!Rows -> [kept : BOOLEAN, age : Nat, billed : BOOLEAN]]
      BY <1>2, <2>5 DEF SmsInv, U!run_commits
    <3>3. taken' = {}
      BY <2>5 DEF U!run_commits, U!run_ends
    <3>4. \A s \in Send, n \in U!Tries : <<s, n>> \in U!Rows
      BY DEF U!Rows
    <3>5. QED
      BY <1>2, <3>1, <3>2, <3>3, <3>4 DEF SmsInv
  <2>6. CASE U!run_rolls_back \/ U!account_changes
    BY <1>2, <2>6 DEF SmsInv, U!run_rolls_back, U!run_ends, U!account_changes, U!run
  <2>7. CASE U!month_turns
    <3>1. \A w \in U!Rows : /\ row'[w].kept = row[w].kept
                            /\ row'[w].billed = row[w].billed
                            /\ row'[w].age \in Nat
                            /\ row'[w] \in [kept : BOOLEAN, age : Nat, billed : BOOLEAN]
      <4>1. SUFFICES ASSUME NEW s \in Send, NEW n \in U!Tries
            PROVE  LET w == U!Older(s, n)
                   IN  /\ w.kept = row[<<s, n>>].kept /\ w.billed = row[<<s, n>>].billed
                       /\ w \in [kept : BOOLEAN, age : Nat, billed : BOOLEAN]
        BY <2>7 DEF U!month_turns, U!Rows
      <4>2. row[<<s, n>>] \in [kept : BOOLEAN, age : Nat, billed : BOOLEAN]
        BY <1>2 DEF SmsInv, U!Rows
      <4>3. QED
        BY <4>2 DEF U!Older
    <3>2. row' \in [U!Rows -> [kept : BOOLEAN, age : Nat, billed : BOOLEAN]]
      BY <2>7, <3>1 DEF U!month_turns
    <3>3. taken' = taken
      BY <2>7 DEF U!month_turns, U!run
    <3>4. \A s \in Send, n \in U!Tries : <<s, n>> \in U!Rows
      BY DEF U!Rows
    <3>5. QED
      BY <1>2, <3>1, <3>2, <3>3, <3>4 DEF SmsInv
  <2>8. QED
    BY <1>2, <2>1, <2>2, <2>3, <2>4, <2>5, <2>6, <2>7 DEF U!Next, U!Meter
<1>3. SmsInv => BilledOnce
  <2> DEFINE Billed(s) == {n \in U!Tries : row[<<s, n>>].billed}
  <2>1. ASSUME SmsInv, NEW s \in Send \ Unreferenced
        PROVE  Cardinality(Billed(s)) <= 1
    <3>1. \A m, n \in Billed(s) : m = n
      BY <2>1 DEF SmsInv, U!Rows
    <3>2. Billed(s) = {} \/ \E n \in U!Tries : Billed(s) = {n}
      BY <3>1
    <3>3. Cardinality({}) = 0 /\ \A n : Cardinality({n}) = 1
      BY FS_EmptySet, FS_Singleton
    <3> HIDE DEF Billed
    <3>4. CASE Billed(s) = {}
      BY <3>3, <3>4
    <3>5. CASE \E n \in U!Tries : Billed(s) = {n}
      BY <3>3, <3>5
    <3>6. QED
      BY <3>2, <3>4, <3>5
  <2>2. QED
    BY <2>1, CardinalityOfSms DEF BilledOnce, U!BilledOnce
<1>4. QED
  BY <1>1, <1>2, <1>3, PTL DEF U!Spec

-----------------------------------------------------------------------------
(* The wrong-code limits, for any number of requests and devices.          *)

\* The requests that have been let through and have counted nothing yet.
Asking == {q \in Request : step[q] \in {"allowed", "wrong"}}
AskingAs(d) == {q \in Asking : mac[q] = d}

LoginTyped ==
  /\ step \in [Request -> L!Steps]
  /\ mac \in [Request -> Device]
  /\ seen \in [Request -> [ip : Nat, operator : Nat]]
  /\ counted \in [L!Counter -> Nat]
  /\ noted \subseteq L!Alert

\* The types of LoginLimits, without the bounds of the run.
THEOREM LoginTypesHold == L!Spec => []LoginTyped
<1>1. L!Init => LoginTyped
  BY LimitsAssumption DEF L!Init, LoginTyped, L!Steps, L!NotSeen
<1>2. ASSUME LoginTyped, [L!Next]_(L!vars)
      PROVE  LoginTyped'
  <2>1. CASE UNCHANGED L!vars
    BY <1>2, <2>1 DEF LoginTyped, L!vars
  <2>2. ASSUME NEW q \in Request, L!check(q) \/ L!code_exists(q) \/ L!code_unknown(q)
        PROVE  LoginTyped'
    BY <1>2, <2>2 DEF LoginTyped, L!check, L!code_exists, L!code_unknown, L!Goto, L!Steps
  <2>3. ASSUME NEW q \in Request, L!record_failure(q)
        PROVE  LoginTyped'
    <3>1. counted' \in [L!Counter -> Nat]
      BY <1>2, <2>3 DEF LoginTyped, L!record_failure
    <3>2. IP \in L!Counter /\ Operator \in L!Counter
      BY DEF L!Counter
    <3>3. QED
      BY <1>2, <2>3, <3>1, <3>2 DEF LoginTyped, L!record_failure, L!Goto, L!Steps
  <2>4. ASSUME NEW q \in Request, L!raise_alerts(q)
        PROVE  LoginTyped'
    <3>1. L!Raised(q) \subseteq L!Alert
      BY DEF L!Raised, L!Alert
    <3>2. QED
      BY <1>2, <2>4, <3>1 DEF LoginTyped, L!raise_alerts, L!Goto, L!Steps, L!NotSeen
  <2>5. ASSUME NEW c \in L!Counter, L!window_ends(c)
        PROVE  LoginTyped'
    BY <1>2, <2>5 DEF LoginTyped, L!window_ends
  <2>6. QED
    BY <1>2, <2>1, <2>2, <2>3, <2>4, <2>5 DEF L!Next, L!Ask
<1>3. QED
  BY <1>1, <1>2, PTL DEF L!Spec

\* The cardinality LoginLimits speaks of is the usual one.
LEMMA CardinalityOfRequests == ASSUME NEW S PROVE L!Cardinality(S) = Cardinality(S)
BY DEF L!Cardinality, Cardinality

\* A set of requests is finite, and one more request makes it one larger.
LEMMA Requests ==
  ASSUME NEW S \in SUBSET Request
  PROVE  /\ IsFiniteSet(S) /\ Cardinality(S) \in Nat
         /\ Cardinality(S) <= Cardinality(Request)
         /\ \A q \in Request \ S : Cardinality(S \cup {q}) = Cardinality(S) + 1
         /\ \A q \in S : Cardinality(S \ {q}) = Cardinality(S) - 1
         /\ \A R \in SUBSET S : Cardinality(R) <= Cardinality(S)
<1>1. IsFiniteSet(S) /\ Cardinality(S) <= Cardinality(Request)
  BY LimitsAssumption, FS_Subset
<1>2. QED
  BY <1>1, FS_Subset, FS_CardinalityType, FS_AddElement, FS_RemoveElement

\* A counter below its limit leaves room for every request there is; a request
\* that has passed the check takes a place, and gives it to its own count.
LimitsInv ==
  /\ counted[IP] + Cardinality(Asking) < IpLimit + Cardinality(Request)
  /\ \A d \in Device :
       counted[d] + Cardinality(AskingAs(d)) < DeviceLimit + Cardinality(Request)

\* Reached from the start, and kept by every step.
LEMMA LimitsHold == L!Spec => []LimitsInv
<1>1. L!Init => LimitsInv
  <2>1. L!Init => Asking = {} /\ \A d \in Device : AskingAs(d) = {}
    BY DEF L!Init, Asking, AskingAs
  <2>2. Cardinality({}) = 0 /\ Cardinality(Request) \in Nat
    BY FS_EmptySet, Requests
  <2>3. L!Init => counted[IP] = 0 /\ \A d \in Device : counted[d] = 0
    BY DEF L!Init, L!Counter
  <2>4. QED
    BY <2>1, <2>2, <2>3, LimitsAssumption DEF LimitsInv
<1>2. ASSUME LoginTyped, LimitsInv, [L!Next]_(L!vars)
      PROVE  LimitsInv'
  <2>1. /\ counted[IP] \in Nat /\ \A d \in Device : counted[d] \in Nat
        /\ IP \in L!Counter /\ Device \subseteq L!Counter
    BY <1>2 DEF LoginTyped, L!Counter
  <2>2. /\ Asking \in SUBSET Request /\ \A d \in Device : AskingAs(d) \in SUBSET Asking
        /\ Asking' \in SUBSET Request /\ \A d \in Device : AskingAs(d)' \in SUBSET Asking'
    BY DEF Asking, AskingAs
  <2>3. CASE UNCHANGED L!vars
    BY <1>2, <2>3 DEF LimitsInv, Asking, AskingAs, L!vars
  <2>4. ASSUME NEW q \in Request, L!check(q)
        PROVE  LimitsInv'
    <3>1. /\ ~L!Blocked(mac'[q]) /\ mac'[q] \in Device /\ counted' = counted
          /\ mac' = [mac EXCEPT ![q] = mac'[q]]
      BY <1>2, <2>4 DEF LoginTyped, L!check
    <3>2. q \notin Asking /\ Asking' = Asking \cup {q}
      BY <1>2, <2>4 DEF LoginTyped, Asking, L!check, L!Goto
    <3>3. \A d \in Device : AskingAs(d)' = IF d = mac'[q] THEN AskingAs(d) \cup {q} ELSE AskingAs(d)
      BY <1>2, <3>1, <3>2 DEF LoginTyped, AskingAs, Asking
    <3>4. \A d \in Device : q \notin AskingAs(d)
      BY <3>2 DEF AskingAs
    <3>5. counted[IP] < IpLimit /\ counted[mac'[q]] < DeviceLimit
      BY <2>1, <3>1, LimitsAssumption DEF L!Blocked
    <3>6. counted'[IP] + Cardinality(Asking') < IpLimit + Cardinality(Request)
      BY <2>1, <2>2, <3>1, <3>5, Requests, LimitsAssumption
    <3>7. ASSUME NEW d \in Device
          PROVE  counted'[d] + Cardinality(AskingAs(d)') < DeviceLimit + Cardinality(Request)
      BY <1>2, <2>1, <2>2, <3>1, <3>3, <3>5, <3>7, Requests, LimitsAssumption DEF LimitsInv
    <3>8. QED
      BY <3>6, <3>7 DEF LimitsInv
  <2>5. ASSUME NEW q \in Request, L!code_unknown(q) \/ L!code_exists(q) \/ L!raise_alerts(q)
        PROVE  LimitsInv'
    <3>1. Asking' \in SUBSET Asking /\ \A d \in Device : AskingAs(d)' \in SUBSET AskingAs(d)
      BY <1>2, <2>5 DEF LoginTyped, Asking, AskingAs, L!code_unknown, L!code_exists,
                        L!raise_alerts, L!Goto
    <3>2. counted' = counted
      BY <2>5 DEF L!code_unknown, L!code_exists, L!raise_alerts
    <3>3. QED
      BY <1>2, <2>1, <2>2, <3>1, <3>2, Requests, LimitsAssumption DEF LimitsInv
  <2>6. ASSUME NEW q \in Request, L!record_failure(q)
        PROVE  LimitsInv'
    <3>1. q \in Asking /\ Asking' = Asking \ {q}
      BY <1>2, <2>6 DEF LoginTyped, Asking, L!record_failure, L!Goto
    <3>2. /\ \A d \in Device : AskingAs(d)' = AskingAs(d) \ {q}
          /\ mac[q] \in Device /\ q \in AskingAs(mac[q])
      BY <1>2, <2>6, <3>1 DEF LoginTyped, AskingAs, L!record_failure
    <3>3. /\ counted'[IP] = counted[IP] + 1
          /\ \A d \in Device : counted'[d] = IF d = mac[q] THEN counted[d] + 1 ELSE counted[d]
      BY <2>1, <2>6, LimitsAssumption DEF L!record_failure
    <3>4. \A d \in Device : Cardinality(AskingAs(d) \ {q}) <= Cardinality(AskingAs(d))
      BY <2>2, Requests
    <3>5. Cardinality(Asking \ {q}) = Cardinality(Asking) - 1
      BY <2>2, <3>1, Requests
    <3>6. Cardinality(AskingAs(mac[q]) \ {q}) = Cardinality(AskingAs(mac[q])) - 1
      BY <2>2, <3>2, Requests
    <3>7. /\ Cardinality(Asking) \in Nat /\ Cardinality(Asking \ {q}) \in Nat
          /\ \A d \in Device : /\ Cardinality(AskingAs(d)) \in Nat
                               /\ Cardinality(AskingAs(d) \ {q}) \in Nat
          /\ Cardinality(Request) \in Nat
      BY <2>2, Requests
    <3>8. counted'[IP] + Cardinality(Asking') < IpLimit + Cardinality(Request)
      BY <1>2, <2>1, <3>1, <3>3, <3>5, <3>7, LimitsAssumption DEF LimitsInv
    <3>9. ASSUME NEW d \in Device
          PROVE  counted'[d] + Cardinality(AskingAs(d)') < DeviceLimit + Cardinality(Request)
      <4>1. /\ counted[d] + Cardinality(AskingAs(d)) < DeviceLimit + Cardinality(Request)
            /\ Cardinality(AskingAs(d)') = Cardinality(AskingAs(d) \ {q})
        BY <1>2, <3>2 DEF LimitsInv
      <4>2. CASE d = mac[q]
        BY <2>1, <3>3, <3>6, <3>7, <4>1, <4>2, LimitsAssumption
      <4>3. CASE d # mac[q]
        BY <2>1, <3>3, <3>4, <3>7, <4>1, <4>3, LimitsAssumption
      <4>4. QED
        BY <4>2, <4>3
    <3>10. QED
      BY <3>8, <3>9 DEF LimitsInv
  <2>7. ASSUME NEW c \in L!Counter, L!window_ends(c)
        PROVE  LimitsInv'
    <3>1. Asking' = Asking /\ \A d \in Device : AskingAs(d)' = AskingAs(d)
      BY <2>7 DEF Asking, AskingAs, L!window_ends
    <3>2. \A e \in L!Counter : counted'[e] = IF e = c THEN 0 ELSE counted[e]
      BY <1>2, <2>7 DEF LoginTyped, L!window_ends
    <3>3. /\ Cardinality(Asking) \in Nat /\ Cardinality(Asking) <= Cardinality(Request)
          /\ Cardinality(Request) \in Nat
          /\ \A d \in Device : /\ Cardinality(AskingAs(d)) \in Nat
                               /\ Cardinality(AskingAs(d)) <= Cardinality(Request)
      BY <2>2, Requests
    <3>4. QED
      BY <1>2, <2>1, <3>1, <3>2, <3>3, LimitsAssumption DEF LimitsInv
  <2>8. QED
    BY <1>2, <2>3, <2>4, <2>5, <2>6, <2>7 DEF L!Next, L!Ask
<1>3. QED
  BY <1>1, <1>2, LoginTypesHold, PTL DEF L!Spec

\* The limits are passed by no more wrong codes than requests were in flight,
\* for any number of requests, devices and settings.
THEOREM LimitsAreNearlyKept == L!Spec => []WrongCodesBounded
<1>1. ASSUME LoginTyped, LimitsInv
      PROVE  WrongCodesBounded
  <2>1. /\ Asking \in SUBSET Request /\ \A d \in Device : AskingAs(d) \in SUBSET Request
        /\ counted[IP] \in Nat /\ \A d \in Device : counted[d] \in Nat
    BY <1>1 DEF Asking, AskingAs, LoginTyped, L!Counter
  <2>2. /\ counted[IP] < IpLimit + Cardinality(Request)
        /\ \A d \in Device : counted[d] < DeviceLimit + Cardinality(Request)
    BY <1>1, <2>1, Requests, LimitsAssumption DEF LimitsInv
  <2>3. QED
    BY <2>2, CardinalityOfRequests DEF WrongCodesBounded, L!WrongCodesBounded
<1>2. QED
  BY <1>1, LoginTypesHold, LimitsHold, PTL

\* A site whose customers are refused has been reported, or the request that
\* brought its count to the limit is about to.
THEOREM BlockedSitesAreReported == L!Spec => []BlockedSiteIsReported
<1> USE DEF BlockedSiteIsReported, L!BlockedSiteIsReported
<1>1. L!Init => BlockedSiteIsReported
  BY LimitsAssumption DEF L!Init, L!Counter
<1>2. ASSUME LoginTyped, BlockedSiteIsReported, [L!Next]_(L!vars)
      PROVE  BlockedSiteIsReported'
  <2>1. IP \in L!Counter /\ Operator \in L!Counter /\ counted[IP] \in Nat
    BY <1>2 DEF LoginTyped, L!Counter
  <2>2. CASE UNCHANGED L!vars
    BY <1>2, <2>2 DEF L!vars
  <2>3. ASSUME NEW q \in Request, L!check(q) \/ L!code_exists(q) \/ L!code_unknown(q)
        PROVE  BlockedSiteIsReported'
    BY <1>2, <2>3 DEF LoginTyped, L!check, L!code_exists, L!code_unknown, L!Goto
  <2>4. ASSUME NEW q \in Request, L!record_failure(q)
        PROVE  BlockedSiteIsReported'
    <3>1. /\ counted'[IP] = counted[IP] + 1 /\ noted' = noted
          /\ step' = [step EXCEPT ![q] = "alerting"] /\ step[q] = "wrong"
          /\ seen' = [seen EXCEPT ![q] = [ip |-> counted'[IP], operator |-> counted'[Operator]]]
      BY <2>1, <2>4 DEF L!record_failure, L!Goto
    <3>2. CASE counted[IP] >= IpLimit
      BY <1>2, <3>1, <3>2 DEF LoginTyped
    <3>3. CASE counted[IP] < IpLimit
      <4>1. counted'[IP] >= IpLimit => L!ReachesLimit(seen'[q].ip) /\ step'[q] = "alerting"
        BY <1>2, <2>1, <3>1, <3>3, LimitsAssumption DEF LoginTyped, L!ReachesLimit
      <4>2. QED
        BY <4>1 DEF L!ReachesLimit
    <3>4. QED
      BY <2>1, <3>2, <3>3, LimitsAssumption
  <2>5. ASSUME NEW q \in Request, L!raise_alerts(q)
        PROVE  BlockedSiteIsReported'
    <3>1. L!ReachesLimit(seen[q].ip) => "site_blocked" \in noted'
      BY <2>5 DEF L!raise_alerts, L!Raised
    <3>2. QED
      BY <1>2, <2>5, <3>1 DEF LoginTyped, L!raise_alerts, L!Goto, L!ReachesLimit
  <2>6. ASSUME NEW c \in L!Counter, L!window_ends(c)
        PROVE  BlockedSiteIsReported'
    BY <1>2, <2>1, <2>6, LimitsAssumption DEF LoginTyped, L!window_ends, L!ReachesLimit
  <2>7. QED
    BY <1>2, <2>2, <2>3, <2>4, <2>5, <2>6 DEF L!Next, L!Ask
<1>3. QED
  BY <1>1, <1>2, LoginTypesHold, PTL DEF L!Spec

-----------------------------------------------------------------------------
(* The check digit, for codes of every length.                             *)

\* The row of an interim digit: what follows it on each digit, 0 to 9.
Row(i, a, b, c, d, e, f, g, h, j, k) ==
  /\ N!damm_interim(i, 0) = a /\ N!damm_interim(i, 1) = b /\ N!damm_interim(i, 2) = c
  /\ N!damm_interim(i, 3) = d /\ N!damm_interim(i, 4) = e /\ N!damm_interim(i, 5) = f
  /\ N!damm_interim(i, 6) = g /\ N!damm_interim(i, 7) = h /\ N!damm_interim(i, 8) = j
  /\ N!damm_interim(i, 9) = k

\* The table, cell by cell.
LEMMA Table ==
  /\ Row(0, 0, 3, 1, 7, 5, 9, 8, 6, 4, 2)
  /\ Row(1, 7, 0, 9, 2, 1, 5, 4, 8, 6, 3)
  /\ Row(2, 4, 2, 0, 6, 8, 7, 1, 3, 5, 9)
  /\ Row(3, 1, 7, 5, 0, 9, 8, 3, 4, 2, 6)
  /\ Row(4, 6, 1, 2, 3, 0, 4, 5, 9, 7, 8)
  /\ Row(5, 3, 6, 7, 4, 2, 0, 9, 5, 8, 1)
  /\ Row(6, 5, 8, 6, 9, 7, 2, 0, 1, 3, 4)
  /\ Row(7, 8, 9, 4, 5, 3, 6, 2, 0, 1, 7)
  /\ Row(8, 9, 4, 3, 8, 6, 1, 7, 2, 0, 5)
  /\ Row(9, 2, 5, 8, 1, 4, 3, 6, 7, 9, 0)
<1>0. Row(0, 0, 3, 1, 7, 5, 9, 8, 6, 4, 2)
  <2>1. N!DAMM[0 + 1] = <<0, 3, 1, 7, 5, 9, 8, 6, 4, 2>>
    BY DEF N!DAMM
  <2>2. QED
    BY <2>1 DEF N!damm_interim, Row
<1>1. Row(1, 7, 0, 9, 2, 1, 5, 4, 8, 6, 3)
  <2>1. N!DAMM[1 + 1] = <<7, 0, 9, 2, 1, 5, 4, 8, 6, 3>>
    BY DEF N!DAMM
  <2>2. QED
    BY <2>1 DEF N!damm_interim, Row
<1>2. Row(2, 4, 2, 0, 6, 8, 7, 1, 3, 5, 9)
  <2>1. N!DAMM[2 + 1] = <<4, 2, 0, 6, 8, 7, 1, 3, 5, 9>>
    BY DEF N!DAMM
  <2>2. QED
    BY <2>1 DEF N!damm_interim, Row
<1>3. Row(3, 1, 7, 5, 0, 9, 8, 3, 4, 2, 6)
  <2>1. N!DAMM[3 + 1] = <<1, 7, 5, 0, 9, 8, 3, 4, 2, 6>>
    BY DEF N!DAMM
  <2>2. QED
    BY <2>1 DEF N!damm_interim, Row
<1>4. Row(4, 6, 1, 2, 3, 0, 4, 5, 9, 7, 8)
  <2>1. N!DAMM[4 + 1] = <<6, 1, 2, 3, 0, 4, 5, 9, 7, 8>>
    BY DEF N!DAMM
  <2>2. QED
    BY <2>1 DEF N!damm_interim, Row
<1>5. Row(5, 3, 6, 7, 4, 2, 0, 9, 5, 8, 1)
  <2>1. N!DAMM[5 + 1] = <<3, 6, 7, 4, 2, 0, 9, 5, 8, 1>>
    BY DEF N!DAMM
  <2>2. QED
    BY <2>1 DEF N!damm_interim, Row
<1>6. Row(6, 5, 8, 6, 9, 7, 2, 0, 1, 3, 4)
  <2>1. N!DAMM[6 + 1] = <<5, 8, 6, 9, 7, 2, 0, 1, 3, 4>>
    BY DEF N!DAMM
  <2>2. QED
    BY <2>1 DEF N!damm_interim, Row
<1>7. Row(7, 8, 9, 4, 5, 3, 6, 2, 0, 1, 7)
  <2>1. N!DAMM[7 + 1] = <<8, 9, 4, 5, 3, 6, 2, 0, 1, 7>>
    BY DEF N!DAMM
  <2>2. QED
    BY <2>1 DEF N!damm_interim, Row
<1>8. Row(8, 9, 4, 3, 8, 6, 1, 7, 2, 0, 5)
  <2>1. N!DAMM[8 + 1] = <<9, 4, 3, 8, 6, 1, 7, 2, 0, 5>>
    BY DEF N!DAMM
  <2>2. QED
    BY <2>1 DEF N!damm_interim, Row
<1>9. Row(9, 2, 5, 8, 1, 4, 3, 6, 7, 9, 0)
  <2>1. N!DAMM[9 + 1] = <<2, 5, 8, 1, 4, 3, 6, 7, 9, 0>>
    BY DEF N!DAMM
  <2>2. QED
    BY <2>1 DEF N!damm_interim, Row
<1>10. QED
  BY <1>0, <1>1, <1>2, <1>3, <1>4, <1>5, <1>6, <1>7, <1>8, <1>9

LEMMA DigitsAre == N!Digits = {0, 1, 2, 3, 4, 5, 6, 7, 8, 9}
BY DEF N!Digits

\* What the algorithm is chosen for.  A digit leads to a digit; another digit,
\* or another interim digit, leads elsewhere; a digit leads itself to zero; and
\* two digits in the other order lead elsewhere.
LEMMA Damm ==
  ASSUME NEW i \in N!Digits, NEW d \in N!Digits
  PROVE  /\ N!damm_interim(i, d) \in N!Digits
         /\ N!damm_interim(i, i) = 0
         /\ \A e \in N!Digits \ {d} : N!damm_interim(i, d) # N!damm_interim(i, e)
         /\ \A j \in N!Digits \ {i} : N!damm_interim(i, d) # N!damm_interim(j, d)
         /\ \A e \in N!Digits \ {d} :
              N!damm_interim(N!damm_interim(i, d), e) # N!damm_interim(N!damm_interim(i, e), d)
<1>1. N!damm_interim(i, d) \in N!Digits /\ N!damm_interim(i, i) = 0
  BY Table, DigitsAre DEF Row
<1>2. ASSUME NEW e \in N!Digits \ {d}
      PROVE  N!damm_interim(i, d) # N!damm_interim(i, e)
  BY Table, DigitsAre DEF Row
<1>3. ASSUME NEW j \in N!Digits \ {i}
      PROVE  N!damm_interim(i, d) # N!damm_interim(j, d)
  BY Table, DigitsAre DEF Row
<1>4. ASSUME NEW e \in N!Digits \ {d}
      PROVE  N!damm_interim(N!damm_interim(i, d), e) # N!damm_interim(N!damm_interim(i, e), d)
  BY Table, DigitsAre DEF Row
<1>5. QED
  BY <1>1, <1>2, <1>3, <1>4

\* The two codes part at the slip and never meet again.
CodeInv ==
  /\ printed \in N!Digits /\ typed \in N!Digits /\ slip \in BOOLEAN
  /\ slip <=> printed # typed

\* A code of any length that ends in its check digit is accepted, and with one
\* digit mistaken or two neighbours swapped, refused.
THEOREM SlipsAreAlwaysRefused == N!Spec => []SlipsAreRefused
<1>1. N!Init => CodeInv
  <2>1. N!Init => printed \in N!Digits /\ typed \in N!Digits
    BY DEF N!Init, N!Digits
  <2>2. N!Init => slip \in BOOLEAN /\ (slip <=> printed # typed)
    BY DEF N!Init
  <2>3. QED
    BY <2>1, <2>2 DEF CodeInv
<1>2. ASSUME CodeInv, [N!Next]_(N!vars)
      PROVE  CodeInv'
  <2>1. CASE UNCHANGED N!vars
    BY <1>2, <2>1 DEF CodeInv, N!vars
  <2>2. ASSUME NEW d \in N!Digits, N!typed_right(d)
        PROVE  CodeInv'
    BY <1>2, <2>2, Damm DEF CodeInv, N!typed_right
  <2>3. ASSUME NEW d \in N!Digits, NEW e \in N!Digits, N!typed_wrong(d, e)
        PROVE  CodeInv'
    BY <1>2, <2>3, Damm DEF CodeInv, N!typed_wrong
  <2>4. ASSUME NEW d \in N!Digits, NEW e \in N!Digits, N!typed_swapped(d, e)
        PROVE  CodeInv'
    BY <1>2, <2>4, Damm DEF CodeInv, N!typed_swapped
  <2>5. QED
    BY <1>2, <2>1, <2>2, <2>3, <2>4 DEF N!Next
<1>3. CodeInv => SlipsAreRefused
  BY Damm DEF CodeInv, SlipsAreRefused, N!SlipsAreRefused, N!damm_valid, N!damm_check_digit
<1>4. QED
  BY <1>1, <1>2, <1>3, PTL DEF N!Spec

-----------------------------------------------------------------------------
(* The components side by side.                                            *)

\* Putting them side by side adds no behaviour to any of them: what PartsSpec
\* is checked for is checked of each component's own specification.
THEOREM PartsAreThemselves ==
  PartsSpec => Spec /\ TunnelsSpec /\ U!Spec /\ SignInSpec /\ L!Spec /\ N!Spec
<1>1. PartsInit => Init /\ TunnelsInit /\ U!Init /\ SignInInit /\ L!Init /\ N!Init
  BY DEF PartsInit
<1>2. ASSUME [PartsNext]_all
      PROVE  /\ [Next]_vars /\ [TunnelsNext]_tunnels /\ [U!Next]_(U!vars)
             /\ [SignInNext]_sign_in /\ [L!Next]_(L!vars) /\ [N!Next]_(N!vars)
  <2>1. UNCHANGED cron_lock <=> UNCHANGED vars
    BY DEF cron_lock
  <2>2. UNCHANGED sms <=> UNCHANGED U!vars
    BY DEF sms, U!vars, U!metering, U!run
  <2>3. UNCHANGED portal <=> UNCHANGED L!vars
    BY DEF portal, L!vars
  <2>4. UNCHANGED code <=> UNCHANGED N!vars
    BY DEF code, N!vars
  <2>5. UNCHANGED all => /\ UNCHANGED cron_lock /\ UNCHANGED tunnels /\ UNCHANGED sms
                         /\ UNCHANGED sign_in /\ UNCHANGED portal /\ UNCHANGED code
    BY DEF all
  <2>6. QED
    BY <1>2, <2>1, <2>2, <2>3, <2>4, <2>5 DEF PartsNext
<1>3. QED
  BY <1>1, <1>2, PTL DEF PartsSpec, Spec, TunnelsSpec, U!Spec, SignInSpec, L!Spec, N!Spec
==============================================================================
