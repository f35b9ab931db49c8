------------------------ MODULE VoucherAccessProofs ------------------------
(***************************************************************************)
(* Proofs about VoucherAccess, for any Acct-Session-Ids, any number of     *)
(* jobs in flight, of faults and of attempts: types, that no ended voucher *)
(* is revived, that the mark of a wind-down stands only on an end that has *)
(* passed, that the reconciliation keeps the row of a client who has just  *)
(* come, and that every step is one of AccessPromise's.                    *)
(***************************************************************************)
EXTENDS VoucherAccess, TLAPS

WorkType == [step : Steps, rows : SUBSET Session, seen : SUBSET Session, door : BOOLEAN]

-----------------------------------------------------------------------------
(* Types                                                                   *)

LEMMA IdleType == Idle \in WorkType
BY DEF Idle, WorkType, Steps

LEMMA TypeInit == Init => TypeOK
<1>1. Init => event \in [Session -> 0 .. MaxAttempts - 1] /\ faults \in 0 .. MaxFaults
  BY VoucherAccessAssumption DEF VoucherAccessAssumption, Init
<1>2. Init => work \in [Job -> WorkType]
  BY IdleType DEF Init
<1>3. Init => api \in BOOLEAN
  BY DEF Init
<1>4. QED
  BY <1>1, <1>2, <1>3 DEF Init, TypeOK, WorkType, Ages, Troubles

\* A job that begins, goes on or ends holds what a job may hold.
LEMMA LeavesType ==
  ASSUME TypeOK, NEW j \in Job, NEW w \in WorkType, Leaves(j, w)
  PROVE  work' \in [Job -> WorkType]
BY DEF TypeOK, Leaves, WorkType

LEMMA BeginType ==
  ASSUME TypeOK, NEW j \in Job, NEW w \in WorkType, Begin(j, w)
  PROVE  work' \in [Job -> WorkType]
BY DEF TypeOK, Begin, WorkType

\* Going off the air, closing rows and committing events keep the types.
LEMMA OffType ==
  ASSUME TypeOK, NEW K \in SUBSET Session, Off(K)
  PROVE  online' \subseteq Session /\ adopted' \subseteq Session /\ wire' \subseteq Packet
BY DEF TypeOK, Off, Packet

LEMMA ClosedType ==
  ASSUME TypeOK, NEW K, Closed(K)
  PROVE  row' \in [Session -> {"none", "open", "closed"}] /\ age' \in [Session -> Ages]
BY DEF TypeOK, Closed, Ages

LEMMA AttemptsType ==
  ASSUME NEW n \in Nat
  PROVE  AttemptsMade(n) \in 0 .. MaxAttempts - 1
BY VoucherAccessAssumption DEF VoucherAccessAssumption, AttemptsMade

LEMMA EventsType ==
  ASSUME TypeOK, NEW K \in SUBSET Session, CommitsEvents(K)
  PROVE  event' \in [Session -> 0 .. MaxAttempts - 1] /\ cooling' \subseteq Session
BY AttemptsType DEF TypeOK, CommitsEvents

LEMMA RouterType ==
  ASSUME TypeOK, Router
  PROVE  TypeOK'
<1>1. CASE authorize \/ accept_lost \/ cookie_expires
  <2>1. granted' \in BOOLEAN /\ cookie' \in BOOLEAN
    BY <1>1 DEF TypeOK, authorize, accept_lost, cookie_expires
  <2>2. QED
    BY <1>1, <2>1 DEF TypeOK, authorize, accept_lost, cookie_expires, radius, service, rows, events, network
<1>2. ASSUME NEW s \in Session, log_off(s)
      PROVE  TypeOK'
  BY <1>2, OffType DEF TypeOK, log_off, radius, service, events, network
<1>3. ASSUME NEW s \in Session, interim_update(s)
      PROVE  TypeOK'
  BY <1>3 DEF TypeOK, interim_update, Ages, radius, service, client, events, network
<1>4. ASSUME NEW s \in Session, NEW by_cookie \in BOOLEAN, log_in(s, by_cookie)
      PROVE  TypeOK'
  BY <1>4 DEF TypeOK, log_in, Packet, radius, service, events, network
<1>5. ASSUME NEW s \in Session, NEW again \in BOOLEAN, accounting(s, again)
      PROVE  TypeOK'
  <2>1. CASE start(s)
    BY <1>5, <2>1 DEF TypeOK, accounting, start, Ages, service, client, events, network
  <2>2. CASE stop(s)
    BY <1>5, <2>2, ClosedType DEF TypeOK, accounting, stop, service, client, events, network
  <2>3. QED
    BY <1>5, <2>1, <2>2 DEF accounting
<1>6. ASSUME NEW m \in Packet, packet_lost(m)
      PROVE  TypeOK'
  BY <1>6 DEF TypeOK, packet_lost, radius, service, client, rows, events, network
<1>7. CASE router_lost \/ router_returns
  <2>1. faults' \in 0 .. MaxFaults
    BY <1>7, VoucherAccessAssumption DEF VoucherAccessAssumption, TypeOK, router_lost, router_returns
  <2>2. up' \in BOOLEAN /\ UNCHANGED <<trouble, api, radius, service, client, wire, rows, events, work>>
    BY <1>7 DEF router_lost, router_returns
  <2>3. QED
    BY <2>1, <2>2 DEF TypeOK, radius, service, client, rows, events
<1>8. QED
  BY <1>1, <1>2, <1>3, <1>4, <1>5, <1>6, <1>7 DEF Router

LEMMA TimeType ==
  ASSUME TypeOK, Time
  PROVE  TypeOK'
<1>1. ASSUME NEW what \in {"time", "data"}, runs_out(what)
      PROVE  TypeOK'
  BY <1>1 DEF TypeOK, runs_out, service, client, rows, events, network
<1>2. ASSUME NEW s \in Session, row_ages(s)
      PROVE  TypeOK'
  <2>1. \A a \in Ages \ {"ancient"} : Older[a] \in Ages
    BY DEF Older, Ages
  <2>2. age' \in [Session -> Ages]
    BY <1>2, <2>1 DEF TypeOK, row_ages
  <2>3. QED
    BY <1>2, <2>2 DEF TypeOK, row_ages, radius, service, client, events, network
<1>3. ASSUME NEW s \in Session, two_minutes_pass(s)
      PROVE  TypeOK'
  BY <1>3 DEF TypeOK, two_minutes_pass, radius, service, client, rows, network
<1>4. QED
  BY <1>1, <1>2, <1>3 DEF Time

LEMMA OwnersType ==
  ASSUME TypeOK, Owners
  PROVE  TypeOK'
<1>1. CASE restore_voucher
  BY <1>1 DEF TypeOK, restore_voucher, service, client, rows, events, network
<1>2. CASE service_ends \/ restore_operator
  BY <1>2 DEF TypeOK, service_ends, restore_operator, Moves, radius, client, rows, events, network
<1>3. QED
  BY <1>1, <1>2 DEF Owners

\* What a reconciliation or a check of exhausted sessions removes and closes
\* are sessions, as are the rows it has in hand.
LEMMA WorkRows ==
  ASSUME TypeOK, NEW j \in Job
  PROVE  work[j] \in WorkType
BY DEF TypeOK, WorkType

LEMMA BeginsType ==
  ASSUME TypeOK,
         expire_selects \/ disable_voucher \/ end_hotspot_service \/ exhausted_lists \/ reconcile_lists
  PROVE  TypeOK'
<1>1. CASE expire_selects
  <2>1. [Idle EXCEPT !.step = "end"] \in WorkType
    BY DEF Idle, WorkType, Steps
  <2>2. QED
    BY <1>1, <2>1, BeginType DEF TypeOK, WorkType, Job, expire_selects, radius, service, client, rows, events, network
<1>2. CASE disable_voucher
  <2>1. PICK r \in LatestOpen : Begin("disable", [Idle EXCEPT !.step = "disconnect", !.rows = r])
    BY <1>2 DEF disable_voucher
  <2>2. [Idle EXCEPT !.step = "disconnect", !.rows = r] \in WorkType
    BY DEF Idle, WorkType, Steps, LatestOpen, Open
  <2>3. work' \in [Job -> WorkType]
    BY <2>1, <2>2, BeginType DEF Job
  <2>4. QED
    BY <1>2, <2>3 DEF TypeOK, WorkType, disable_voucher, service, client, rows, events, network
<1>3. CASE end_hotspot_service
  <2>1. [Idle EXCEPT !.step = IF Open = {} THEN "mark" ELSE "disconnect", !.rows = Open] \in WorkType
    BY DEF Idle, WorkType, Steps, Open
  <2>2. work' \in [Job -> WorkType]
    BY <1>3, <2>1, BeginType DEF Job, end_hotspot_service
  <2>3. QED
    BY <1>3, <2>2 DEF TypeOK, WorkType, end_hotspot_service, radius, client, rows, events, network
<1>4. CASE exhausted_lists
  <2>1. [Idle EXCEPT !.step = "act", !.rows = Open, !.seen = online] \in WorkType
    BY DEF Idle, WorkType, Steps, Open, TypeOK
  <2>2. work' \in [Job -> WorkType]
    BY <1>4, <2>1, BeginType DEF Job, exhausted_lists
  <2>3. QED
    BY <1>4, <2>2 DEF TypeOK, WorkType, exhausted_lists, radius, service, client, rows, events, network
<1>5. CASE reconcile_lists
  <2>0. (cookie /\ online = {}) \in BOOLEAN
    BY DEF TypeOK
  <2>1. [Idle EXCEPT !.step = "act", !.seen = online, !.door = (cookie /\ online = {})] \in WorkType
    BY <2>0 DEF Idle, WorkType, Steps, TypeOK
  <2>2. work' \in [Job -> WorkType]
    BY <1>5, <2>1, BeginType DEF Job, reconcile_lists
  <2>3. QED
    BY <1>5, <2>2 DEF TypeOK, WorkType, reconcile_lists, radius, service, client, rows, events, network
<1>6. QED
  BY <1>1, <1>2, <1>3, <1>4, <1>5

LEMMA DisconnectsType ==
  ASSUME TypeOK, NEW j \in Job, disconnects(j)
  PROVE  TypeOK'
<1>1. PICK o \in Outcomes(work[j].rows), cleared \in Answers, done \in Answers :
        /\ Off(IF done /\ \E s \in Session : row[s] # "none" THEN online ELSE o.kicked)
        /\ cookie' = (cookie /\ ~(done /\ \E s \in Session : row[s] # "none")
                      /\ ~(cleared /\ work[j].rows # {}))
        /\ IF j = "wind_down"
           THEN Leaves(j, [work[j] EXCEPT !.step = "mark", !.rows = work[j].rows \ o.sent]) /\ UNCHANGED events
           ELSE Leaves(j, Idle) /\ CommitsEvents(work[j].rows \ o.sent)
  BY DEF disconnects
<1>2. work[j].rows \ o.sent \subseteq Session
  BY WorkRows DEF WorkType
<1>3. online' \subseteq Session /\ adopted' \subseteq Session /\ wire' \subseteq Packet
  <2>1. (IF done /\ \E s \in Session : row[s] # "none" THEN online ELSE o.kicked) \in SUBSET Session
    BY DEF Outcomes, TypeOK
  <2>2. QED
    BY <1>1, <2>1, OffType
<1>4. work' \in [Job -> WorkType]
  <2>1. [work[j] EXCEPT !.step = "mark", !.rows = work[j].rows \ o.sent] \in WorkType
    BY <1>2, WorkRows DEF WorkType, Steps
  <2>2. QED
    BY <1>1, <2>1, IdleType, LeavesType
<1>5. event' \in [Session -> 0 .. MaxAttempts - 1] /\ cooling' \subseteq Session
  BY <1>1, <1>2, EventsType DEF TypeOK, events
<1>6. cookie' \in BOOLEAN
  BY <1>1 DEF TypeOK
<1>7. QED
  BY <1>3, <1>4, <1>5, <1>6 DEF TypeOK, WorkType, disconnects, radius, service, network

LEMMA StepsType ==
  ASSUME TypeOK, NEW j \in Job, JobStep(j)
  PROVE  TypeOK'
<1>1. CASE expire_ends
  <2>1. PICK r \in LatestOpen :
          Leaves("expire", [work["expire"] EXCEPT !.step = "disconnect", !.rows = r])
    BY <1>1 DEF expire_ends
  <2>2. [work["expire"] EXCEPT !.step = "disconnect", !.rows = r] \in WorkType
    <3>1. r \subseteq Session
      BY DEF LatestOpen, Open
    <3>2. work["expire"] \in WorkType
      BY WorkRows DEF Job
    <3>3. QED
      BY <3>1, <3>2 DEF WorkType, Steps
  <2>3. work' \in [Job -> WorkType]
    BY <2>1, <2>2, LeavesType DEF Job
  <2>4. QED
    BY <1>1, <2>3 DEF TypeOK, WorkType, expire_ends, service, client, rows, events, network
<1>2. CASE wind_down_marks
  <2>1. work' \in [Job -> WorkType]
    BY <1>2, IdleType, LeavesType DEF wind_down_marks, Job
  <2>2. event' \in [Session -> 0 .. MaxAttempts - 1] /\ cooling' \subseteq Session
    BY <1>2, EventsType, WorkRows DEF wind_down_marks, Job, WorkType
  <2>3. cut_off' \in BOOLEAN
    BY <1>2 DEF TypeOK, wind_down_marks
  <2>4. QED
    BY <1>2, <2>1, <2>2, <2>3 DEF TypeOK, WorkType, wind_down_marks, radius, client, rows, network
<1>3. CASE exhausted_acts
  <2>1. work' \in [Job -> WorkType]
    BY <1>3, IdleType, LeavesType DEF exhausted_acts, Job
  <2>2. online' \subseteq Session /\ adopted' \subseteq Session /\ wire' \subseteq Packet
    <3>1. \E K \in SUBSET Session : Off(K)
      BY <1>3 DEF TypeOK, exhausted_acts
    <3>2. QED
      BY <3>1, OffType
  <2>3. row' \in [Session -> {"none", "open", "closed"}] /\ age' \in [Session -> Ages]
    <3>1. (\E K : Closed(K)) \/ UNCHANGED <<row, age>>
      BY <1>3 DEF exhausted_acts
    <3>2. QED
      BY <3>1, ClosedType DEF TypeOK
  <2>4. cookie' \in BOOLEAN
    BY <1>3 DEF TypeOK, exhausted_acts
  <2>5. QED
    BY <1>3, <2>1, <2>2, <2>3, <2>4 DEF TypeOK, WorkType, exhausted_acts, radius, service, events, network
<1>4. CASE reconcile_acts
  <2>1. work' \in [Job -> WorkType]
    BY <1>4, IdleType, LeavesType DEF reconcile_acts, Job
  <2>2. online' \subseteq Session /\ adopted' \subseteq Session /\ wire' \subseteq Packet
    <3>1. (\E K \in SUBSET Session : Off(K)) \/ UNCHANGED <<online, adopted, wire>>
      BY <1>4 DEF TypeOK, reconcile_acts
    <3>2. QED
      BY <3>1, OffType DEF TypeOK
  <2>3. row' \in [Session -> {"none", "open", "closed"}] /\ age' \in [Session -> Ages]
    <3>1. (\E K : Closed(K)) \/ UNCHANGED <<row, age>>
      BY <1>4 DEF reconcile_acts
    <3>2. QED
      BY <3>1, ClosedType DEF TypeOK
  <2>4. cookie' \in BOOLEAN
    BY <1>4 DEF TypeOK, reconcile_acts
  <2>5. QED
    BY <1>4, <2>1, <2>2, <2>3, <2>4 DEF TypeOK, WorkType, reconcile_acts, radius, service, events, network
<1>5. QED
  BY <1>1, <1>2, <1>3, <1>4, DisconnectsType DEF JobStep

LEMMA LoneJobsType ==
  ASSUME TypeOK
  PROVE  /\ exhausted_falls_back \/ session_watchdog => TypeOK'
         /\ \A j \in Job : crash(j) => TypeOK'
         /\ \A s \in Session : retry_failed_coa_event(s) => TypeOK'
<1>1. ASSUME exhausted_falls_back
      PROVE  TypeOK'
  <2>1. \E K \in SUBSET Session : Off(K)
    BY <1>1 DEF TypeOK, exhausted_falls_back, Outcomes
  <2>2. online' \subseteq Session /\ adopted' \subseteq Session /\ wire' \subseteq Packet
    BY <2>1, OffType
  <2>3. QED
    BY <1>1, <2>2 DEF TypeOK, exhausted_falls_back, radius, service, events, network
<1>2. ASSUME session_watchdog
      PROVE  TypeOK'
  <2>1. row' \in [Session -> {"none", "open", "closed"}] /\ age' \in [Session -> Ages]
    BY <1>2, ClosedType DEF session_watchdog
  <2>2. QED
    BY <1>2, <2>1 DEF TypeOK, session_watchdog, radius, service, client, events, network
<1>3. ASSUME NEW j \in Job, crash(j)
      PROVE  TypeOK'
  <2>1. work' \in [Job -> WorkType]
    BY <1>3, IdleType, LeavesType DEF crash
  <2>2. faults' \in 0 .. MaxFaults
    BY <1>3, VoucherAccessAssumption DEF VoucherAccessAssumption, TypeOK, crash
  <2>3. QED
    BY <1>3, <2>1, <2>2 DEF TypeOK, WorkType, crash, radius, service, client, rows, events
<1>4. ASSUME NEW s \in Session, retry_failed_coa_event(s)
      PROVE  TypeOK'
  <2>1. \E K \in SUBSET Session : Off(K)
    BY <1>4 DEF TypeOK, retry_failed_coa_event, Outcomes
  <2>2. online' \subseteq Session /\ adopted' \subseteq Session /\ wire' \subseteq Packet
    BY <2>1, OffType
  <2>3. event' \in [Session -> 0 .. MaxAttempts - 1]
    <3>1. event[s] + 1 \in Nat
      BY DEF TypeOK
    <3>2. AttemptsMade(event[s] + 1) \in 0 .. MaxAttempts - 1 /\ 0 \in 0 .. MaxAttempts - 1
      BY <3>1, AttemptsType, VoucherAccessAssumption DEF VoucherAccessAssumption
    <3>3. QED
      BY <1>4, <3>2 DEF TypeOK, retry_failed_coa_event
  <2>4. cookie' \in BOOLEAN /\ cooling' \subseteq Session
    BY <1>4 DEF TypeOK, retry_failed_coa_event
  <2>5. QED
    BY <1>4, <2>2, <2>3, <2>4 DEF TypeOK, retry_failed_coa_event, radius, service, network
<1>5. QED
  BY <1>1, <1>2, <1>3, <1>4

LEMMA TypeStep ==
  ASSUME TypeOK, [Next]_vars
  PROVE  TypeOK'
<1>1. CASE UNCHANGED vars
  BY <1>1 DEF TypeOK, vars, radius, service, client, rows, events, network
<1>2. QED
  BY <1>1, RouterType, TimeType, OwnersType, BeginsType, StepsType, LoneJobsType DEF Next, Jobs

\* Types, in every state.
THEOREM AccessTypes == Spec => []TypeOK
BY TypeInit, TypeStep, PTL DEF Spec

-----------------------------------------------------------------------------
(* No ended voucher is revived                                             *)

\* The status moves to unused or active only from unused, with the first
\* accounting packet, or by an operator.
LEMMA StatusMoves ==
  ASSUME [Next]_vars
  PROVE  \/ UNCHANGED status
         \/ status' \in {"ended", "disabled"}
         \/ status = "unused"
         \/ restore_voucher
<1>1. CASE UNCHANGED vars
  BY <1>1 DEF vars, radius
<1>2. CASE Router
  BY <1>2 DEF Router, authorize, accept_lost, cookie_expires, log_off, interim_update, log_in,
       accounting, start, stop, Activates, packet_lost, router_lost, router_returns, radius
<1>3. CASE Time \/ Owners
  BY <1>3 DEF Time, Owners, runs_out, row_ages, two_minutes_pass, service_ends, restore_operator, radius
<1>4. CASE Jobs
  BY <1>4 DEF Jobs, JobStep, expire_selects, disable_voucher, end_hotspot_service, exhausted_lists,
       exhausted_falls_back, reconcile_lists, expire_ends, disconnects, wind_down_marks, exhausted_acts,
       reconcile_acts, crash, retry_failed_coa_event, session_watchdog, radius
<1>5. QED
  BY <1>1, <1>2, <1>3, <1>4 DEF Next

\* An ended voucher gives no access again; a disabled one only when an operator
\* restores it.
THEOREM EndedStaysEnded == Spec => NotRevived
<1>1. ASSUME [Next]_vars
      PROVE  [(status \in {"ended", "disabled"} /\ status' \in {"unused", "active"}) => restore_voucher]_vars
  BY <1>1, StatusMoves
<1>2. QED
  BY <1>1, PTL DEF Spec, NotRevived

-----------------------------------------------------------------------------
(* The mark of the wind-down                                               *)

LEMMA MarkStep ==
  ASSUME MarkIsOfThisEnd, [Next]_vars
  PROVE  MarkIsOfThisEnd'
<1>1. CASE UNCHANGED <<ended, cut_off>>
  BY <1>1 DEF MarkIsOfThisEnd, hotspot_service_ended
<1>2. CASE service_ends \/ restore_operator
  BY <1>2 DEF MarkIsOfThisEnd, hotspot_service_ended, service_ends, restore_operator
<1>3. CASE wind_down_marks
  BY <1>3 DEF MarkIsOfThisEnd, hotspot_service_ended, wind_down_marks, StillDue
<1>4. UNCHANGED <<ended, cut_off>> \/ service_ends \/ restore_operator \/ wind_down_marks
  <2>1. CASE UNCHANGED vars
    BY <2>1 DEF vars, service
  <2>2. CASE Router \/ Time
    BY <2>2 DEF Router, Time, authorize, accept_lost, cookie_expires, log_off, interim_update, log_in,
         accounting, packet_lost, router_lost, router_returns, runs_out, row_ages, two_minutes_pass, service
  <2>3. CASE Owners
    BY <2>3 DEF Owners, restore_voucher, service
  <2>4. CASE Jobs
    BY <2>4 DEF Jobs, JobStep, expire_selects, disable_voucher, end_hotspot_service, exhausted_lists,
         exhausted_falls_back, reconcile_lists, expire_ends, disconnects, exhausted_acts,
         reconcile_acts, crash, retry_failed_coa_event, session_watchdog, service
  <2>5. QED
    BY <2>1, <2>2, <2>3, <2>4 DEF Next
<1>5. QED
  BY <1>1, <1>2, <1>3, <1>4

\* The mark never stands on an operator that is served or has an end to come.
THEOREM MarkMeansEnded == Spec => []MarkIsOfThisEnd
<1>1. Init => MarkIsOfThisEnd
  BY DEF Init, MarkIsOfThisEnd
<1>2. QED
  BY <1>1, MarkStep, PTL DEF Spec

-----------------------------------------------------------------------------
(* The reconciliation keeps the row of a client who has just come          *)

Fresh == online \ adopted

\* While a reconciliation that saw an empty router is in flight, whoever is on
\* the air under a row of his own came since, and his row is still young.
FreshRowsYoung ==
  work["reconcile"].step = "act" /\ work["reconcile"].seen = {} =>
    \A s \in Fresh : row[s] = "open" => age[s] = "young"

\* The steps that bring nobody in and make no row older leave that so.
Quiet ==
  /\ Fresh' \subseteq Fresh
  /\ \A s \in Fresh' : row'[s] = "open" => row[s] = "open" /\ age'[s] = age[s]
  /\ work'["reconcile"] = work["reconcile"] \/ work'["reconcile"].step = "idle"

LEMMA QuietKeeps ==
  ASSUME FreshRowsYoung, Quiet
  PROVE  FreshRowsYoung'
BY DEF FreshRowsYoung, Quiet

LEMMA OffQuiet ==
  ASSUME NEW K, Off(K)
  PROVE  Fresh' \subseteq Fresh
BY DEF Off, Fresh

LEMMA ClosedQuiet ==
  ASSUME TypeOK, NEW K, Closed(K)
  PROVE  \A s \in Session : row'[s] = "open" => row[s] = "open" /\ age'[s] = age[s]
BY DEF TypeOK, Closed

LEMMA WorkQuiet ==
  ASSUME TypeOK, NEW j \in Job, NEW w, Leaves(j, w) \/ Begin(j, w), j # "reconcile" \/ w = Idle
  PROVE  work'["reconcile"] = work["reconcile"] \/ work'["reconcile"].step = "idle"
BY DEF TypeOK, Leaves, Begin, Job, Idle

LEMMA RouterFresh ==
  ASSUME TypeOK, FreshRowsYoung, Router
  PROVE  FreshRowsYoung'
<1>1. CASE authorize \/ accept_lost \/ cookie_expires \/ router_lost \/ router_returns
           \/ \E m \in Packet : packet_lost(m)
  BY <1>1 DEF FreshRowsYoung, Fresh, authorize, accept_lost, cookie_expires, router_lost, router_returns,
       packet_lost, rows, client
<1>2. ASSUME NEW s \in Session, log_off(s)
      PROVE  FreshRowsYoung'
  BY <1>2, QuietKeeps, OffQuiet DEF Quiet, log_off
<1>3. ASSUME NEW s \in Session, interim_update(s)
      PROVE  FreshRowsYoung'
  BY <1>3 DEF TypeOK, FreshRowsYoung, Fresh, interim_update, Open, client
<1>4. ASSUME NEW s \in Session, NEW by_cookie \in BOOLEAN, log_in(s, by_cookie)
      PROVE  FreshRowsYoung'
  BY <1>4 DEF FreshRowsYoung, Fresh, log_in
<1>5. ASSUME NEW s \in Session, NEW again \in BOOLEAN, accounting(s, again)
      PROVE  FreshRowsYoung'
  <2>1. UNCHANGED <<online, adopted, work>>
    BY <1>5 DEF accounting, start, stop, client
  <2>2. CASE start(s)
    BY <2>1, <2>2 DEF TypeOK, FreshRowsYoung, Fresh, start
  <2>3. CASE stop(s)
    BY <2>1, <2>3, ClosedQuiet, QuietKeeps DEF TypeOK, Quiet, Fresh, stop
  <2>4. QED
    BY <1>5, <2>2, <2>3 DEF accounting
<1>6. QED
  BY <1>1, <1>2, <1>3, <1>4, <1>5 DEF Router

LEMMA JobsFresh ==
  ASSUME TypeOK, FreshRowsYoung, Jobs
  PROVE  FreshRowsYoung'
<1>1. CASE expire_selects \/ disable_voucher \/ end_hotspot_service \/ exhausted_lists
  <2>1. UNCHANGED <<online, adopted, row, age>>
    BY <1>1 DEF expire_selects, disable_voucher, end_hotspot_service, exhausted_lists, client, rows
  <2>2. \E j \in Job \ {"reconcile"} : \E w : Begin(j, w)
    BY <1>1 DEF expire_selects, disable_voucher, end_hotspot_service, exhausted_lists, Job
  <2>3. QED
    BY <2>1, <2>2, WorkQuiet, QuietKeeps DEF Quiet, Fresh
<1>2. CASE reconcile_lists
  BY <1>2 DEF TypeOK, FreshRowsYoung, Fresh, reconcile_lists, Begin, Job, Idle, client, rows
<1>3. CASE exhausted_falls_back
  BY <1>3, OffQuiet, QuietKeeps DEF Quiet, exhausted_falls_back
<1>4. CASE session_watchdog
  BY <1>4, ClosedQuiet, QuietKeeps DEF TypeOK, Quiet, Fresh, session_watchdog, client
<1>5. ASSUME NEW s \in Session, retry_failed_coa_event(s)
      PROVE  FreshRowsYoung'
  BY <1>5, OffQuiet, QuietKeeps DEF Quiet, retry_failed_coa_event
<1>6. ASSUME NEW j \in Job, crash(j)
      PROVE  FreshRowsYoung'
  BY <1>6, WorkQuiet, QuietKeeps DEF Quiet, Fresh, crash, client, rows
<1>7. CASE expire_ends \/ wind_down_marks
  <2>1. UNCHANGED <<online, adopted, row, age>>
    BY <1>7 DEF expire_ends, wind_down_marks, client, rows
  <2>2. \E j \in Job \ {"reconcile"} : \E w : Leaves(j, w)
    BY <1>7 DEF expire_ends, wind_down_marks, Job
  <2>3. QED
    BY <2>1, <2>2, WorkQuiet, QuietKeeps DEF Quiet, Fresh
<1>8. ASSUME NEW j \in Job, disconnects(j)
      PROVE  FreshRowsYoung'
  <2>1. UNCHANGED <<row, age>> /\ \E K : Off(K)
    BY <1>8 DEF disconnects
  <2>2. \E w : Leaves(j, w) /\ (j # "reconcile" \/ w = Idle)
    BY <1>8 DEF disconnects
  <2>3. QED
    BY <2>1, <2>2, OffQuiet, WorkQuiet, QuietKeeps DEF Quiet
<1>9. CASE exhausted_acts
  <2>1. /\ \E K : Off(K)
        /\ UNCHANGED <<row, age>> \/ \E K : Closed(K)
        /\ Leaves("exhausted", Idle)
    BY <1>9 DEF exhausted_acts
  <2>2. Fresh' \subseteq Session
    BY <2>1, OffQuiet DEF Fresh, TypeOK
  <2>3. QED
    BY <2>1, <2>2, OffQuiet, ClosedQuiet, WorkQuiet, QuietKeeps DEF Quiet, Job
<1>10. CASE reconcile_acts
  BY <1>10 DEF TypeOK, FreshRowsYoung, reconcile_acts, Leaves, Job, Idle
<1>11. QED
  BY <1>1, <1>2, <1>3, <1>4, <1>5, <1>6, <1>7, <1>8, <1>9, <1>10 DEF Jobs, JobStep

LEMMA FreshStep ==
  ASSUME TypeOK, FreshRowsYoung, [Next]_vars
  PROVE  FreshRowsYoung'
<1>1. CASE UNCHANGED vars
  BY <1>1 DEF FreshRowsYoung, Fresh, vars, client, rows
<1>2. CASE Owners
  BY <1>2 DEF FreshRowsYoung, Fresh, Owners, restore_voucher, service_ends, restore_operator, client, rows
<1>3. ASSUME NEW s \in Session, row_ages(s)
      PROVE  FreshRowsYoung'
  BY <1>3 DEF TypeOK, FreshRowsYoung, Fresh, row_ages, Open, client
<1>4. CASE \/ \E what \in {"time", "data"} : runs_out(what)
           \/ \E s \in Session : two_minutes_pass(s)
  BY <1>4 DEF FreshRowsYoung, Fresh, runs_out, two_minutes_pass, client, rows
<1>5. QED
  BY <1>1, <1>2, <1>3, <1>4, RouterFresh, JobsFresh DEF Next, Time

\* A reconciliation does not close the row of a client who came after it read
\* the router.
THEOREM ReconcileKeepsLiveRows == Spec => LiveRowKept
<1>1. Init => FreshRowsYoung
  BY DEF Init, FreshRowsYoung, Idle, Job
<1>2. ASSUME TypeOK, FreshRowsYoung
      PROVE  [reconcile_acts => \A s \in online' \ adopted : row[s] = "open" => row'[s] = "open"]_vars
  <2>1. SUFFICES ASSUME reconcile_acts, NEW s \in online' \ adopted, row[s] = "open"
                 PROVE  row'[s] = "open"
    OBVIOUS
  <2>2. s \in Fresh /\ s \in Session
    <3>1. (\E K : Off(K)) \/ UNCHANGED online
      BY <2>1 DEF reconcile_acts
    <3>2. online' \subseteq online
      BY <3>1 DEF Off
    <3>3. QED
      BY <1>2, <2>1, <3>2 DEF Fresh, TypeOK
  <2>3. work["reconcile"].seen = {} => age[s] = "young"
    BY <1>2, <2>1, <2>2 DEF FreshRowsYoung, reconcile_acts
  <2>4. s \notin plan_reconciliation.phantom_session
    BY <2>3 DEF plan_reconciliation, PastGrace
  <2>5. QED
    BY <2>1, <2>2, <2>4 DEF reconcile_acts, Closed
<1>3. QED
  BY <1>1, <1>2, TypeInit, TypeStep, FreshStep, PTL DEF Spec, LiveRowKept

-----------------------------------------------------------------------------
(* Every step is one the promise allows                                    *)

Kept == [Promise!Next]_(Promise!vars)

\* A step that leaves the clients alone changes at most who is allowed.
LEMMA ClientsAlone ==
  ASSUME UNCHANGED client
  PROVE  Kept
<1>1. (authorize_check \/ ~api)' \in BOOLEAN
  BY DEF authorize_check
<1>2. UNCHANGED <<online # {}, cookie \/ granted>>
  BY DEF client
<1>3. Promise!Change
  BY <1>1, <1>2 DEF Promise!Change
<1>4. QED
  BY <1>3 DEF Kept, Promise!Next

\* One that puts clients out, or shuts the door.
LEMMA ClientsLeave ==
  ASSUME TypeOK, UNCHANGED <<radius, service, network>>,
         (\E K : Off(K)) \/ UNCHANGED online,
         cookie' \in {cookie, FALSE}, granted' \in {granted, FALSE}
  PROVE  Kept
<1>1. UNCHANGED (authorize_check \/ ~api)
  BY DEF authorize_check, hotspot_service_ended, radius, service, network
<1>2. (online # {})' \in {online # {}, FALSE}
  <2>1. online' \subseteq online
    BY DEF Off
  <2>2. CASE online' = {}
    BY <2>2
  <2>3. CASE online' # {}
    BY <2>1, <2>3
  <2>4. QED
    BY <2>2, <2>3
<1>3. (cookie \/ granted)' \in {cookie \/ granted, FALSE}
  <2>1. CASE (cookie \/ granted)' = FALSE
    BY <2>1
  <2>2. CASE (cookie \/ granted)' = TRUE
    BY <2>2 DEF TypeOK
  <2>3. QED
    BY <2>1, <2>2 DEF TypeOK
<1>4. Promise!Leave
  BY <1>1, <1>2, <1>3 DEF Promise!Leave
<1>5. QED
  BY <1>4 DEF Kept, Promise!Next

\* RADIUS opens the door only to a voucher that is good, and a client comes in
\* only by a door that is open.
LEMMA DoorOpens ==
  ASSUME authorize
  PROVE  Kept
<1>1. authorize_check \/ ~api
  BY DEF authorize
<1>2. (cookie \/ granted)' = TRUE /\ UNCHANGED <<authorize_check \/ ~api, online # {}>>
  BY DEF authorize, authorize_check, hotspot_service_ended, radius, service, network
<1>3. Promise!Accept
  BY <1>1, <1>2 DEF Promise!Accept
<1>4. QED
  BY <1>3 DEF Kept, Promise!Next

LEMMA ClientEnters ==
  ASSUME TypeOK, NEW s \in Session, NEW by_cookie \in BOOLEAN, log_in(s, by_cookie)
  PROVE  Kept
<1>1. cookie \/ granted
  BY DEF log_in
<1>2. (online # {})' = TRUE
  BY DEF log_in
<1>3. (cookie \/ granted)' \in BOOLEAN /\ UNCHANGED (authorize_check \/ ~api)
  BY DEF log_in, authorize_check, hotspot_service_ended, radius, service, network
<1>4. Promise!Enter
  BY <1>1, <1>2, <1>3 DEF Promise!Enter
<1>5. QED
  BY <1>4 DEF Kept, Promise!Next

LEMMA RouterPromise ==
  ASSUME TypeOK, Router
  PROVE  Kept
<1>1. CASE accept_lost \/ cookie_expires
  BY <1>1, ClientsLeave DEF accept_lost, cookie_expires
<1>2. ASSUME NEW s \in Session, log_off(s)
      PROVE  Kept
  BY <1>2, ClientsLeave DEF log_off
<1>3. CASE \/ \E s \in Session, again \in BOOLEAN : accounting(s, again)
           \/ \E s \in Session : interim_update(s)
           \/ \E m \in Packet : packet_lost(m)
           \/ router_lost \/ router_returns
  BY <1>3, ClientsAlone DEF accounting, interim_update, packet_lost, router_lost, router_returns
<1>4. QED
  BY <1>1, <1>2, <1>3, DoorOpens, ClientEnters DEF Router

LEMMA JobsPromise ==
  ASSUME TypeOK, Jobs
  PROVE  Kept
<1>1. CASE \/ expire_selects \/ disable_voucher \/ end_hotspot_service \/ exhausted_lists
           \/ reconcile_lists \/ expire_ends \/ wind_down_marks \/ session_watchdog
           \/ \E j \in Job : crash(j)
  BY <1>1, ClientsAlone DEF expire_selects, disable_voucher, end_hotspot_service, exhausted_lists,
       reconcile_lists, expire_ends, wind_down_marks, session_watchdog, crash
<1>2. ASSUME NEW j \in Job, disconnects(j)
      PROVE  Kept
  <2>1. cookie' \in {cookie, FALSE}
    BY <1>2 DEF disconnects, TypeOK
  <2>2. (\E K : Off(K)) /\ UNCHANGED <<radius, service, network, granted>>
    BY <1>2 DEF disconnects
  <2>3. QED
    BY <2>1, <2>2, ClientsLeave
<1>3. ASSUME NEW s \in Session, retry_failed_coa_event(s)
      PROVE  Kept
  <2>1. cookie' \in {cookie, FALSE}
    BY <1>3 DEF retry_failed_coa_event, TypeOK
  <2>2. QED
    BY <1>3, <2>1, ClientsLeave DEF retry_failed_coa_event
<1>4. CASE exhausted_acts
  <2>1. cookie' \in {cookie, FALSE}
    BY <1>4 DEF exhausted_acts, TypeOK
  <2>2. (\E K : Off(K)) /\ UNCHANGED <<radius, service, network, granted>>
    BY <1>4 DEF exhausted_acts
  <2>3. QED
    BY <2>1, <2>2, ClientsLeave
<1>5. CASE exhausted_falls_back
  BY <1>5, ClientsLeave DEF exhausted_falls_back
<1>6. CASE reconcile_acts
  <2>1. cookie' \in {cookie, FALSE}
    BY <1>6 DEF reconcile_acts, TypeOK
  <2>2. (\E K : Off(K)) \/ UNCHANGED online
    BY <1>6 DEF reconcile_acts
  <2>3. QED
    BY <1>6, <2>1, <2>2, ClientsLeave DEF reconcile_acts
<1>7. QED
  BY <1>1, <1>2, <1>3, <1>4, <1>5, <1>6 DEF Jobs, JobStep

\* The initial states and the steps of VoucherAccess are those of its promise:
\* KeepsPromise but for the fairness.
THEOREM StepsKeepPromise == Spec => Promise!Init /\ [][Promise!Next]_(Promise!vars)
<1>1. Init => Promise!Init
  BY DEF Init, Promise!Init, authorize_check, hotspot_service_ended
<1>2. ASSUME TypeOK, [Next]_vars
      PROVE  Kept
  <2>1. CASE UNCHANGED vars
    BY <2>1, ClientsAlone DEF vars
  <2>2. CASE Time \/ Owners
    BY <2>2, ClientsAlone DEF Time, Owners, runs_out, row_ages, two_minutes_pass, restore_voucher,
         service_ends, restore_operator
  <2>3. QED
    BY <1>2, <2>1, <2>2, RouterPromise, JobsPromise DEF Next
<1>3. QED
  BY <1>1, <1>2, TypeInit, TypeStep, PTL DEF Spec, Kept
=============================================================================
