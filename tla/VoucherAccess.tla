--------------------------- MODULE VoucherAccess ---------------------------
(***************************************************************************)
(* Access to the hotspot with one voucher, on one router: what the router  *)
(* does (logins, cookies, accounting packets that may be lost, repeated or *)
(* late), what RADIUS and the database know of it, and everything that     *)
(* ends it: the expiry job, an operator's disable, the wind-down of a      *)
(* cancelled operator, the retries of a disconnect that failed, the check  *)
(* of ended vouchers' sessions, the reconciliation with the router and the *)
(* watchdog over session rows.                                             *)
(***************************************************************************)
EXTENDS Naturals, FiniteSets

CONSTANTS Session,         \* Acct-Session-Ids of the router; they come round again
          MaxBusy,         \* bound: jobs in flight at once
          MaxFaults,       \* bound: times the router goes away, or a worker dies
          MaxAttempts      \* of a disconnect event

ASSUME VoucherAccessAssumption ==
  /\ MaxBusy \in Nat /\ MaxFaults \in Nat
  /\ MaxAttempts \in Nat \ {0}

\* The handlers with more than one step.  The locks of the first two, and the
\* schedule of the others, allow one run of each at a time.
Job == {"expire", "wind_down", "exhausted", "reconcile", "disable"}

VARIABLES
  status,    \* vouchers.status, expired and exhausted together as "ended"
  spent,     \* whether the voucher was ever activated, and what ran out
  ended,     \* isp_operators.hotspot_service_ends_at is in the past
  cut_off,   \* isp_operators.hotspot_service_cut_off_at is set
  online,    \* the router's active list: its sessions of this voucher
  cookie,    \* the router holds a login cookie of a client
  granted,   \* an Access-Accept is on its way to the router
  wire,      \* accounting packets on their way
  row,       \* sessions: no row, an open one, a closed one
  age,       \* of a row that is open, in the steps the jobs tell apart
  adopted,   \* sessions that are online under a row of an earlier login
  event,     \* for each row, the attempts of a failed disconnect not given up
  cooling,   \* those whose last attempt is less than two minutes ago
  up,        \* the router answers over its tunnel
  faults,
  trouble,   \* what may go wrong: the packets, or the router and the workers
  api,       \* the platform holds the router's API credentials
  moved,     \* that was written again since the wind-down run in flight began
  work       \* what each job holds

radius == <<status, spent>>
service == <<ended, cut_off, moved>>
client == <<online, cookie, granted>>
rows == <<row, age, adopted>>
events == <<event, cooling>>
network == <<up, faults, trouble, api>>
vars == <<radius, service, client, wire, rows, events, network, work>>

Idle == [step |-> "idle",
         rows |-> {},      \* session rows in hand; in the end, those not disconnected
         seen |-> {},      \* the active list the router gave
         door |-> FALSE]   \* whether it named nobody, and there was a cookie
Steps == {"idle", "end", "disconnect", "mark", "act"}

\* Ages of an open row: since Start (young: 5 min), since it was heard of
\* (stale: 30 min), since Start again (ancient: 25 h).
Ages == {"young", "settled", "stale", "ancient"}

\* Bound: a behaviour meets one kind of fault.
Troubles == {"packets", "router"}

Packet == [type : {"start", "stop"}, id : Session]

TypeOK ==
  /\ status \in {"unused", "active", "ended", "disabled"}
  /\ spent \in {"unstarted", "no", "time", "data"}
  /\ ended \in BOOLEAN
  /\ cut_off \in BOOLEAN /\ moved \in BOOLEAN
  /\ online \subseteq Session
  /\ cookie \in BOOLEAN /\ granted \in BOOLEAN
  /\ wire \subseteq Packet
  /\ row \in [Session -> {"none", "open", "closed"}]
  /\ age \in [Session -> Ages]
  /\ adopted \subseteq Session
  /\ event \in [Session -> 0 .. MaxAttempts - 1]
  /\ cooling \subseteq Session
  /\ up \in BOOLEAN /\ faults \in 0 .. MaxFaults
  /\ trouble \in Troubles /\ api \in BOOLEAN
  /\ work \in [Job -> [step : Steps, rows : SUBSET Session,
                       seen : SUBSET Session, door : BOOLEAN]]

Init ==
  /\ status = "unused" /\ spent = "unstarted"
  /\ ended = FALSE /\ cut_off = FALSE /\ moved = FALSE
  /\ online = {} /\ cookie = FALSE /\ granted = FALSE
  /\ wire = {}
  /\ row = [s \in Session |-> "none"]
  /\ age = [s \in Session |-> "young"]
  /\ adopted = {}
  /\ event = [s \in Session |-> 0]
  /\ cooling = {}
  /\ up = TRUE /\ faults = 0 /\ trouble \in Troubles
  /\ api \in {TRUE, trouble = "router"}
  /\ work = [j \in Job |-> Idle]

-----------------------------------------------------------------------------
(* What the code asks of the rows.                                          *)

hotspot_service_ended == ended

\* The test of every login: RADIUS's own query.
authorize_check ==
  /\ status \in {"unused", "active"}
  /\ spent \in {"unstarted", "no"}
  /\ ~hotspot_service_ended

\* The reconciliation's: it does not look at the data used.
voucher_is_valid_whatever_the_operator ==   \* mutant: vouchers judged on their own
  status \in {"unused", "active"} /\ spent # "time"
voucher_is_valid ==
  /\ ~hotspot_service_ended
  /\ status \in {"unused", "active"}
  /\ spent # "time"

Open == {s \in Session : row[s] = "open"}

\* ... ORDER BY started_at DESC LIMIT 1
LatestOpen ==
  IF Open = {} THEN {{}}
  ELSE {{s} : s \in {r \in Open : age[r] = "young" \/ \A t \in Open : age[t] # "young"}}

\* Bound: one reason to end access at a time, the voucher's or the operator's.
VoucherGood == status \in {"unused", "active"} /\ spent \in {"unstarted", "no"}
OperatorGood == ~ended

Busy == {j \in Job : work[j].step # "idle"}

Begin(j, w) ==
  /\ work[j].step = "idle"
  /\ Cardinality(Busy) < MaxBusy
  /\ work' = [work EXCEPT ![j] = w]

Leaves(j, w) == work' = [work EXCEPT ![j] = w]

\* Sessions that go off the air send a Stop.
Off(K) ==
  /\ online' = online \ K
  /\ adopted' = adopted \ K
  /\ wire' = wire \cup {[type |-> "stop", id |-> s] : s \in K}

\* A row is closed: its age matters no more.
Closed(K) ==
  /\ row' = [s \in Session |-> IF s \in K THEN "closed" ELSE row[s]]
  /\ age' = [s \in Session |-> IF s \in K THEN "young" ELSE age[s]]

-----------------------------------------------------------------------------
(* The router and its clients.                                              *)

\* RADIUS accepts; the answer takes its time.
authorize ==
  /\ up /\ ~granted /\ online # Session
  /\ authorize_check
  /\ granted' = TRUE
  /\ UNCHANGED <<radius, service, online, cookie, wire, rows, events, network, work>>

accept_lost ==
  /\ granted
  /\ granted' = FALSE
  /\ UNCHANGED <<radius, service, online, cookie, wire, rows, events, network, work>>

\* A client is let in, with an accept or with its cookie.  An id comes round
\* again long after; unless packets were lost, its row is closed by then.
ComesRound(s) == row[s] # "open" /\ \A m \in wire : m.id # s

log_in(s, by_cookie) ==
  /\ s \notin online
  /\ ComesRound(s) \/ trouble = "packets"
  /\ IF by_cookie THEN cookie ELSE granted
  /\ online' = online \cup {s}
  /\ cookie' = TRUE
  /\ granted' = (granted /\ by_cookie)
  /\ wire' = wire \cup {[type |-> "start", id |-> s]}
  /\ adopted' = IF row[s] = "open" THEN adopted \cup {s} ELSE adopted
  /\ UNCHANGED <<radius, service, row, age, events, network, work>>

log_off(s) ==
  /\ s \in online
  /\ Off({s})
  /\ UNCHANGED <<radius, service, cookie, granted, row, age, events, network, work>>

cookie_expires ==
  /\ cookie
  /\ cookie' = FALSE
  /\ UNCHANGED <<radius, service, online, granted, wire, rows, events, network, work>>

router_lost ==
  /\ up /\ trouble = "router" /\ faults < MaxFaults
  /\ up' = FALSE /\ faults' = faults + 1
  /\ UNCHANGED <<trouble, api, radius, service, client, wire, rows, events, work>>

router_returns ==
  /\ ~up
  /\ up' = TRUE
  /\ UNCHANGED <<radius, service, client, wire, rows, events, faults, trouble, api, work>>

-----------------------------------------------------------------------------
(* Accounting, as FreeRADIUS's queries write it.                            *)

\* The row is inserted unless the id has one; the voucher is activated only
\* with a row that landed, and only when it is unused.
ActivatesAnything == TRUE   \* mutant: the UPDATE does not test the status
Activates == status = "unused"

start(s) ==
  /\ [type |-> "start", id |-> s] \in wire
  /\ IF row[s] # "none" THEN UNCHANGED <<row, age, status, spent>>
     ELSE /\ row' = [row EXCEPT ![s] = "open"]
          /\ age' = [age EXCEPT ![s] = "young"]
          /\ status' = IF Activates THEN "active" ELSE status
          /\ spent' = IF Activates /\ spent = "unstarted" THEN "no" ELSE spent
  /\ UNCHANGED <<adopted>>

stop(s) ==
  /\ [type |-> "stop", id |-> s] \in wire
  /\ Closed({s} \cap {t \in Session : row[t] # "none"})
  /\ UNCHANGED <<status, spent, adopted>>

\* A packet arrives; the router may have sent it twice, and a Stop may overtake
\* its Start.
InOrder(s) == [type |-> "start", id |-> s] \notin wire

accounting(s, again) ==
  /\ up
  /\ again => trouble = "packets"
  /\ \/ start(s) /\ wire' = IF again THEN wire ELSE wire \ {[type |-> "start", id |-> s]}
     \/ (InOrder(s) \/ trouble = "packets") /\ stop(s) /\ wire' = IF again THEN wire ELSE wire \ {[type |-> "stop", id |-> s]}
  /\ UNCHANGED <<service, client, events, network, work>>

packet_lost(m) ==
  /\ m \in wire /\ trouble = "packets"
  /\ wire' = wire \ {m}
  /\ UNCHANGED <<radius, service, client, rows, events, network, work>>

interim_update(s) ==
  /\ up /\ s \in online /\ s \in Open
  /\ age[s] = "stale"
  /\ age' = [age EXCEPT ![s] = "settled"]
  /\ UNCHANGED <<radius, service, client, wire, row, adopted, events, network, work>>

\* Time goes by.  A run of the reconciliation ends within the five minutes arq
\* gives a job, so no row that is young at its start passes them during it.
Older == [young |-> "settled", settled |-> "stale", stale |-> "ancient"]

row_ages(s) ==
  /\ s \in Open /\ age[s] # "ancient"
  /\ age[s] = "settled" => s \notin online \/ ~up \/ trouble = "packets"
  /\ age[s] = "young" => work["reconcile"].step = "idle"
  /\ age' = [age EXCEPT ![s] = Older[@]]
  /\ UNCHANGED <<radius, service, client, wire, row, adopted, events, network, work>>

\* The plan's time or, by the usage of its sessions, its data runs out.
runs_out(what) ==
  /\ spent = "no" /\ OperatorGood
  /\ spent' = what
  /\ UNCHANGED <<status, service, client, wire, rows, events, network, work>>

-----------------------------------------------------------------------------
(* Ending a voucher: the expiry job and an operator's disable.              *)

\* Calls to the router's API may fail; when it is away, or without credentials,
\* they do.
Answers == {api /\ up} \cup (IF trouble = "router" THEN {FALSE} ELSE {})

\* Disconnects are sent for the sessions of these rows: some of the clients of
\* that name and address are put out, and only an ACK counts as sent.
Outcomes(K) ==
  {o \in [kicked : SUBSET online, sent : SUBSET K] :
     /\ Cardinality(o.kicked) <= Cardinality(K)
     /\ o.kicked # {} => up
     /\ o.sent # {} => o.kicked # {}
     /\ trouble = "packets" /\ online # {} => o.kicked # {} \/ K = {}}

\* An event that has failed MaxAttempts times is given up.
AttemptsUncounted(n) == 1   \* mutant: a retry does not count itself
AttemptsUnlimited(n) == n   \* mutant: an event is never given up
AttemptsMade(n) == IF n >= MaxAttempts THEN 0 ELSE n

CommitsEvents(K) ==
  /\ event' = [s \in Session |-> IF s \in K THEN AttemptsMade(1) ELSE event[s]]
  /\ cooling' = cooling \cup {s \in K : AttemptsMade(1) > 0}

\* expire_vouchers loads the vouchers that are due once, at its start ...
expire_selects ==
  /\ status = "active" /\ spent \in {"time", "data"}
  /\ Begin("expire", [Idle EXCEPT !.step = "end"])
  /\ UNCHANGED <<radius, service, client, wire, rows, events, network>>

\* ... and ends each from the row it loaded, whatever has become of it.
expire_ends ==
  /\ work["expire"].step = "end"
  /\ status' = "ended"
  /\ \E r \in LatestOpen :
       Leaves("expire", [work["expire"] EXCEPT !.step = "disconnect", !.rows = r])
  /\ UNCHANGED <<spent, service, client, wire, rows, events, network>>

\* The status is committed before anybody is disconnected.
disable_voucher ==
  /\ status \in {"unused", "active", "ended"} /\ OperatorGood
  /\ status' = "disabled"
  /\ \E r \in LatestOpen :
       Begin("disable", [Idle EXCEPT !.step = "disconnect", !.rows = r])
  /\ UNCHANGED <<spent, service, client, wire, rows, events, network>>

restore_voucher ==
  /\ status = "disabled"
  /\ status' = CASE spent = "unstarted" -> "unused"
                 [] spent = "no" -> "active"
                 [] OTHER -> "ended"
  /\ UNCHANGED <<spent, service, client, wire, rows, events, network, work>>

\* send_disconnect_with_event for each row in hand, and the router's cookies;
\* then revoke_voucher_access: whoever is still on a router the voucher has a
\* row on, and the cookies again.  The events are committed last.
\* Bound: one event that is still retried for each row.
disconnects(j) ==
  /\ work[j].step = "disconnect"
  /\ \A s \in work[j].rows : event[s] = 0
  /\ \E o \in Outcomes(work[j].rows), cleared, done \in Answers :
       LET reached == done /\ \E s \in Session : row[s] # "none"
           failed == work[j].rows \ o.sent
       IN /\ Off(IF reached THEN online ELSE o.kicked)
          /\ cookie' = (cookie /\ ~reached /\ ~(cleared /\ work[j].rows # {}))
          /\ IF j = "wind_down"
             THEN Leaves(j, [work[j] EXCEPT !.step = "mark", !.rows = failed]) /\ UNCHANGED events
             ELSE Leaves(j, Idle) /\ CommitsEvents(failed)
  /\ UNCHANGED <<radius, service, granted, row, age, network>>

\* coa_retry, for one event.  It asks nothing about the voucher.
retry_failed_coa_event(s) ==
  /\ event[s] > 0 /\ s \notin cooling
  /\ \E o \in Outcomes({s}), cleared \in Answers :
       /\ Off(o.kicked)
       /\ cookie' = (cookie /\ ~cleared)
       /\ event' = [event EXCEPT ![s] = IF o.sent = {s} THEN 0 ELSE AttemptsMade(@ + 1)]
       /\ cooling' = IF event'[s] > 0 THEN cooling \cup {s} ELSE cooling
  /\ UNCHANGED <<radius, service, granted, row, age, network, work>>

two_minutes_pass(s) ==
  /\ s \in cooling
  /\ cooling' = cooling \ {s}
  /\ UNCHANGED <<radius, service, client, wire, rows, event, network, work>>

-----------------------------------------------------------------------------
(* The wind-down of a cancelled operator.                                   *)

\* A write of ends_at while a wind-down run is in flight.
Moves == moved' = (work["wind_down"].step # "idle")

\* The end of a cancelled operator's wind-down is now in the past: it lasted its
\* days, or none at all, or end_hotspot_service_now brought it forward.  Until
\* then, and when it is not cancelled, nothing below looks at the operator.
service_ends ==
  /\ ~ended /\ VoucherGood
  /\ ended' = TRUE
  /\ Moves
  /\ UNCHANGED <<cut_off, radius, client, wire, rows, events, network, work>>

restore_operator ==
  /\ ended
  /\ ended' = FALSE /\ cut_off' = FALSE
  /\ Moves
  /\ UNCHANGED <<radius, client, wire, rows, events, network, work>>

end_hotspot_service ==
  /\ hotspot_service_ended /\ ~cut_off
  /\ moved' = FALSE
  /\ Begin("wind_down", [Idle EXCEPT !.step = IF Open = {} THEN "mark" ELSE "disconnect", !.rows = Open])
  /\ UNCHANGED <<ended, cut_off, radius, client, wire, rows, events, network>>

\* The conditional UPDATE, against the clock the run started with.
DueNever == FALSE   \* mutant: the mark is compared with the wrong clock
DueOnce == TRUE   \* mutant: the operator is marked by its id alone
StillDue == hotspot_service_ended /\ ~moved /\ ~cut_off

wind_down_marks ==
  /\ work["wind_down"].step = "mark"
  /\ cut_off' = (cut_off \/ StillDue)
  /\ moved' = FALSE
  /\ CommitsEvents(work["wind_down"].rows)
  /\ Leaves("wind_down", Idle)
  /\ UNCHANGED <<ended, radius, client, wire, rows, network>>

-----------------------------------------------------------------------------
(* The jobs that look after sessions.                                       *)

\* check_exhausted_sessions: open rows of an ended voucher that no disconnect
\* is working on, and the router's active list ...
exhausted_lists ==
  /\ status = "ended" /\ Open # {} /\ up /\ api
  /\ cooling = {}
  /\ Begin("exhausted", [Idle EXCEPT !.step = "act", !.rows = Open, !.seen = online])
  /\ UNCHANGED <<radius, service, client, wire, rows, events, network>>

\* ... and either the rows of a name that is not on it are closed, or the entry
\* that is gets removed and its row closed; a removal that fails leaves both.
exhausted_acts ==
  /\ work["exhausted"].step = "act"
  /\ LET w == work["exhausted"] IN
       \/ /\ w.seen = {}
          /\ Closed(w.rows)
          /\ \E cleared \in Answers : cookie' = (cookie /\ ~cleared)
          /\ Off({})
       \/ /\ w.seen # {} /\ up
          /\ \E k \in w.seen \cap online, s \in w.rows : Off({k}) /\ Closed({s})
          /\ cookie' = FALSE
       \/ /\ w.seen # {}
          /\ Off({}) /\ UNCHANGED <<cookie, row, age>>
  /\ Leaves("exhausted", Idle)
  /\ UNCHANGED <<radius, service, granted, events, network>>

\* Without credentials: the disconnect again, outside the events.
exhausted_falls_back ==
  /\ status = "ended" /\ Open # {} /\ up /\ ~api
  /\ cooling = {}
  /\ \E o \in Outcomes(Open) : Off(o.kicked)
  /\ UNCHANGED <<radius, service, cookie, granted, row, age, events, network, work>>

\* reconcile_hotspot: the router's lists first ...
reconcile_lists ==
  /\ up /\ api
  /\ Begin("reconcile", [Idle EXCEPT !.step = "act", !.seen = online, !.door = cookie /\ online = {}])
  /\ UNCHANGED <<radius, service, client, wire, rows, events, network>>

\* ... then the vouchers and the open rows.  A row younger than the grace is
\* not a phantom, for its client may have come after the list.
NoGrace(s) == TRUE   \* mutant: PHANTOM_GRACE of zero
PastGrace(s) == age[s] # "young"

plan_reconciliation ==
  LET w == work["reconcile"]
  IN [revoked_online |-> w.seen # {} /\ ~voucher_is_valid,
      revoked_cookie |-> w.door /\ ~voucher_is_valid,
      phantom_session |-> {s \in Open : w.seen = {} /\ PastGrace(s)}]

\* A removal that fails rolls the router's part back.
reconcile_acts ==
  /\ work["reconcile"].step = "act"
  /\ LET plan == plan_reconciliation
         calls == plan.revoked_online \/ plan.revoked_cookie
     IN IF calls /\ ~up THEN UNCHANGED <<online, adopted, wire, cookie, row, age>>
        ELSE /\ Off(IF plan.revoked_online THEN online ELSE {})
             /\ cookie' = (cookie /\ ~calls)
             /\ Closed(plan.phantom_session)
  /\ Leaves("reconcile", Idle)
  /\ UNCHANGED <<radius, service, granted, events, network>>

\* session_watchdog: rows nobody has heard of while the router was, and rows
\* older than anything legitimate.
OverdueNever(router_seen) == {}   \* mutant: the watchdog waits for its column
Overdue(router_seen) == {s \in Open : age[s] = "ancient" \/ (age[s] = "stale" /\ router_seen)}

session_watchdog ==
  \E router_seen \in {TRUE, up} :   \* in the last ten minutes
    /\ Overdue(router_seen) # {}
    /\ Closed(Overdue(router_seen))
    /\ UNCHANGED <<radius, service, client, wire, adopted, events, network, work>>

\* A worker dies: what was not committed is lost.
crash(j) ==
  /\ j \in Busy /\ trouble = "router" /\ faults < MaxFaults
  /\ faults' = faults + 1
  /\ Leaves(j, Idle)
  /\ UNCHANGED <<radius, service, client, wire, rows, events, up, trouble, api>>

-----------------------------------------------------------------------------
Router ==
  \/ authorize \/ accept_lost \/ cookie_expires
  \/ \E s \in Session : log_off(s) \/ interim_update(s)
  \/ \E s \in Session, by_cookie \in BOOLEAN : log_in(s, by_cookie)
  \/ \E s \in Session, again \in BOOLEAN : accounting(s, again)
  \/ \E m \in Packet : packet_lost(m)
  \/ router_lost \/ router_returns

Time ==
  \/ \E what \in {"time", "data"} : runs_out(what)
  \/ \E s \in Session : row_ages(s) \/ two_minutes_pass(s)

Owners == restore_voucher \/ service_ends \/ restore_operator

\* One step of a job that is in flight.
JobStep(j) ==
  \/ j = "expire" /\ expire_ends
  \/ disconnects(j)
  \/ j = "wind_down" /\ wind_down_marks
  \/ j = "exhausted" /\ exhausted_acts
  \/ j = "reconcile" /\ reconcile_acts

Jobs ==
  \/ expire_selects \/ disable_voucher \/ end_hotspot_service \/ exhausted_lists \/ exhausted_falls_back
  \/ reconcile_lists
  \/ \E j \in Job : JobStep(j) \/ crash(j)
  \/ \E s \in Session : retry_failed_coa_event(s)
  \/ session_watchdog

Next == Router \/ Time \/ Owners \/ Jobs

Spec == Init /\ [][Next]_vars

\* The jobs are on a schedule: a run that has begun goes on, and each begins
\* again and again.  That is strong fairness, because the bound on jobs in
\* flight and a router that is away may hold a run up.  An answer of RADIUS
\* arrives or is lost, the router comes back, time goes on.  Clients, the
\* network and the people at the dashboard owe nothing.
Fairness ==
  /\ WF_vars(accept_lost \/ \E s \in Session : log_in(s, FALSE))
  /\ WF_vars(router_returns)
  /\ \A s \in Session : SF_vars(row_ages(s)) /\ WF_vars(two_minutes_pass(s))
  /\ WF_vars(\E j \in Job : JobStep(j))
  /\ \A s \in Session : WF_vars(retry_failed_coa_event(s))
  /\ WF_vars(session_watchdog)
  /\ SF_vars(expire_selects) /\ SF_vars(end_hotspot_service) /\ SF_vars(reconcile_lists)

FairSpec == Spec /\ Fairness

-----------------------------------------------------------------------------
\* An ended voucher gives no access again, whatever packets arrive late, and a
\* disabled one does only when an operator restores it (freeradius/sql.conf,
\* Accounting-Start; engine.restore_voucher_status).
NotRevived ==
  [][(status \in {"ended", "disabled"} /\ status' \in {"unused", "active"})
        => restore_voucher]_vars

\* The mark of a wind-down that was carried out never stands on an operator
\* that is served, or has an end still to come: the end it is owed then would
\* never be carried out (jobs/hotspot_service_end.py).
MarkIsOfThisEnd == cut_off => hotspot_service_ended

\* A reconciliation, which reads the router before the rows, does not close the
\* row of a client that came in between; only the id of an earlier login whose
\* row was left open can mislead it (jobs/reconcile_hotspot.py).
LiveRowKept ==
  [][reconcile_acts => \A s \in online' \ adopted : row[s] = "open" => row'[s] = "open"]_vars

\* A row whose client is gone is closed, though its Stop never came, unless
\* the id comes round again first.
RowsClose == \A s \in Session : row[s] = "open" /\ s \notin online ~> row[s] # "open" \/ s \in online

\* An end that has passed is carried out, whoever crashes, or the operator is
\* restored (jobs/hotspot_service_end.py).
ServiceCutOff == hotspot_service_ended ~> cut_off \/ ~hotspot_service_ended

\* A disconnect that failed is sent or given up; it does not follow a voucher
\* that was restored for ever (jobs/coa_retry.py).
RetriesEnd == \A s \in Session : event[s] > 0 ~> event[s] = 0

\* Nobody comes in except while the voucher is good, or through a door opened
\* while it was, and one whose voucher is good no more is put out and the door
\* shut, for as long as it stays so.
Promise == INSTANCE AccessPromise
             WITH allowed <- authorize_check \/ ~api, online <- online # {}, door <- cookie \/ granted
KeepsPromise == Promise!Spec
=============================================================================
