----------------------------- MODULE LoginLimits -----------------------------
(***************************************************************************)
(* The limits on wrong voucher codes at the portal of one site: counters   *)
(* in Redis per device, for the site's address and for the operator, each  *)
(* with a fixed window, and the alerts their limits raise.                 *)
(*                                                                         *)
(* Bounds: one site of one operator; its limits do not change; Redis       *)
(* answers (the code works on without limits when it does not) and no      *)
(* worker dies between a count and its alert; MaxWrong wrong codes in one  *)
(* window of the operator.                                                 *)
(***************************************************************************)
EXTENDS Integers, FiniteSets

CONSTANTS Request, Device, IP, Operator,
          DeviceLimit, IpLimit, AlertLimit, MaxWrong

Counter == Device \cup {IP, Operator}
Alert == {"site_blocked", "guessing_suspected"}

VARIABLES step,      \* of each request
          mac,       \* the device it names
          seen,      \* the counts its failure came to
          counted,   \* the counters
          noted      \* the alerts raised since their counter was last zero

vars == <<step, mac, seen, counted, noted>>

Steps == {"idle", "allowed", "wrong", "alerting"}
NotSeen == [ip |-> 0, operator |-> 0]
AllCounts == 0..(MaxWrong + Cardinality(Request))

TypeOK ==
  /\ step \in [Request -> Steps]
  /\ mac \in [Request -> Device]
  /\ seen \in [Request -> [ip : AllCounts, operator : AllCounts]]
  /\ counted \in [Counter -> AllCounts]
  /\ noted \subseteq Alert

Init ==
  /\ step = [q \in Request |-> "idle"]
  /\ mac = [q \in Request |-> CHOOSE d \in Device : TRUE]   \* nobody yet
  /\ seen = [q \in Request |-> NotSeen]
  /\ counted = [c \in Counter |-> 0]
  /\ noted = {}

Goto(q, s) == step' = [step EXCEPT ![q] = s]

-----------------------------------------------------------------------------
\* 429 at either limit; the operator's count never blocks.
OverLimit(d) == counted[d] > DeviceLimit \/ counted[IP] > IpLimit   \* mutant
Blocked(d) == counted[d] >= DeviceLimit \/ counted[IP] >= IpLimit

\* A script names a new device with every guess.
check(q) ==
  /\ step[q] = "idle"
  /\ \E d \in Device : ~Blocked(d) /\ mac' = [mac EXCEPT ![q] = d]
  /\ Goto(q, "allowed")
  /\ UNCHANGED <<seen, counted, noted>>

\* The code exists, valid or not: nothing is counted.
code_exists(q) ==
  /\ step[q] = "allowed"
  /\ Goto(q, "idle")
  /\ UNCHANGED <<mac, seen, counted, noted>>

code_unknown(q) ==
  /\ step[q] = "allowed"
  /\ counted[Operator] < MaxWrong
  /\ Goto(q, "wrong")
  /\ UNCHANGED <<mac, seen, counted, noted>>

\* INCR and EXPIRE NX of all three counters in one MULTI.
record_failure(q) ==
  /\ step[q] = "wrong"
  /\ counted' = [c \in Counter |-> IF c \in {mac[q], IP, Operator} THEN counted[c] + 1 ELSE counted[c]]
  /\ seen' = [seen EXCEPT ![q] = [ip |-> counted'[IP], operator |-> counted'[Operator]]]
  /\ Goto(q, "alerting")
  /\ UNCHANGED <<mac, noted>>

\* The request that brings the count to the limit reports it, and no other.
ReportsLate(n) == n > IpLimit   \* mutant: the request after the limit reports
ReachesLimit(n) == n = IpLimit

Raised(q) ==
  (IF ReachesLimit(seen[q].ip) THEN {"site_blocked"} ELSE {})
  \cup (IF seen[q].operator >= AlertLimit THEN {"guessing_suspected"} ELSE {})

\* Raised, and mailed when it is the operator's first of the hour.
raise_alerts(q) ==
  /\ step[q] = "alerting"
  /\ noted' = noted \cup Raised(q)
  /\ seen' = [seen EXCEPT ![q] = NotSeen]
  /\ Goto(q, "idle")
  /\ UNCHANGED <<mac, counted>>

-----------------------------------------------------------------------------
\* Fifteen minutes since the counter left zero.
window_ends(c) ==
  /\ counted[c] > 0
  /\ counted' = [counted EXCEPT ![c] = 0]
  /\ noted' = noted \ (IF c = IP THEN {"site_blocked"} ELSE IF c = Operator THEN {"guessing_suspected"} ELSE {})
  /\ UNCHANGED <<step, mac, seen>>

Ask(q) ==
  \/ check(q) \/ code_exists(q) \/ code_unknown(q)
  \/ record_failure(q) \/ raise_alerts(q)

Next == (\E q \in Request : Ask(q)) \/ (\E c \in Counter : window_ends(c))

Spec == Init /\ [][Next]_vars

-----------------------------------------------------------------------------
\* The check and the count are apart, so the limit may be passed, but by no
\* more than the requests that were in flight when it was reached.
WrongCodesBounded ==
  /\ counted[IP] < IpLimit + Cardinality(Request)
  /\ \A d \in Device : counted[d] < DeviceLimit + Cardinality(Request)

\* A site whose customers are refused is a site somebody was told of: of the
\* requests that pass the limit together, one reports it.
BlockedSiteIsReported ==
  counted[IP] >= IpLimit =>
    "site_blocked" \in noted \/ \E q \in Request : step[q] = "alerting" /\ ReachesLimit(seen[q].ip)
==============================================================================
