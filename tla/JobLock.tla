------------------------------- MODULE JobLock -------------------------------
(***************************************************************************)
(* The lock that keeps the ticks of one cron job from overlapping: a Redis *)
(* key that holds the token of the run that owns it and expires.  Four     *)
(* jobs take it: voucher expiry, the end of hotspot service, the repair of *)
(* reseller redemptions and audit retention.                               *)
(*                                                                         *)
(* A run stands for its own token, which is drawn anew for every tick: a   *)
(* run that has ended starts again only as another tick.                   *)
(***************************************************************************)
CONSTANTS Run, NoRun,
          MayOverrun   \* whether a run may last longer than the key does

ASSUME JobLockAssumption == NoRun \notin Run /\ MayOverrun \in BOOLEAN

VARIABLES lock,   \* the run whose token the Redis key holds, or NoRun
          pc      \* what each run is doing

vars == <<lock, pc>>

\* unguarded: invoked by hand, with no Redis at hand.
Steps == {"idle", "unguarded", "working", "releasing", "deleting"}

TypeOK ==
  /\ lock \in Run \cup {NoRun}
  /\ pc \in [Run -> Steps]

Init ==
  /\ lock = NoRun
  /\ pc = [r \in Run |-> "idle"]

Goto(r, step) == pc' = [pc EXCEPT ![r] = step]

-----------------------------------------------------------------------------
run_unguarded(r) ==
  /\ pc[r] = "idle"
  /\ Goto(r, "unguarded")
  /\ UNCHANGED lock

unguarded_ends(r) ==
  /\ pc[r] = "unguarded"
  /\ Goto(r, "idle")
  /\ UNCHANGED lock

\* SET key token NX EX ttl.  A run that finds the key set is skipped: it ends
\* without having touched anything.
FreeAlways == TRUE   \* mutant: SET without NX
Free == lock = NoRun

acquire(r) ==
  /\ pc[r] = "idle"
  /\ Free
  /\ lock' = r
  /\ Goto(r, "working")

work_ends(r) ==
  /\ pc[r] = "working"
  /\ Goto(r, "releasing")
  /\ UNCHANGED lock

\* The release is two commands to Redis: GET, and DEL when the token is ours.
compare(r) ==
  /\ pc[r] = "releasing"
  /\ Goto(r, IF lock = r THEN "deleting" ELSE "idle")
  /\ UNCHANGED lock

delete(r) ==
  /\ pc[r] = "deleting"
  /\ lock' = NoRun
  /\ Goto(r, "idle")

-----------------------------------------------------------------------------
Holders == {r \in Run : pc[r] \in {"working", "releasing", "deleting"}}

\* Redis drops the key.  The limits are chosen far above the runtime of a run
\* (MayOverrun = FALSE): the key then outlives every run but a crashed one.
ExpiresNever == FALSE   \* mutant: SET without EX
Expires == MayOverrun \/ lock \notin Holders

ttl_expires ==
  /\ lock # NoRun
  /\ Expires
  /\ lock' = NoRun
  /\ UNCHANGED pc

\* The worker dies, or Redis does not answer the release.
Crash(r) ==
  /\ r \in Holders
  /\ Goto(r, "idle")
  /\ UNCHANGED lock

RunStep(r) ==
  \/ run_unguarded(r) \/ unguarded_ends(r) \/ acquire(r) \/ work_ends(r)
  \/ compare(r) \/ delete(r) \/ Crash(r)

Next == (\E r \in Run : RunStep(r)) \/ ttl_expires

Spec == Init /\ [][Next]_vars

\* Redis drops a key whose time has come; ticks and runs owe nothing.
FairSpec == Spec /\ WF_vars(ttl_expires)

-----------------------------------------------------------------------------
\* Two guarded runs of a job are never in flight at once, not even while one
\* of them releases: a second run would see the same voucher as active and
\* fire a second disconnect (jobs/voucher_expiry.py).
OneRun == \A r, s \in Holders : r = s

\* A run that is about to delete the key does not delete the lock of another:
\* the docstring's "a run that overran its TTL cannot delete a lock that a
\* later run legitimately acquired".
DeletesOwnLock == \A r \in Run : pc[r] = "deleting" => lock \in {r, NoRun}

\* A crashed worker does not wedge the job: the key it left behind goes away.
SelfHeals == lock # NoRun /\ lock \notin Holders ~> lock = NoRun
==============================================================================
