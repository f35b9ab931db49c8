------------------------------- MODULE SmsUsage -------------------------------
(***************************************************************************)
(* The texts an operator sends through the platform's gateway: each is     *)
(* recorded with its price after the gateway accepted it, and the monthly  *)
(* invoice run puts the records on a bill.                                 *)
(*                                                                         *)
(* Time is the age of a record in months, capped at MaxAge.  Bounds: one   *)
(* operator, one invoice run at a time; test sends, which are never        *)
(* billed, are left out, and every text costs the same.                    *)
(***************************************************************************)
EXTENDS Integers, FiniteSets

CONSTANTS Send,          \* texts the gateway confirmed with a reference
          Unreferenced,  \* those of them it gave no reference for
          MaxAttempts,   \* tries to write a record
          Floor,         \* texts that together cost the least payable sum
          MaxAge

Tries == 1..MaxAttempts

VARIABLES writing,    \* where the writing of each text's record stands
          attempt,    \* the try it is at
          row,        \* the record each try of each text made, if any
          account,    \* "active", "trial": before its first period, or "off"
          on_fee,     \* whether the operator pays a monthly fee
          invoiced,   \* whether this period has its invoice
          run_step, taken   \* the invoice run, and the records it has read

metering == <<writing, attempt>>
run == <<run_step, taken>>
vars == <<metering, row, account, on_fee, invoiced, run>>

Rows == Send \X Tries
Absent == [kept |-> FALSE, age |-> 0, billed |-> FALSE]

TypeOK ==
  /\ writing \in [Send -> {"unsent", "due", "inserting", "over"}]
  /\ attempt \in [Send -> 0..MaxAttempts]
  /\ row \in [Rows -> [kept : BOOLEAN, age : 0..MaxAge, billed : BOOLEAN]]
  /\ account \in {"active", "trial", "off"}
  /\ on_fee \in BOOLEAN /\ invoiced \in BOOLEAN
  /\ run_step \in {"idle", "billing"}
  /\ taken \subseteq Rows

Init ==
  /\ writing = [s \in Send |-> "unsent"]
  /\ attempt = [s \in Send |-> 0]
  /\ row = [w \in Rows |-> Absent]
  /\ account \in {"active", "trial"}
  /\ on_fee \in BOOLEAN
  /\ invoiced = FALSE
  /\ run_step = "idle" /\ taken = {}

-----------------------------------------------------------------------------
(* Metering a send                                                         *)

\* The gateway accepted the text: it is metered next.
deliver_voucher_sms(s) ==
  /\ writing[s] = "unsent"
  /\ writing' = [writing EXCEPT ![s] = "due"]
  /\ UNCHANGED <<attempt, row, account, on_fee, invoiced, run>>

\* A try begins its transaction, whose time the record will carry.
insert(s) ==
  /\ writing[s] = "due"
  /\ writing' = [writing EXCEPT ![s] = "inserting"]
  /\ attempt' = [attempt EXCEPT ![s] = @ + 1]
  /\ UNCHANGED <<row, account, on_fee, invoiced, run>>

\* ON CONFLICT (provider_reference) DO NOTHING, for a text that has one.
NoConflict(s) == FALSE   \* mutant: the insert without its conflict target
Conflicts(s) == s \notin Unreferenced /\ \E n \in Tries : row[<<s, n>>].kept

Kept(s) ==
  IF Conflicts(s) THEN row ELSE [row EXCEPT ![<<s, attempt[s]>>].kept = TRUE]

Over(s) == writing' = [writing EXCEPT ![s] = "over"]

committed(s) ==
  /\ writing[s] = "inserting"
  /\ row' = Kept(s)
  /\ Over(s)
  /\ UNCHANGED <<attempt, account, on_fee, invoiced, run>>

\* The try failed, or committed and the answer was lost: the next try, until
\* the last, after which the send is only logged.
try_failed(s) ==
  /\ writing[s] = "inserting"
  /\ row' \in {row, Kept(s)}
  /\ IF attempt[s] < MaxAttempts THEN writing' = [writing EXCEPT ![s] = "due"] ELSE Over(s)
  /\ UNCHANGED <<attempt, account, on_fee, invoiced, run>>

-----------------------------------------------------------------------------
(* The invoice run, daily                                                  *)

\* Sent before the period began and on no invoice line: however long ago.
OfLastMonth == {w \in Rows : row[w].kept /\ ~row[w].billed /\ row[w].age = 1}   \* mutant
Unbilled == {w \in Rows : row[w].kept /\ ~row[w].billed /\ row[w].age > 0}

\* An operator without a fee is invoiced only once its texts reach the floor.
run_reads ==
  /\ run_step = "idle"
  /\ account = "active" /\ ~invoiced
  /\ on_fee \/ Cardinality(Unbilled) >= Floor
  /\ run_step' = "billing"
  /\ taken' = Unbilled
  /\ UNCHANGED <<metering, row, account, on_fee, invoiced>>

run_ends == run_step' = "idle" /\ taken' = {}

run_commits ==
  /\ run_step = "billing"
  /\ invoiced' = TRUE
  /\ row' = [w \in Rows |-> [row[w] EXCEPT !.billed = @ \/ w \in taken]]
  /\ run_ends
  /\ UNCHANGED <<metering, account, on_fee>>

\* The run is one transaction: whatever stops it, nothing of it is kept.
run_rolls_back ==
  /\ run_step = "billing"
  /\ run_ends
  /\ UNCHANGED <<metering, row, account, on_fee, invoiced>>

-----------------------------------------------------------------------------
\* A record's clock starts with the transaction of its try.
Older(s, n) ==
  LET w == row[<<s, n>>]
  IN  IF w.kept \/ (writing[s] = "inserting" /\ n = attempt[s])
      THEN [w EXCEPT !.age = IF @ < MaxAge THEN @ + 1 ELSE @] ELSE w

\* The 1st of a month.  The run of a day is over before the next begins, and
\* a try to write a record takes no month.
month_turns ==
  /\ run_step = "idle"
  /\ \A s \in Send : writing[s] = "inserting" => row[<<s, attempt[s]>>].age = 0
  /\ row' = [w \in Rows |-> Older(w[1], w[2])]
  /\ invoiced' = FALSE
  /\ account' \in (IF account = "trial" THEN {"trial", "active"} ELSE {account})
  /\ UNCHANGED <<metering, on_fee, run>>

\* The operator is suspended or cancelled for billing, and comes back.
account_changes ==
  /\ account' \in (CASE account = "active" -> {"off"} [] account = "off" -> {"active"} [] OTHER -> {"off"})
  /\ UNCHANGED <<metering, row, on_fee, invoiced, run>>

-----------------------------------------------------------------------------
Meter(s) == deliver_voucher_sms(s) \/ insert(s) \/ committed(s) \/ try_failed(s)

Next ==
  \/ \E s \in Send : Meter(s)
  \/ run_reads \/ run_commits \/ run_rolls_back
  \/ month_turns \/ account_changes

Spec == Init /\ [][Next]_vars

\* Months pass, tries end, the daily run comes round and is not rolled back
\* for ever.
Fairness ==
  /\ WF_vars(month_turns)
  /\ \A s \in Send : WF_vars(insert(s)) /\ WF_vars(committed(s) \/ try_failed(s))
  /\ SF_vars(run_reads) /\ SF_vars(run_commits) /\ WF_vars(run_commits \/ run_rolls_back)

FairSpec == Spec /\ Fairness

-----------------------------------------------------------------------------
\* A text with a reference is charged at most once, though a try to record it
\* may commit and not hear of it, and be made again (sms/metering.py).
BilledOnce ==
  \A s \in Send \ Unreferenced : Cardinality({n \in Tries : row[<<s, n>>].billed}) <= 1

\* A recorded text is charged in the end: one that was recorded too late for
\* its month, or carried forward below the floor, is not forgotten.  Unless
\* the operator is not billed any more, or what it owes is too little to pay.
Owes == on_fee \/ Cardinality({w \in Rows : row[w].kept /\ ~row[w].billed}) >= Floor
EverySendIsBilled ==
  \A w \in Rows : row[w].kept ~> row[w].billed \/ account # "active" \/ ~Owes
==============================================================================
