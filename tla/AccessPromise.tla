--------------------------- MODULE AccessPromise ---------------------------
(***************************************************************************)
(* What the platform promises about access to the hotspot: nobody gets in  *)
(* except while the voucher is good, or through a door that was opened     *)
(* while it was (a login cookie, an Access-Accept on its way), and once    *)
(* the voucher is good no more, the clients are put out and the door shut  *)
(* for as long as it stays so.                                             *)
(***************************************************************************)
VARIABLES allowed,   \* whether RADIUS would accept the voucher
          online,    \* whether a client is on the air with it
          door       \* whether a client could get in without asking again

vars == <<allowed, online, door>>

Init == allowed = TRUE /\ ~online /\ ~door

\* A voucher ends, is disabled, is restored; a service ends, is restored.
Change ==
  /\ allowed' \in BOOLEAN
  /\ UNCHANGED <<online, door>>

\* RADIUS accepts.
Accept == allowed /\ door' = TRUE /\ UNCHANGED <<allowed, online>>

\* A client comes in by the door that is open; the router keeps a cookie.
Enter == door /\ online' = TRUE /\ door' \in BOOLEAN /\ UNCHANGED allowed

\* A client leaves or is put out, a cookie is cleared or runs out.
Leave ==
  /\ online' \in {online, FALSE}
  /\ door' \in {door, FALSE}
  /\ UNCHANGED allowed

Withdraw == ~allowed /\ online' = FALSE /\ door' = FALSE /\ UNCHANGED allowed

Next == Change \/ Accept \/ Enter \/ Leave \/ Withdraw

Spec == Init /\ [][Next]_vars /\ WF_vars(Withdraw)
=============================================================================
