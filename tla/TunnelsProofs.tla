---------------------------- MODULE TunnelsProofs ----------------------------
(***************************************************************************)
(* Proofs about Tunnels, for any routers, keys and addresses, any number   *)
(* of requests under way and any number of deaths of the job.  Whatever    *)
(* happens, no address is allocated to two routers.  As long as no mishap  *)
(* has happened (Tunnels.Mishap), every peer on the interface is one some  *)
(* router's row records, and no two rows share a key or an address.        *)
(***************************************************************************)
EXTENDS Tunnels, TLAPS, WellFoundedInduction

Hypotheses ==
  /\ Address \subseteq Nat
  /\ None \notin Tunnel /\ None \notin Router /\ None \notin Address
  /\ MaxCrashes \in Nat /\ MaxMishaps \in Nat

-----------------------------------------------------------------------------
(* What holds whatever happens                                             *)

\* A request is about a router, and once it is past the allocation it has a
\* tunnel to save or to add.
RequestInv ==
  \A c \in Call :
    /\ request[c].step = "none" <=> request[c].of = None
    /\ request[c].step \in {"saving", "adding"} => request[c].held \in Tunnel

\* Two routers are never allocated the same address: "two routers can never
\* receive the same IP" (wireguard/service.py).
AllocationsDiffer ==
  \A r, q \in Router : r # q /\ allocated[r] # None => allocated[r] # allocated[q]

\* One request at a time is between its allocation and its commit, and the
\* address it adds is nobody's.
SavingInv ==
  /\ \A c, d \in Call : request[c].step = "saving" /\ request[d].step = "saving" => c = d
  /\ \A c \in Call : request[c].step = "saving" /\ request[c].inserts =>
       \A r \in Router : allocated[r] # request[c].held.address

-----------------------------------------------------------------------------
(* What holds until a mishap                                               *)

\* The requests on one router come one after the other.
AloneInv ==
  \A c, d \in Call : request[c].of # None /\ request[c].of = request[d].of => c = d

\* Only a router in use is set up; the job's rows, and those whose peer is being
\* removed for good, are of removed routers.
ActiveInv ==
  /\ \A c \in Call :
       /\ request[c].step \in {"allocating", "saving", "adding"} => router_active[request[c].of]
       /\ request[c].step \in {"removing", "removed"} => ~router_active[request[c].of]
  /\ \A w \in reaping : ~router_active[w.of]
  /\ \A w \in reaped : ~router_active[w.of]

\* What a request or the job has loaded is the row's tunnel, or the row has
\* been cleared since; a row that is being set up has none, but for the one
\* that has been saved.
HeldInv ==
  /\ \A c \in Call :
       /\ request[c].step \in {"allocating", "saving"} => tunnel[request[c].of] = None
       /\ request[c].step = "adding" => tunnel[request[c].of] = request[c].held
       /\ request[c].step \in {"deleting", "deleted", "marking", "removing", "removed"} =>
            tunnel[request[c].of] \in {request[c].held, None}
  /\ \A w \in reaping : tunnel[w.of] \in {w.tunnel, None}

\* A row's address is the one allocated to it, and so is the one being saved.
KeptInv ==
  /\ \A r \in Router : tunnel[r] # None => allocated[r] = tunnel[r].address
  /\ \A c \in Call : request[c].step = "saving" /\ ~request[c].inserts =>
       allocated[request[c].of] = request[c].held.address

\* No two rows share a key, nor does one share it with a tunnel being saved.
KeysDiffer ==
  /\ \A r, q \in Router : r # q /\ tunnel[r] # None /\ tunnel[q] # None => tunnel[r].key # tunnel[q].key
  /\ \A c \in Call, r \in Router :
       request[c].step = "saving" /\ tunnel[r] # None => request[c].held.key # tunnel[r].key

\* Once the sidecar has removed a row's peer, and until the row is cleared,
\* the peer stays away.
Gone(r) ==
  \/ \E c \in Call : request[c].of = r /\ request[c].step \in {"deleted", "removed"}
  \/ \E w \in reaped : w.of = r
GoneInv ==
  \A r \in Router : Gone(r) /\ tunnel[r] # None => \A p \in peers : p.key # tunnel[r].key

CleanInv ==
  /\ AloneInv /\ ActiveInv /\ HeldInv /\ KeptInv /\ KeysDiffer /\ GoneInv
  /\ EveryPeerIsRecorded

Inv ==
  /\ TunnelsTypeOK /\ RequestInv /\ AllocationsDiffer /\ SavingInv
  /\ mishaps = 0 => CleanInv

-----------------------------------------------------------------------------
(* Allocation *)

\* There is a first free address when there is a free one.
LEMMA FirstExists ==
  ASSUME Hypotheses, NEW r, allocated[r] = None, FreeAddresses # {}
  PROVE  allocate_tunnel_ip(r) \in FreeAddresses
<1>1. FreeAddresses \subseteq Nat
  BY DEF Hypotheses, FreeAddresses
<1> DEFINE Below == {ss \in Nat \X Nat : ss[1] < ss[2]}
<1>2. IsWellFoundedOn(Below, Nat)
  BY NatLessThanWellFounded, Zenon DEF OpToRel
<1>3. PICK a \in FreeAddresses : \A b \in FreeAddresses : <<b, a>> \notin Below
  <2> HIDE DEF Below
  <2>1. QED
    BY <1>1, <1>2, WFMin
<1>4. ASSUME NEW b \in FreeAddresses
      PROVE  a <= b
  <2>1. a \in Nat /\ b \in Nat
    BY <1>1
  <2>2. ~ (b < a)
    BY <1>3, <2>1, Zenon
  <2>3. QED
    BY <2>1, <2>2
<1>5. QED
  BY <1>4 DEF allocate_tunnel_ip

\* What setup_allocates gives a request: a tunnel with a key no row has, and an
\* address that is nobody's or, if it adds none, the router's own.
Allocates(c, t, adds) ==
  /\ request' = [request EXCEPT ![c] =
       [step |-> "saving", of |-> request[c].of, held |-> t, inserts |-> adds]]
  /\ adds \in BOOLEAN /\ t \in Tunnel
  /\ \A r \in Router : tunnel[r] # None => t.key # tunnel[r].key
  /\ adds => \A r \in Router : allocated[r] # t.address
  /\ ~adds => allocated[request[c].of] = t.address

LEMMA AllocationIsNew ==
  ASSUME Hypotheses, TunnelsTypeOK, RequestInv, NEW c \in Call, setup_allocates(c)
  PROVE  \E t \in Tunnel, adds \in BOOLEAN : Allocates(c, t, adds)
<1> DEFINE r == request[c].of
           k == CHOOSE l \in Key \ UsedKeys : TRUE
           t == [key |-> k, address |-> allocate_tunnel_ip(r)]
<1>1. r \in Router
  BY DEF RequestInv, setup_allocates, TunnelsTypeOK, RequestStates
<1>2. k \in Key /\ k \notin UsedKeys
  BY DEF setup_allocates
<1>3. \A q \in Router : tunnel[q] # None => tunnel[q].key \in UsedKeys
  BY DEF UsedKeys, Recorded
<1>4. CASE allocated[r] = None
  <2>1. FreeAddresses # {}
    BY <1>4 DEF setup_allocates
  <2>2. allocate_tunnel_ip(r) \in FreeAddresses
    BY <1>4, <2>1, FirstExists
  <2>3. t \in Tunnel /\ \A q \in Router : allocated[q] # t.address
    BY <1>2, <2>2 DEF FreeAddresses, Tunnel
  <2>4. QED
    BY <1>2, <1>3, <1>4, <2>3 DEF Allocates, setup_allocates
<1>5. CASE allocated[r] # None
  <2>1. allocate_tunnel_ip(r) = allocated[r] /\ allocated[r] \in Address
    BY <1>1, <1>5 DEF allocate_tunnel_ip, TunnelsTypeOK
  <2>2. t \in Tunnel /\ t.address = allocated[r]
    BY <1>2, <2>1 DEF Tunnel
  <2>3. QED
    BY <1>2, <1>3, <1>5, <2>2 DEF Allocates, setup_allocates
<1>6. QED
  BY <1>4, <1>5

-----------------------------------------------------------------------------
(* Steps, whatever happens *)

\* A mishap is counted, so until one has happened a request begins alone, and
\* sets up a router in use.
LEMMA MishapsCount ==
  ASSUME Hypotheses, TunnelsTypeOK, [TunnelsNext]_tunnels, mishaps' = 0
  PROVE  mishaps = 0 /\ ~Mishap
<1>1. ~Mishap
  BY DEF Mishap, TunnelsTypeOK, Hypotheses
<1>2. UNCHANGED mishaps \/ Mishap
  BY DEF TunnelsNext, RequestStep, tunnels, setup_begins, delete_begins, remove_begins, Begins, request_dies,
     setup_allocates, setup_commits, add_peer, delete_peer, delete_clears, Clears, remove_marks, remove_peer,
     remove_fails, removal_clears, retry_selects, retry_removes, retry_fails, retry_commits, retry_crashes
<1>3. QED
  BY <1>1, <1>2

\* The three requests' first steps are one step.
BeginSteps == {"allocating", "adding", "deleting", "marking"}
LEMMA BeginsOne ==
  ASSUME NEW c \in Call, NEW r \in Router, setup_begins(c, r) \/ delete_begins(c, r) \/ remove_begins(c, r)
  PROVE  \E step \in BeginSteps :
           /\ Begins(c, step, r)
           /\ step = "allocating" => tunnel[r] = None
           /\ step = "adding" => tunnel[r] # None
BY DEF BeginSteps, setup_begins, delete_begins, remove_begins

LEMMA TypeStep ==
  ASSUME Hypotheses, TunnelsTypeOK, RequestInv, [TunnelsNext]_tunnels
  PROVE  TunnelsTypeOK'
<1>1. CASE UNCHANGED tunnels
  BY <1>1 DEF TunnelsTypeOK, tunnels, records, reaper
<1>2. NoRequest \in RequestStates
  BY DEF NoRequest, RequestStates, RequestSteps
<1>3. ASSUME NEW n, UNCHANGED mishaps \/ Mishap
      PROVE  mishaps' \in 0..MaxMishaps
  BY <1>3 DEF TunnelsTypeOK, Mishap, Hypotheses
<1>4. ASSUME NEW c \in Call, NEW step \in BeginSteps, NEW r \in Router, Begins(c, step, r)
      PROVE  TunnelsTypeOK'
  <2>1. [step |-> step, of |-> r, held |-> tunnel[r], inserts |-> FALSE] \in RequestStates
    BY DEF TunnelsTypeOK, RequestStates, RequestSteps, BeginSteps
  <2>2. mishaps' \in 0..MaxMishaps
    BY <1>3, <1>4 DEF Begins
  <2>3. QED
    BY <1>4, <2>1, <2>2 DEF TunnelsTypeOK, Begins, records, reaper
<1>5. ASSUME NEW c \in Call, request_dies(c)
      PROVE  TunnelsTypeOK'
  BY <1>2, <1>5 DEF TunnelsTypeOK, request_dies, Ends, records, reaper
<1>6. ASSUME NEW c \in Call, setup_allocates(c)
      PROVE  TunnelsTypeOK'
  <2>1. PICK t \in Tunnel, adds \in BOOLEAN : Allocates(c, t, adds)
    BY <1>6, AllocationIsNew
  <2>2. request' \in [Call -> RequestStates]
    <3> DEFINE saves == [step |-> "saving", of |-> request[c].of, held |-> t, inserts |-> adds]
    <3>1. request[c].of \in Router \cup {None}
      BY DEF TunnelsTypeOK, RequestStates
    <3>2. saves \in RequestStates
      BY <3>1 DEF RequestStates, RequestSteps
    <3>3. request' = [request EXCEPT ![c] = saves]
      BY <2>1 DEF Allocates
    <3>4. QED
      <4> HIDE DEF saves
      <4>1. QED
        BY <3>2, <3>3 DEF TunnelsTypeOK
  <2>3. QED
    BY <1>6, <2>2 DEF TunnelsTypeOK, setup_allocates, records, reaper
<1>7. ASSUME NEW c \in Call, NEW step \in RequestSteps, Goes(c, step)
      PROVE  request' \in [Call -> RequestStates]
  BY <1>7 DEF TunnelsTypeOK, RequestStates, Goes
<1>8. ASSUME NEW c \in Call, setup_commits(c)
      PROVE  TunnelsTypeOK'
  <2>1. request[c].held \in Tunnel /\ request[c].held.address \in Address
    BY <1>8 DEF RequestInv, setup_commits, Tunnel
  <2>2. QED
    BY <1>7, <1>8, <2>1 DEF TunnelsTypeOK, setup_commits, RequestSteps, reaper
<1>9. ASSUME NEW c \in Call, add_peer(c)
      PROVE  TunnelsTypeOK'
  <2>1. peers' \subseteq Tunnel
    BY <1>9 DEF TunnelsTypeOK, RequestInv, add_peer, WithPeer
  <2>2. QED
    BY <1>2, <1>9, <2>1 DEF TunnelsTypeOK, add_peer, Ends, records, reaper
<1>10. ASSUME NEW c \in Call, delete_peer(c) \/ remove_peer(c)
       PROVE  TunnelsTypeOK'
  <2>1. peers' \subseteq Tunnel /\ request' \in [Call -> RequestStates] /\ mishaps' \in 0..MaxMishaps
    BY <1>3, <1>7, <1>10 DEF TunnelsTypeOK, delete_peer, remove_peer, Without, RequestSteps
  <2>2. QED
    BY <1>10, <2>1 DEF TunnelsTypeOK, delete_peer, remove_peer, records, reaper
<1>11. ASSUME NEW c \in Call, Clears(c)
       PROVE  TunnelsTypeOK'
  BY <1>2, <1>11 DEF TunnelsTypeOK, Clears, RowCleared, Ends, reaper
<1>12. ASSUME NEW c \in Call, remove_marks(c)
       PROVE  TunnelsTypeOK'
  BY <1>7, <1>12 DEF TunnelsTypeOK, remove_marks, RequestSteps, reaper
<1>13. ASSUME NEW c \in Call, remove_fails(c)
       PROVE  TunnelsTypeOK'
  <2>1. peers' \subseteq Tunnel
    BY <1>13 DEF TunnelsTypeOK, remove_fails, Without
  <2>2. QED
    BY <1>2, <1>13, <2>1 DEF TunnelsTypeOK, remove_fails, RowKept, Ends, reaper
<1>14. CASE retry_selects \/ retry_commits \/ retry_crashes
  <2>1. CASE retry_selects
    BY <2>1 DEF TunnelsTypeOK, retry_selects, Incomplete, records
  <2>2. CASE retry_commits
    BY <2>2 DEF TunnelsTypeOK, retry_commits
  <2>3. CASE retry_crashes
    BY <2>3 DEF TunnelsTypeOK, Hypotheses, retry_crashes, records
  <2>4. QED
    BY <1>14, <2>1, <2>2, <2>3
<1>15. ASSUME NEW w \in reaping, retry_removes(w) \/ retry_fails(w)
       PROVE  TunnelsTypeOK'
  <2>1. peers' \subseteq Tunnel
    BY <1>15 DEF TunnelsTypeOK, retry_removes, retry_fails, Without
  <2>2. [of |-> w.of, frees |-> allocated[w.of] # None] \in [of : Router, frees : BOOLEAN]
    BY DEF TunnelsTypeOK
  <2>3. CASE retry_removes(w)
    BY <2>1, <2>2, <2>3 DEF TunnelsTypeOK, retry_removes, records
  <2>4. CASE retry_fails(w)
    BY <2>1, <2>4 DEF TunnelsTypeOK, retry_fails, records
  <2>5. QED
    BY <1>15, <2>3, <2>4
<1>16. QED
  BY <1>1, <1>4, <1>5, <1>6, <1>8, <1>9, <1>10, <1>11, <1>12, <1>13, <1>14, <1>15, BeginsOne
     DEF TunnelsNext, RequestStep, delete_clears, removal_clears

LEMMA RequestInvStep ==
  ASSUME Hypotheses, TunnelsTypeOK, RequestInv, [TunnelsNext]_tunnels
  PROVE  RequestInv'
<1>1. CASE UNCHANGED request
  BY <1>1 DEF RequestInv
<1>2. ASSUME NEW c \in Call, NEW step \in BeginSteps, NEW r \in Router, Begins(c, step, r),
             step = "adding" => tunnel[r] # None
      PROVE  RequestInv'
  <2>1. request'[c].of = r /\ request'[c].step = step /\ request'[c].held = tunnel[r]
    BY <1>2 DEF TunnelsTypeOK, Begins
  <2>2. step = "adding" => tunnel[r] \in Tunnel
    BY <1>2 DEF TunnelsTypeOK
  <2>3. QED
    BY <1>2, <2>1, <2>2 DEF RequestInv, TunnelsTypeOK, Hypotheses, Begins, BeginSteps
<1>3. ASSUME NEW c \in Call, Ends(c)
      PROVE  RequestInv'
  BY <1>3 DEF RequestInv, TunnelsTypeOK, Ends, NoRequest
<1>4. ASSUME NEW c \in Call, setup_allocates(c)
      PROVE  RequestInv'
  <2>1. PICK t \in Tunnel, adds \in BOOLEAN : Allocates(c, t, adds)
    BY <1>4, AllocationIsNew
  <2>2. /\ request'[c].of = request[c].of /\ request'[c].step = "saving" /\ request'[c].held = t
        /\ \A d \in Call \ {c} : request'[d] = request[d]
    BY <2>1 DEF TunnelsTypeOK, Allocates
  <2>3. request[c].of # None
    BY <1>4 DEF RequestInv, setup_allocates
  <2>4. QED
    BY <2>2, <2>3 DEF RequestInv
<1>5. ASSUME NEW c \in Call, NEW step \in RequestSteps \ {"none"}, Goes(c, step),
             request[c].step # "none", step = "adding" => request[c].step = "saving", step # "saving"
      PROVE  RequestInv'
  BY <1>5 DEF RequestInv, TunnelsTypeOK, RequestStates, Goes
<1>6. ASSUME NEW c \in Call, setup_commits(c) \/ delete_peer(c) \/ remove_marks(c) \/ remove_peer(c)
      PROVE  RequestInv'
  BY <1>5, <1>6 DEF setup_commits, delete_peer, remove_marks, remove_peer, RequestSteps
<1>7. ASSUME NEW c \in Call, add_peer(c) \/ Clears(c) \/ remove_fails(c) \/ request_dies(c)
      PROVE  RequestInv'
  BY <1>3, <1>7 DEF add_peer, Clears, remove_fails, request_dies
<1>8. CASE \/ retry_selects \/ retry_commits \/ retry_crashes
           \/ \E w \in reaping : retry_removes(w) \/ retry_fails(w)
           \/ UNCHANGED tunnels
  BY <1>1, <1>8 DEF retry_selects, retry_commits, retry_crashes, retry_removes, retry_fails, tunnels
<1>9. QED
  BY <1>2, <1>4, <1>6, <1>7, <1>8, BeginsOne DEF TunnelsNext, RequestStep, delete_clears, removal_clears

\* Between a setup's allocation and its commit an allocation can only go.
LEMMA AllocationStep ==
  ASSUME Hypotheses, TunnelsTypeOK, RequestInv, AllocationsDiffer, SavingInv, [TunnelsNext]_tunnels
  PROVE  AllocationsDiffer' /\ SavingInv'
<1>1. ASSUME \A r \in Router : allocated'[r] \in {allocated[r], None},
             \A c \in Call : request'[c].step = "saving" => request'[c] = request[c]
      PROVE  AllocationsDiffer' /\ SavingInv'
  <2>1. AllocationsDiffer'
    BY <1>1 DEF AllocationsDiffer
  <2>2. ASSUME NEW c \in Call, request'[c].step = "saving", request'[c].inserts, NEW r \in Router
        PROVE  allocated'[r] # request'[c].held.address
    <3>1. request[c] = request'[c] /\ request[c].held.address \in Address
      BY <1>1, <2>2 DEF RequestInv, Tunnel
    <3>2. QED
      BY <1>1, <2>2, <3>1 DEF SavingInv, Hypotheses
  <2>3. QED
    BY <1>1, <2>1, <2>2 DEF SavingInv
<1>2. ASSUME NEW c \in Call, setup_allocates(c)
      PROVE  AllocationsDiffer' /\ SavingInv'
  <2>1. PICK t \in Tunnel, adds \in BOOLEAN : Allocates(c, t, adds)
    BY <1>2, AllocationIsNew
  <2>2. /\ UNCHANGED allocated
        /\ request'[c].held = t /\ request'[c].inserts = adds
        /\ \A d \in Call \ {c} : request'[d] = request[d] /\ request[d].step # "saving"
    BY <1>2, <2>1 DEF setup_allocates, Allocates, TunnelsTypeOK, records
  <2>3. AllocationsDiffer'
    BY <2>2 DEF AllocationsDiffer
  <2>4. \A d \in Call : request'[d].step = "saving" => d = c
    BY <2>2
  <2>5. request'[c].inserts => \A r \in Router : allocated'[r] # request'[c].held.address
    BY <2>1, <2>2 DEF Allocates
  <2>6. QED
    BY <2>3, <2>4, <2>5 DEF SavingInv
<1>3. ASSUME NEW c \in Call, setup_commits(c)
      PROVE  AllocationsDiffer' /\ SavingInv'
  <2>1. \A d \in Call : request'[d].step # "saving"
    BY <1>3 DEF setup_commits, Goes, TunnelsTypeOK, RequestStates, SavingInv
  <2>2. request[c].held.address \in Address
    BY <1>3 DEF setup_commits, RequestInv, Tunnel
  <2>3. AllocationsDiffer'
    BY <1>3, <2>2 DEF setup_commits, AllocationsDiffer, SavingInv, TunnelsTypeOK, Hypotheses
  <2>4. QED
    BY <2>1, <2>3 DEF SavingInv
<1>4. ASSUME NEW c \in Call, NEW step \in BeginSteps, NEW r \in Router, Begins(c, step, r)
      PROVE  AllocationsDiffer' /\ SavingInv'
  BY <1>1, <1>4 DEF Begins, BeginSteps, TunnelsTypeOK, records
<1>5. ASSUME NEW c \in Call, request_dies(c) \/ add_peer(c) \/ Clears(c) \/ remove_fails(c)
      PROVE  AllocationsDiffer' /\ SavingInv'
  BY <1>1, <1>5 DEF request_dies, add_peer, Clears, remove_fails, Ends, NoRequest, TunnelsTypeOK, records
<1>6. ASSUME NEW c \in Call, delete_peer(c) \/ remove_marks(c) \/ remove_peer(c)
      PROVE  AllocationsDiffer' /\ SavingInv'
  BY <1>1, <1>6 DEF delete_peer, remove_marks, remove_peer, Goes, TunnelsTypeOK, RequestStates, records
<1>7. CASE \/ retry_selects \/ retry_commits \/ retry_crashes
           \/ \E w \in reaping : retry_removes(w) \/ retry_fails(w)
  BY <1>1, <1>7 DEF retry_selects, retry_commits, retry_crashes, retry_removes, retry_fails, TunnelsTypeOK, records
<1>8. CASE UNCHANGED tunnels
  BY <1>1, <1>8 DEF tunnels, records
<1>9. QED
  BY <1>2, <1>3, <1>4, <1>5, <1>6, <1>7, <1>8, BeginsOne DEF TunnelsNext, RequestStep, delete_clears, removal_clears

-----------------------------------------------------------------------------
(* Steps, until a mishap                                                   *)

\* Without a mishap a request begins on a router that has no other, and sets up
\* only one in use.
LEMMA BeginsAlone ==
  ASSUME NEW c \in Call, NEW step \in BeginSteps, NEW r \in Router, Begins(c, step, r), ~Mishap
  PROVE  /\ \A d \in Call : request[d].of # r
         /\ step \in {"allocating", "adding"} => router_active[r]
BY DEF Begins, UnderWay

\* The steps in which a request ends, and those in which it goes on.
Clearing(c) == delete_clears(c) \/ removal_clears(c)
Ending(c) == request_dies(c) \/ add_peer(c) \/ remove_fails(c) \/ Clearing(c)
Going(c) == setup_allocates(c) \/ setup_commits(c) \/ delete_peer(c) \/ remove_marks(c) \/ remove_peer(c)
Retrying == retry_selects \/ retry_commits \/ retry_crashes \/ \E w \in reaping : retry_removes(w) \/ retry_fails(w)

LEMMA EndingEnds ==
  ASSUME NEW c \in Call, TunnelsTypeOK, Ending(c)
  PROVE  /\ request' = [request EXCEPT ![c] = NoRequest]
         /\ request'[c] = NoRequest /\ \A d \in Call \ {c} : request'[d] = request[d]
         /\ router_active' = router_active /\ reaping' = reaping /\ reaped' = reaped
BY DEF TunnelsTypeOK, Ending, request_dies, add_peer, remove_fails, Clearing, delete_clears, removal_clears,
   Clears, Ends, records, reaper

LEMMA GoingGoes ==
  ASSUME NEW c \in Call, TunnelsTypeOK, Going(c)
  PROVE  /\ request'[c].of = request[c].of /\ \A d \in Call \ {c} : request'[d] = request[d]
         /\ request[c].step # "allocating" => request'[c].held = request[c].held
         /\ reaping' = reaping /\ reaped' = reaped
BY DEF TunnelsTypeOK, RequestStates, Going, setup_allocates, setup_commits, delete_peer, remove_marks, remove_peer,
   Goes, reaper

LEMMA RetryingRetries ==
  ASSUME Retrying
  PROVE  router_active' = router_active /\ request' = request
BY DEF Retrying, retry_selects, retry_commits, retry_crashes, retry_removes, retry_fails, records

LEMMA NextCases ==
  ASSUME [TunnelsNext]_tunnels
  PROVE  \/ UNCHANGED tunnels
         \/ \E c \in Call, step \in BeginSteps, r \in Router :
              /\ Begins(c, step, r)
              /\ step = "allocating" => tunnel[r] = None
              /\ step = "adding" => tunnel[r] # None
         \/ \E c \in Call : Ending(c) \/ Going(c)
         \/ Retrying
BY BeginsOne DEF TunnelsNext, RequestStep, Ending, Clearing, Going, Retrying

LEMMA OfARouter ==
  ASSUME TunnelsTypeOK, RequestInv
  PROVE  \A c \in Call : request[c].step # "none" => request[c].of \in Router
BY DEF TunnelsTypeOK, RequestInv, RequestStates

LEMMA AloneStep ==
  ASSUME Hypotheses, TunnelsTypeOK, RequestInv, AloneInv, [TunnelsNext]_tunnels, ~Mishap
  PROVE  AloneInv'
<1>1. CASE UNCHANGED tunnels
  BY <1>1 DEF AloneInv, tunnels
<1>2. ASSUME NEW c \in Call, NEW step \in BeginSteps, NEW r \in Router, Begins(c, step, r)
      PROVE  AloneInv'
  BY <1>2, BeginsAlone DEF AloneInv, TunnelsTypeOK, Begins
<1>3. ASSUME NEW c \in Call, Ending(c)
      PROVE  AloneInv'
  BY <1>3, EndingEnds DEF AloneInv, NoRequest
<1>4. ASSUME NEW c \in Call, Going(c)
      PROVE  AloneInv'
  BY <1>4, GoingGoes DEF AloneInv
<1>5. CASE Retrying
  BY <1>5, RetryingRetries DEF AloneInv
<1>6. QED
  BY <1>1, <1>2, <1>3, <1>4, <1>5, NextCases

LEMMA ActiveStep ==
  ASSUME Hypotheses, TunnelsTypeOK, RequestInv, AloneInv, ActiveInv, [TunnelsNext]_tunnels, ~Mishap
  PROVE  ActiveInv'
<1>1. CASE UNCHANGED tunnels
  BY <1>1 DEF ActiveInv, tunnels, records, reaper
<1>2. ASSUME NEW c \in Call, NEW step \in BeginSteps, NEW r \in Router, Begins(c, step, r)
      PROVE  ActiveInv'
  <2>1. /\ request'[c].step = step /\ request'[c].of = r /\ step \notin {"saving", "removing", "removed"}
        /\ \A d \in Call \ {c} : request'[d] = request[d]
        /\ UNCHANGED <<records, reaper>>
    BY <1>2 DEF Begins, BeginSteps, TunnelsTypeOK
  <2>2. step \in {"allocating", "adding"} => router_active[r]
    BY <1>2, BeginsAlone
  <2>3. QED
    BY <2>1, <2>2 DEF ActiveInv, records, reaper
<1>3. ASSUME NEW c \in Call, Ending(c)
      PROVE  ActiveInv'
  BY <1>3, EndingEnds DEF ActiveInv, NoRequest
<1>4. ASSUME NEW c \in Call, Going(c), ~remove_marks(c)
      PROVE  ActiveInv'
  <2>1. /\ router_active' = router_active
        /\ request'[c].step \in {"saving", "adding"} => request[c].step \in {"allocating", "saving"}
        /\ request'[c].step = "removed" => request[c].step = "removing"
        /\ request'[c].step \notin {"allocating", "removing"}
    BY <1>4 DEF TunnelsTypeOK, RequestStates, Going, setup_allocates, setup_commits, delete_peer, remove_peer,
       Goes, records
  <2>2. QED
    BY <1>4, <2>1, GoingGoes DEF ActiveInv
<1>5. ASSUME NEW c \in Call, remove_marks(c)
      PROVE  ActiveInv'
  <2>1. request[c].of \in Router
    BY <1>5 DEF RequestInv, TunnelsTypeOK, RequestStates, remove_marks
  <2>2. request'[c].step = "removing" /\ request'[c].of = request[c].of
        /\ \A d \in Call \ {c} : request'[d] = request[d]
    BY <1>5 DEF remove_marks, Goes, TunnelsTypeOK, RequestStates
  <2>3. \A d \in Call \ {c} : request[d].of # request[c].of
    BY <2>1 DEF AloneInv, Hypotheses
  <2>4. router_active' = [router_active EXCEPT ![request[c].of] = FALSE] /\ UNCHANGED reaper
    BY <1>5 DEF remove_marks
  <2>5. \A r \in Router : router_active'[r] => router_active[r]
    BY <2>4 DEF TunnelsTypeOK
  <2>6. ~router_active'[request[c].of]
    BY <2>1, <2>4 DEF TunnelsTypeOK
  <2>7. \A d \in Call \ {c} :
          request[d].step # "none" => router_active'[request[d].of] = router_active[request[d].of]
    BY <2>3, <2>4, OfARouter DEF TunnelsTypeOK
  <2>8. \A w \in reaping \cup reaped : w.of \in Router
    BY DEF TunnelsTypeOK
  <2>9. QED
    BY <2>2, <2>4, <2>5, <2>6, <2>7, <2>8 DEF ActiveInv, reaper
<1>6. CASE Retrying
  <2>1. /\ \A w \in reaping' : w \in reaping \/ ~router_active[w.of]
        /\ \A w \in reaped' : w \in reaped \/ \E v \in reaping : w.of = v.of
    BY <1>6 DEF Retrying, retry_selects, Incomplete, retry_removes, retry_fails, retry_commits, retry_crashes
  <2>2. QED
    BY <1>6, <2>1, RetryingRetries DEF ActiveInv
<1>7. QED
  BY <1>1, <1>2, <1>3, <1>4, <1>5, <1>6, NextCases

\* A request whose row is cleared at its end leaves the others' rows alone.
LEMMA ClearingClears ==
  ASSUME Hypotheses, TunnelsTypeOK, RequestInv, HeldInv, NEW c \in Call, Clearing(c)
  PROVE  /\ request[c].of \in Router /\ Gone(request[c].of)
         /\ tunnel'[request[c].of] = None /\ allocated'[request[c].of] = None
         /\ \A r \in Router \ {request[c].of} : tunnel'[r] = tunnel[r] /\ allocated'[r] = allocated[r]
         /\ UNCHANGED <<peers, reaper>>
<1>1. request[c].step \in {"deleted", "removed"} /\ Clears(c)
  BY DEF Clearing, delete_clears, removal_clears
<1>2. request[c].of \in Router /\ tunnel[request[c].of] \in {request[c].held, None}
  BY <1>1, OfARouter DEF HeldInv
<1>3. QED
  BY <1>1, <1>2 DEF Clears, RowCleared, Gone, TunnelsTypeOK

\* What the commit of a setup saves.
LEMMA CommitSaves ==
  ASSUME Hypotheses, TunnelsTypeOK, RequestInv, NEW c \in Call, setup_commits(c)
  PROVE  /\ request[c].of \in Router /\ request[c].step = "saving" /\ request[c].held \in Tunnel
         /\ tunnel'[request[c].of] = request[c].held
         /\ allocated'[request[c].of] =
              IF request[c].inserts THEN request[c].held.address ELSE allocated[request[c].of]
         /\ request'[c].step = "adding"
         /\ \A r \in Router \ {request[c].of} : tunnel'[r] = tunnel[r] /\ allocated'[r] = allocated[r]
         /\ UNCHANGED <<router_active, peers, reaper>>
<1>1. request[c].of \in Router /\ request[c].step = "saving" /\ request[c].held \in Tunnel
  BY OfARouter DEF setup_commits, RequestInv
<1>2. QED
  BY <1>1 DEF setup_commits, TunnelsTypeOK, Goes, RequestStates

\* Any other end of a request leaves every row's tunnel and allocation.
LEMMA OthersStay ==
  ASSUME NEW c \in Call, Ending(c), ~Clearing(c)
  PROVE  tunnel' = tunnel /\ allocated' = allocated
BY DEF Ending, request_dies, add_peer, remove_fails, RowKept, records

LEMMA HeldStep ==
  ASSUME Hypotheses, TunnelsTypeOK, RequestInv, AloneInv, ActiveInv, HeldInv, [TunnelsNext]_tunnels, ~Mishap
  PROVE  HeldInv'
<1>1. CASE UNCHANGED tunnels
  BY <1>1 DEF HeldInv, tunnels, records, reaper
<1>2. ASSUME NEW c \in Call, NEW step \in BeginSteps, NEW r \in Router, Begins(c, step, r),
             step = "allocating" => tunnel[r] = None
      PROVE  HeldInv'
  <2>1. /\ request'[c].step = step /\ request'[c].of = r /\ request'[c].held = tunnel[r]
        /\ step \notin {"saving", "removing", "removed", "deleted"}
        /\ \A d \in Call \ {c} : request'[d] = request[d]
        /\ UNCHANGED <<records, reaper>>
    BY <1>2 DEF Begins, BeginSteps, TunnelsTypeOK
  <2>2. QED
    BY <1>2, <2>1 DEF HeldInv, records, reaper
<1>3. ASSUME NEW c \in Call, Ending(c), ~Clearing(c)
      PROVE  HeldInv'
  BY <1>3, EndingEnds, OthersStay DEF HeldInv, NoRequest
<1>4. ASSUME NEW c \in Call, Clearing(c)
      PROVE  HeldInv'
  <2>1. request'[c] = NoRequest /\ (\A d \in Call \ {c} : request'[d] = request[d]) /\ reaping' = reaping
    BY <1>4, EndingEnds DEF Ending
  <2>2. \A d \in Call \ {c} : request[d].step # "none" => tunnel'[request[d].of] = tunnel[request[d].of]
    BY <1>4, ClearingClears, OfARouter DEF AloneInv, Hypotheses
  <2>3. \A w \in reaping : tunnel'[w.of] \in {tunnel[w.of], None}
    BY <1>4, ClearingClears DEF TunnelsTypeOK
  <2>4. QED
    BY <2>1, <2>2, <2>3 DEF HeldInv, NoRequest
<1>5. ASSUME NEW c \in Call, Going(c), ~setup_commits(c)
      PROVE  HeldInv'
  <2>1. tunnel' = tunnel
    BY <1>5 DEF Going, setup_allocates, delete_peer, remove_marks, remove_peer, records
  <2>2. /\ request'[c].step \notin {"allocating", "adding"}
        /\ request'[c].step = "saving" => request[c].step = "allocating"
        /\ request'[c].step \in {"deleting", "deleted", "marking", "removing", "removed"} =>
             request[c].step \in {"deleting", "marking", "removing"}
    BY <1>5 DEF Going, setup_allocates, delete_peer, remove_marks, remove_peer, Goes, TunnelsTypeOK, RequestStates
  <2>3. QED
    BY <1>5, <2>1, <2>2, GoingGoes DEF HeldInv
<1>6. ASSUME NEW c \in Call, setup_commits(c)
      PROVE  HeldInv'
  <2>1. /\ request'[c].of = request[c].of /\ request'[c].held = request[c].held /\ reaping' = reaping
        /\ \A d \in Call \ {c} : request'[d] = request[d]
    BY <1>6, GoingGoes, CommitSaves DEF Going
  <2>2. \A d \in Call \ {c} : request[d].step # "none" => tunnel'[request[d].of] = tunnel[request[d].of]
    BY <1>6, CommitSaves, OfARouter DEF AloneInv, Hypotheses
  <2>3. \A w \in reaping : tunnel'[w.of] = tunnel[w.of]
    BY <1>6, CommitSaves DEF ActiveInv, TunnelsTypeOK
  <2>4. QED
    BY <1>6, <2>1, <2>2, <2>3, CommitSaves DEF HeldInv
<1>7. CASE retry_commits
  <2>1. \A d \in Call : request[d].step \in {"allocating", "saving", "adding"} =>
          tunnel'[request[d].of] = tunnel[request[d].of]
    BY <1>7, OfARouter DEF retry_commits, ActiveInv, TunnelsTypeOK
  <2>2. \A d \in Call : request[d].step # "none" => tunnel'[request[d].of] \in {tunnel[request[d].of], None}
    BY <1>7, OfARouter DEF retry_commits, TunnelsTypeOK
  <2>3. request' = request /\ reaping' = {}
    BY <1>7 DEF retry_commits
  <2>4. QED
    BY <2>1, <2>2, <2>3 DEF HeldInv
<1>8. CASE Retrying /\ ~retry_commits
  BY <1>8 DEF HeldInv, Retrying, retry_selects, retry_removes, retry_fails, retry_crashes, records
<1>9. QED
  BY <1>1, <1>2, <1>3, <1>4, <1>5, <1>6, <1>7, <1>8, NextCases

LEMMA KeptStep ==
  ASSUME Hypotheses, TunnelsTypeOK, RequestInv, AloneInv, ActiveInv, HeldInv, KeptInv,
         [TunnelsNext]_tunnels, ~Mishap
  PROVE  KeptInv'
<1>1. ASSUME UNCHANGED <<tunnel, allocated>>,
             \A c \in Call : request'[c].step = "saving" => request'[c] = request[c]
      PROVE  KeptInv'
  BY <1>1 DEF KeptInv
<1>2. ASSUME NEW c \in Call, NEW step \in BeginSteps, NEW r \in Router, Begins(c, step, r)
      PROVE  KeptInv'
  BY <1>1, <1>2 DEF Begins, BeginSteps, TunnelsTypeOK, records
<1>3. ASSUME NEW c \in Call, Clearing(c)
      PROVE  KeptInv'
  <2>1. request'[c] = NoRequest /\ \A d \in Call \ {c} : request'[d] = request[d]
    BY <1>3, EndingEnds DEF Ending
  <2>2. \A d \in Call \ {c} : request[d].step # "none" => allocated'[request[d].of] = allocated[request[d].of]
    BY <1>3, ClearingClears, OfARouter DEF AloneInv, Hypotheses
  <2>3. QED
    BY <1>3, <2>1, <2>2, ClearingClears DEF KeptInv, NoRequest
<1>4. ASSUME NEW c \in Call, Ending(c), ~Clearing(c)
      PROVE  KeptInv'
  BY <1>1, <1>4, OthersStay, EndingEnds DEF NoRequest
<1>5. ASSUME NEW c \in Call, setup_allocates(c)
      PROVE  KeptInv'
  <2>1. PICK t \in Tunnel, adds \in BOOLEAN : Allocates(c, t, adds)
    BY <1>5, AllocationIsNew
  <2>2. /\ request'[c].of = request[c].of /\ request'[c].held = t /\ request'[c].inserts = adds
        /\ \A d \in Call \ {c} : request'[d] = request[d]
        /\ UNCHANGED <<tunnel, allocated>>
    BY <1>5, <2>1 DEF setup_allocates, Allocates, TunnelsTypeOK, records
  <2>3. ~adds => allocated[request[c].of] = t.address
    BY <2>1 DEF Allocates
  <2>4. QED
    BY <2>2, <2>3 DEF KeptInv
<1>6. ASSUME NEW c \in Call, setup_commits(c)
      PROVE  KeptInv'
  <2>1. \A d \in Call \ {c} : request'[d] = request[d]
    BY <1>6, GoingGoes DEF Going
  <2>2. \A d \in Call \ {c} : request[d].step # "none" => allocated'[request[d].of] = allocated[request[d].of]
    BY <1>6, CommitSaves, OfARouter DEF AloneInv, Hypotheses
  <2>3. allocated'[request[c].of] = request[c].held.address
    BY <1>6, CommitSaves DEF KeptInv
  <2>4. QED
    BY <1>6, <2>1, <2>2, <2>3, CommitSaves DEF KeptInv
<1>7. ASSUME NEW c \in Call, delete_peer(c) \/ remove_marks(c) \/ remove_peer(c)
      PROVE  KeptInv'
  BY <1>1, <1>7 DEF delete_peer, remove_marks, remove_peer, Goes, TunnelsTypeOK, RequestStates, records
<1>8. CASE retry_commits
  <2>1. \A d \in Call : request[d].step = "saving" => allocated'[request[d].of] = allocated[request[d].of]
    BY <1>8, OfARouter DEF retry_commits, ActiveInv, TunnelsTypeOK
  <2>2. \A r \in Router : tunnel'[r] # None => tunnel'[r] = tunnel[r] /\ allocated'[r] = allocated[r]
    BY <1>8 DEF retry_commits, TunnelsTypeOK
  <2>3. request' = request
    BY <1>8 DEF retry_commits
  <2>4. QED
    BY <2>1, <2>2, <2>3 DEF KeptInv
<1>9. CASE Retrying /\ ~retry_commits
  BY <1>1, <1>9 DEF Retrying, retry_selects, retry_removes, retry_fails, retry_crashes, records
<1>10. CASE UNCHANGED tunnels
  BY <1>1, <1>10 DEF tunnels, records
<1>11. QED
  BY <1>2, <1>3, <1>4, <1>5, <1>6, <1>7, <1>8, <1>9, <1>10, NextCases DEF Going

LEMMA KeysStep ==
  ASSUME Hypotheses, TunnelsTypeOK, RequestInv, SavingInv, HeldInv, KeysDiffer, [TunnelsNext]_tunnels
  PROVE  KeysDiffer'
<1>1. ASSUME \A r \in Router : tunnel'[r] \in {tunnel[r], None},
             \A c \in Call : request'[c].step = "saving" => request'[c] = request[c]
      PROVE  KeysDiffer'
  BY <1>1 DEF KeysDiffer
<1>2. ASSUME NEW c \in Call, NEW step \in BeginSteps, NEW r \in Router, Begins(c, step, r)
      PROVE  KeysDiffer'
  BY <1>1, <1>2 DEF Begins, BeginSteps, TunnelsTypeOK, records
<1>3. ASSUME NEW c \in Call, Clearing(c)
      PROVE  KeysDiffer'
  BY <1>1, <1>3, EndingEnds, ClearingClears DEF Ending, NoRequest
<1>4. ASSUME NEW c \in Call, Ending(c), ~Clearing(c)
      PROVE  KeysDiffer'
  BY <1>1, <1>4, OthersStay, EndingEnds DEF NoRequest
<1>5. ASSUME NEW c \in Call, setup_allocates(c)
      PROVE  KeysDiffer'
  <2>1. PICK t \in Tunnel, adds \in BOOLEAN : Allocates(c, t, adds)
    BY <1>5, AllocationIsNew
  <2>2. /\ request'[c].held = t /\ UNCHANGED tunnel
        /\ \A d \in Call \ {c} : request'[d] = request[d] /\ request[d].step # "saving"
    BY <1>5, <2>1 DEF setup_allocates, Allocates, TunnelsTypeOK, records
  <2>3. \A r \in Router : tunnel[r] # None => t.key # tunnel[r].key
    BY <2>1 DEF Allocates
  <2>4. QED
    BY <2>2, <2>3 DEF KeysDiffer
<1>6. ASSUME NEW c \in Call, setup_commits(c)
      PROVE  KeysDiffer'
  <2>1. \A d \in Call : request'[d].step # "saving"
    BY <1>6, GoingGoes, CommitSaves DEF Going, SavingInv
  <2>2. \A r \in Router : tunnel[r] # None => request[c].held.key # tunnel[r].key
    BY <1>6, CommitSaves DEF KeysDiffer
  <2>3. QED
    BY <1>6, <2>1, <2>2, CommitSaves DEF KeysDiffer
<1>7. ASSUME NEW c \in Call, delete_peer(c) \/ remove_marks(c) \/ remove_peer(c)
      PROVE  KeysDiffer'
  BY <1>1, <1>7 DEF delete_peer, remove_marks, remove_peer, Goes, TunnelsTypeOK, RequestStates, records
<1>8. CASE Retrying
  BY <1>1, <1>8 DEF Retrying, retry_selects, retry_removes, retry_fails, retry_crashes, retry_commits, records,
     TunnelsTypeOK
<1>9. CASE UNCHANGED tunnels
  BY <1>1, <1>9 DEF tunnels, records
<1>10. QED
  BY <1>2, <1>3, <1>4, <1>5, <1>6, <1>7, <1>8, <1>9, NextCases DEF Going

LEMMA GoneStep ==
  ASSUME Hypotheses, TunnelsTypeOK, RequestInv, AloneInv, ActiveInv, HeldInv, KeysDiffer, GoneInv,
         [TunnelsNext]_tunnels, ~Mishap
  PROVE  GoneInv'
<1>1. ASSUME peers' \subseteq peers, \A r \in Router : tunnel'[r] \in {tunnel[r], None},
             \A r \in Router : Gone(r)' => Gone(r)
      PROVE  GoneInv'
  BY <1>1 DEF GoneInv
<1>2. CASE UNCHANGED tunnels
  BY <1>1, <1>2 DEF Gone, tunnels, records, reaper
<1>3. ASSUME NEW c \in Call, NEW step \in BeginSteps, NEW r \in Router, Begins(c, step, r)
      PROVE  GoneInv'
  BY <1>1, <1>3 DEF TunnelsTypeOK, Gone, Begins, BeginSteps, records, reaper
<1>4. ASSUME NEW c \in Call, Ending(c)
      PROVE  \A r \in Router : Gone(r)' => Gone(r)
  BY <1>4, EndingEnds DEF Gone, NoRequest
<1>5. ASSUME NEW c \in Call, request_dies(c) \/ remove_fails(c) \/ Clearing(c)
      PROVE  GoneInv'
  <2>1. peers' \subseteq peers
    BY <1>5, ClearingClears DEF request_dies, remove_fails, Without
  <2>2. \A r \in Router : tunnel'[r] \in {tunnel[r], None}
    BY <1>5, ClearingClears DEF request_dies, remove_fails, RowKept, records
  <2>3. QED
    BY <1>1, <1>4, <1>5, <2>1, <2>2 DEF Ending
<1>6. ASSUME NEW c \in Call, add_peer(c)
      PROVE  GoneInv'
  <2>1. /\ request[c].step = "adding" /\ request[c].of \in Router /\ request[c].held \in Tunnel
        /\ tunnel[request[c].of] = request[c].held
    BY <1>6, OfARouter DEF add_peer, HeldInv, RequestInv
  <2>2. ~Gone(request[c].of)
    BY <2>1 DEF Gone, AloneInv, ActiveInv, Hypotheses
  <2>3. \A q \in Router : Gone(q)' => q # request[c].of /\ Gone(q)
    BY <1>4, <1>6, <2>2 DEF Ending
  <2>4. \A q \in Router \ {request[c].of} : tunnel[q] # None => tunnel[q].key # request[c].held.key
    BY <2>1 DEF KeysDiffer, Hypotheses
  <2>5. tunnel' = tunnel /\ \A p \in peers' : p \in peers \/ p = request[c].held
    BY <1>6 DEF add_peer, WithPeer, records
  <2>6. QED
    BY <2>3, <2>4, <2>5 DEF GoneInv
<1>7. ASSUME NEW c \in Call, setup_allocates(c) \/ remove_marks(c)
      PROVE  GoneInv'
  BY <1>1, <1>7 DEF Gone, setup_allocates, remove_marks, Goes, TunnelsTypeOK, RequestStates, records, reaper
<1>8. ASSUME NEW c \in Call, setup_commits(c)
      PROVE  GoneInv'
  <2>1. ~Gone(request[c].of)
    BY <1>8, CommitSaves DEF Gone, AloneInv, ActiveInv, Hypotheses
  <2>2. \A q \in Router : Gone(q)' => Gone(q)
    BY <1>8, GoingGoes, CommitSaves DEF Gone, Going
  <2>3. QED
    BY <1>8, <2>1, <2>2, CommitSaves DEF GoneInv
<1>9. ASSUME NEW c \in Call, delete_peer(c) \/ remove_peer(c)
      PROVE  GoneInv'
  <2>1. peers' = Without(request[c].held) /\ tunnel' = tunnel
    BY <1>9 DEF delete_peer, remove_peer, records
  <2>2. tunnel[request[c].of] # None => \A p \in peers' : p.key # tunnel[request[c].of].key
    BY <1>9, <2>1 DEF delete_peer, remove_peer, HeldInv, Without
  <2>3. \A q \in Router \ {request[c].of} : Gone(q)' => Gone(q)
    BY <1>9, GoingGoes DEF Gone, Going
  <2>4. QED
    BY <2>1, <2>2, <2>3 DEF GoneInv, Without
<1>10. CASE retry_selects \/ retry_crashes \/ retry_commits
  BY <1>1, <1>10 DEF Gone, retry_selects, retry_crashes, retry_commits, TunnelsTypeOK, records
<1>11. ASSUME NEW w \in reaping, retry_fails(w)
       PROVE  GoneInv'
  BY <1>1, <1>11 DEF Gone, retry_fails, Without, records
<1>12. ASSUME NEW w \in reaping, retry_removes(w)
       PROVE  GoneInv'
  <2>1. w.of \in Router /\ tunnel[w.of] \in {w.tunnel, None} /\ w.tunnel # None
    BY DEF HeldInv, TunnelsTypeOK, Hypotheses
  <2>2. tunnel' = tunnel /\ peers' = Without(w.tunnel)
    BY <1>12 DEF retry_removes, records
  <2>3. \A q \in Router \ {w.of} : Gone(q)' => Gone(q)
    BY <1>12 DEF Gone, retry_removes
  <2>4. QED
    BY <2>1, <2>2, <2>3 DEF GoneInv, Without
<1>13. QED
  BY <1>2, <1>3, <1>5, <1>6, <1>7, <1>8, <1>9, <1>10, <1>11, <1>12, NextCases DEF Ending, Going, Retrying

LEMMA RecordedStep ==
  ASSUME Hypotheses, TunnelsTypeOK, RequestInv, HeldInv, GoneInv, EveryPeerIsRecorded,
         [TunnelsNext]_tunnels
  PROVE  EveryPeerIsRecorded'
<1>1. ASSUME tunnel' = tunnel, \A p \in peers' : p \in peers \/ p \in Recorded
      PROVE  EveryPeerIsRecorded'
  BY <1>1 DEF EveryPeerIsRecorded, Recorded
<1>2. ASSUME peers' = peers, \A r \in Router : tunnel[r] # None => Gone(r) \/ tunnel'[r] = tunnel[r]
      PROVE  EveryPeerIsRecorded'
  BY <1>2 DEF EveryPeerIsRecorded, Recorded, GoneInv
<1>3. CASE UNCHANGED tunnels
  BY <1>1, <1>3 DEF tunnels, records
<1>4. ASSUME NEW c \in Call, NEW step \in BeginSteps, NEW r \in Router, Begins(c, step, r)
      PROVE  EveryPeerIsRecorded'
  BY <1>1, <1>4 DEF Begins, records
<1>5. ASSUME NEW c \in Call, Clearing(c)
      PROVE  EveryPeerIsRecorded'
  BY <1>2, <1>5, ClearingClears
<1>6. ASSUME NEW c \in Call, add_peer(c)
      PROVE  EveryPeerIsRecorded'
  <2>1. request[c].held \in Recorded
    BY <1>6, OfARouter DEF add_peer, HeldInv, RequestInv, Recorded, Hypotheses
  <2>2. QED
    BY <1>1, <1>6, <2>1 DEF add_peer, WithPeer, records
<1>7. ASSUME NEW c \in Call, setup_commits(c)
      PROVE  EveryPeerIsRecorded'
  BY <1>2, <1>7, CommitSaves DEF HeldInv
<1>8. ASSUME NEW c \in Call, \/ request_dies(c) \/ remove_fails(c) \/ setup_allocates(c)
                              \/ delete_peer(c) \/ remove_marks(c) \/ remove_peer(c)
      PROVE  EveryPeerIsRecorded'
  BY <1>1, <1>8 DEF request_dies, remove_fails, RowKept, setup_allocates, delete_peer, remove_marks, remove_peer,
     Without, records
<1>9. CASE retry_commits
  BY <1>2, <1>9 DEF retry_commits, Gone, TunnelsTypeOK
<1>10. CASE Retrying /\ ~retry_commits
  BY <1>1, <1>10 DEF Retrying, retry_selects, retry_removes, retry_fails, retry_crashes, Without, records
<1>11. QED
  BY <1>3, <1>4, <1>5, <1>6, <1>7, <1>8, <1>9, <1>10, NextCases DEF Ending, Going

-----------------------------------------------------------------------------
(* The theorems *)

LEMMA CleanStep ==
  ASSUME Hypotheses, Inv, [TunnelsNext]_tunnels, mishaps' = 0
  PROVE  CleanInv'
<1>1. TunnelsTypeOK /\ RequestInv /\ SavingInv /\ CleanInv /\ ~Mishap
  BY MishapsCount DEF Inv
<1>2. QED
  BY <1>1, AloneStep, ActiveStep, HeldStep, KeptStep, KeysStep, GoneStep, RecordedStep DEF CleanInv

\* The rows, the interface, the requests and the job stand in the relation the
\* invariant describes: in part always, in part until a mishap.
THEOREM TunnelInvariant ==
  ASSUME Hypotheses
  PROVE  TunnelsSpec => []Inv
<1>1. ASSUME TunnelsInit
      PROVE  Inv
  <2>1. TunnelsTypeOK
    BY <1>1 DEF Hypotheses, TunnelsInit, TunnelsTypeOK, NoRequest, RequestStates, RequestSteps
  <2>2. RequestInv /\ AllocationsDiffer /\ SavingInv
    BY <1>1 DEF TunnelsInit, RequestInv, AllocationsDiffer, SavingInv, NoRequest
  <2>3. AloneInv /\ ActiveInv /\ HeldInv /\ KeptInv /\ KeysDiffer
    BY <1>1 DEF TunnelsInit, AloneInv, ActiveInv, HeldInv, KeptInv, KeysDiffer, NoRequest
  <2>4. GoneInv /\ EveryPeerIsRecorded
    BY <1>1 DEF TunnelsInit, GoneInv, EveryPeerIsRecorded
  <2>5. QED
    BY <2>1, <2>2, <2>3, <2>4 DEF Inv, CleanInv
<1>2. Inv /\ [TunnelsNext]_tunnels => Inv'
  <2>1. SUFFICES ASSUME Inv, [TunnelsNext]_tunnels
                 PROVE  Inv'
    OBVIOUS
  <2>2. TunnelsTypeOK' /\ RequestInv' /\ AllocationsDiffer' /\ SavingInv'
    BY <2>1, TypeStep, RequestInvStep, AllocationStep DEF Inv
  <2>3. (mishaps = 0 => CleanInv)'
    BY <2>1, CleanStep
  <2>4. QED
    BY <2>2, <2>3 DEF Inv
<1>3. QED
  BY <1>1, <1>2, PTL DEF TunnelsSpec

\* A peer on the interface that no row records, or two rows with the same key or
\* address, come of a mishap: of two requests at once on one router, of the setup
\* of a removed router, or of a DELETE whose call the sidecar fails.  Nothing else
\* the sidecar, the requests or the job do brings them about.
THEOREM StrayPeersNeedAMishap ==
  ASSUME Hypotheses
  PROVE  TunnelsSpec => []NoStrayPeer
<1>1. ASSUME Inv, mishaps = 0
      PROVE  EveryPeerIsRecorded /\ TunnelsDiffer
  BY <1>1 DEF Inv, CleanInv, KeysDiffer, KeptInv, AllocationsDiffer, TunnelsDiffer, TunnelsTypeOK, Tunnel, Hypotheses
<1>2. Inv => NoStrayPeer
  BY <1>1 DEF NoStrayPeer
<1>3. QED
  BY <1>2, TunnelInvariant, PTL

\* No address is allocated to two routers, mishaps or not.
THEOREM AddressesDiffer ==
  ASSUME Hypotheses
  PROVE  TunnelsSpec => []AllocationsDiffer
<1>1. Inv => AllocationsDiffer
  BY DEF Inv
<1>2. QED
  BY <1>1, TunnelInvariant, PTL
==============================================================================
