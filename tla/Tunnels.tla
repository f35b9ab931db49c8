------------------------------- MODULE Tunnels -------------------------------
(***************************************************************************)
(* The WireGuard tunnels of the routers: the keys and addresses in the     *)
(* database, the peers on the server's wg0 interface, and the requests and *)
(* the job that keep the two in step across a sidecar that may not answer. *)
(*                                                                         *)
(* The requests lock nothing but the allocation of an address, so any of   *)
(* them may overlap, on the same router too; each goes by the row it       *)
(* loaded at its start, and writes only the columns it changed in it.      *)
(* Freeing an allocation and the commit that follows are one step, but in  *)
(* the job, which asks the sidecar about other routers in between.         *)
(*                                                                         *)
(* Bounds: as many requests under way as there are Calls; MaxCrashes       *)
(* deaths of the job; MaxMishaps of the three mishaps that nothing in the  *)
(* code guards against; the sidecar's saved peer list is never behind the  *)
(* interface.                                                              *)
(***************************************************************************)
EXTENDS Integers, FiniteSets

CONSTANTS Router, Key, Address,
          Call,         \* bound: the requests that may be under way at once
          MaxCrashes,   \* bound: the deaths of the job
          MaxMishaps,   \* bound: mishaps
          None

\* A tunnel is a peer's public key with the address it is allowed.
Tunnel == [key : Key, address : Address]

VARIABLES router_active,   \* Router.is_active
          tunnel,          \* Router's key and address columns
          allocated,       \* the addresses of wg_ip_allocations
          peers,           \* the peers of wg0
          request,         \* what each request is doing
          reaping,         \* the rows the job's retry has yet to try
          reaped,          \* those it has cleared and not committed
          reaper_crashes,
          mishaps          \* times something happened that nothing guards against

records == <<router_active, tunnel, allocated>>
reaper == <<reaping, reaped, reaper_crashes>>
tunnels == <<records, peers, request, reaper, mishaps>>

\* held: the tunnel the request loaded, or made.  inserts: it has added a row
\* to wg_ip_allocations.
RequestSteps ==
  {"none", "allocating", "saving", "adding", "deleting", "deleted", "marking", "removing", "removed"}
RequestStates ==
  [step : RequestSteps, of : Router \cup {None}, held : Tunnel \cup {None}, inserts : BOOLEAN]
NoRequest == [step |-> "none", of |-> None, held |-> None, inserts |-> FALSE]

TunnelsTypeOK ==
  /\ router_active \in [Router -> BOOLEAN]
  /\ tunnel \in [Router -> Tunnel \cup {None}]
  /\ allocated \in [Router -> Address \cup {None}]
  /\ peers \subseteq Tunnel
  /\ request \in [Call -> RequestStates]
  /\ reaping \subseteq [of : Router, tunnel : Tunnel]
  /\ reaped \subseteq [of : Router, frees : BOOLEAN]
  /\ reaper_crashes \in 0..MaxCrashes
  /\ mishaps \in 0..MaxMishaps

TunnelsInit ==
  /\ router_active = [r \in Router |-> TRUE]
  /\ tunnel = [r \in Router |-> None]
  /\ allocated = [r \in Router |-> None]
  /\ peers = {}
  /\ request = [c \in Call |-> NoRequest]
  /\ reaping = {} /\ reaped = {} /\ reaper_crashes = 0
  /\ mishaps = 0

-----------------------------------------------------------------------------
(* The sidecar: one peer per key, and one allowed address per peer.        *)

WithPeer(t) == {p \in peers : p.key # t.key} \cup {t}
Without(t) == IF t = None THEN peers ELSE {p \in peers : p.key # t.key}

Recorded == {tunnel[r] : r \in Router} \ {None}
FreeAddresses == Address \ {allocated[r] : r \in Router}
UsedKeys == {t.key : t \in (Recorded \cup peers \cup {request[c].held : c \in Call}) \ {None}}

\* The first free host of the network, unless the router has one already.
allocate_tunnel_ip(r) ==
  IF allocated[r] # None THEN allocated[r]
  ELSE CHOOSE a \in FreeAddresses : \A b \in FreeAddresses : a <= b

-----------------------------------------------------------------------------
(* Requests                                                                *)

UnderWay(r) == \E c \in Call : request[c].of = r

\* The three mishaps: a request begins while another is under way on the same
\* router, a removed router is set up, and the sidecar fails a DELETE's call.
Mishap ==
  /\ mishaps < MaxMishaps
  /\ mishaps' = mishaps + 1

\* A request loads the router's row.
Begins(c, step, r) ==
  /\ request[c] = NoRequest
  /\ request' = [request EXCEPT ![c] = [step |-> step, of |-> r, held |-> tunnel[r], inserts |-> FALSE]]
  /\ IF UnderWay(r) \/ (step \in {"allocating", "adding"} /\ ~router_active[r])
     THEN Mishap ELSE UNCHANGED mishaps
  /\ UNCHANGED <<records, peers, reaper>>

Goes(c, step) == request' = [request EXCEPT ![c].step = step]
Ends(c) == request' = [request EXCEPT ![c] = NoRequest]

\* A cancelled request, or a dead worker: what it has not committed is lost.
request_dies(c) ==
  /\ request[c] # NoRequest
  /\ Ends(c)
  /\ UNCHANGED <<records, peers, reaper, mishaps>>

-----------------------------------------------------------------------------
(* POST /routers/{id}/wireguard/setup                                      *)

setup_begins(c, r) ==
  Begins(c, IF tunnel[r] = None THEN "allocating" ELSE "adding", r)

\* A new keypair, and an address under the advisory lock, which is kept until
\* the commit.
setup_allocates(c) ==
  /\ request[c].step = "allocating"
  /\ \A d \in Call : request[d].step # "saving"
  /\ LET r == request[c].of
     IN  /\ allocated[r] # None \/ FreeAddresses # {}
         /\ Key \ UsedKeys # {}
         /\ request' = [request EXCEPT ![c] =
              [step |-> "saving", of |-> r,
               held |-> [key |-> CHOOSE k \in Key \ UsedKeys : TRUE, address |-> allocate_tunnel_ip(r)],
               inserts |-> allocated[r] = None]]
  /\ UNCHANGED <<records, peers, reaper, mishaps>>

setup_commits(c) ==
  /\ request[c].step = "saving"
  /\ LET r == request[c].of
         t == request[c].held
     IN  /\ tunnel' = [tunnel EXCEPT ![r] = t]
         /\ allocated' = [allocated EXCEPT ![r] = IF request[c].inserts THEN t.address ELSE @]
  /\ Goes(c, "adding")
  /\ UNCHANGED <<router_active, peers, reaper, mishaps>>

\* Added; or refused, or added by a call whose answer was lost (502: the
\* record stays and setup can be asked for again).
add_peer(c) ==
  /\ request[c].step = "adding"
  /\ peers' \in {peers, WithPeer(request[c].held)}
  /\ Ends(c)
  /\ UNCHANGED <<records, reaper, mishaps>>

-----------------------------------------------------------------------------
(* DELETE /routers/{id}/wireguard                                          *)

delete_begins(c, r) == Begins(c, "deleting", r)

\* Best effort: whatever the sidecar said, the row is cleared next.
delete_peer(c) ==
  /\ request[c].step = "deleting"
  /\ Goes(c, "deleted")
  /\ \/ peers' = Without(request[c].held) /\ UNCHANGED mishaps
     \/ request[c].held # None /\ Mishap /\ UNCHANGED peers
  /\ UNCHANGED <<records, reaper>>

\* The allocation, the columns and the commit of a request whose peer is gone
\* or forgotten.  An allocation the job has deleted and not committed is waited
\* for; columns that were null when the row was loaded are not written.
RowCleared(r, t) == [tunnel EXCEPT ![r] = IF t # None THEN None ELSE @]
RowKept(r, t) == tunnel
Clears(c) ==
  LET r == request[c].of
  IN  /\ [of |-> r, frees |-> TRUE] \notin reaped
      /\ allocated' = [allocated EXCEPT ![r] = None]
      /\ tunnel' = RowCleared(r, request[c].held)
      /\ Ends(c)
      /\ UNCHANGED <<router_active, peers, reaper, mishaps>>

delete_clears(c) == request[c].step = "deleted" /\ Clears(c)

-----------------------------------------------------------------------------
(* Removing a router: inactive first, the peer next, and the row only when *)
(* the peer is gone.                                                       *)

remove_begins(c, r) == router_active[r] /\ Begins(c, "marking", r)

remove_marks(c) ==
  /\ request[c].step = "marking"
  /\ Goes(c, "removing")
  /\ router_active' = [router_active EXCEPT ![request[c].of] = FALSE]
  /\ UNCHANGED <<tunnel, allocated, peers, reaper, mishaps>>

remove_peer(c) ==
  /\ request[c].step = "removing"
  /\ Goes(c, "removed")
  /\ peers' = Without(request[c].held)
  /\ UNCHANGED <<records, reaper, mishaps>>

\* The sidecar failed, or said so after it had removed the peer: the key stays
\* on the row for the job.
remove_fails(c) ==
  /\ request[c].step = "removing" /\ request[c].held # None
  /\ peers' \in {peers, Without(request[c].held)}
  /\ tunnel' = RowKept(request[c].of, request[c].held)
  /\ Ends(c)
  /\ UNCHANGED <<router_active, allocated, reaper, mishaps>>

removal_clears(c) == request[c].step = "removed" /\ Clears(c)

-----------------------------------------------------------------------------
(* _retry_incomplete_removals, every two minutes: the removed routers that *)
(* still have a key, one after the other, and one commit at the end.       *)

ActiveOnes == {r \in Router : router_active[r] /\ tunnel[r] # None}   \* mutant
Incomplete == {r \in Router : ~router_active[r] /\ tunnel[r] # None}

retry_selects ==
  /\ reaping = {} /\ reaped = {}
  /\ Incomplete # {}
  /\ reaping' = {[of |-> r, tunnel |-> tunnel[r]] : r \in Incomplete}
  /\ UNCHANGED <<records, peers, request, reaped, reaper_crashes, mishaps>>

retry_removes(w) ==
  /\ peers' = Without(w.tunnel)
  /\ reaped' = reaped \cup {[of |-> w.of, frees |-> allocated[w.of] # None]}
  /\ reaping' = reaping \ {w}
  /\ UNCHANGED <<records, request, reaper_crashes, mishaps>>

retry_fails(w) ==
  /\ peers' \in {peers, Without(w.tunnel)}
  /\ reaping' = reaping \ {w}
  /\ UNCHANGED <<records, request, reaped, reaper_crashes, mishaps>>

retry_commits ==
  /\ reaping = {} /\ reaped # {}
  /\ tunnel' = [r \in Router |-> IF \E w \in reaped : w.of = r THEN None ELSE tunnel[r]]
  /\ allocated' = [r \in Router |->
       IF [of |-> r, frees |-> TRUE] \in reaped THEN None ELSE allocated[r]]
  /\ reaped' = {}
  /\ UNCHANGED <<router_active, peers, request, reaping, reaper_crashes, mishaps>>

\* The worker dies, or a query fails: nothing of the run is kept.
retry_crashes ==
  /\ reaping # {} \/ reaped # {}
  /\ reaper_crashes < MaxCrashes
  /\ reaper_crashes' = reaper_crashes + 1
  /\ reaping' = {} /\ reaped' = {}
  /\ UNCHANGED <<records, peers, request, mishaps>>

-----------------------------------------------------------------------------
RequestStep(c) ==
  \/ \E r \in Router : setup_begins(c, r) \/ delete_begins(c, r) \/ remove_begins(c, r)
  \/ setup_allocates(c) \/ setup_commits(c) \/ add_peer(c)
  \/ delete_peer(c) \/ delete_clears(c)
  \/ remove_marks(c) \/ remove_peer(c) \/ remove_fails(c) \/ removal_clears(c)
  \/ request_dies(c)

TunnelsNext ==
  \/ \E c \in Call : RequestStep(c)
  \/ retry_selects \/ retry_commits \/ retry_crashes
  \/ \E w \in reaping : retry_removes(w) \/ retry_fails(w)

TunnelsSpec == TunnelsInit /\ [][TunnelsNext]_tunnels

\* The job comes round and ends; a sidecar that is tried for ever answers
\* again and again.
removes_for(r) == \E w \in reaping : w.of = r /\ retry_removes(w)
fails_for(r) == \E w \in reaping : w.of = r /\ retry_fails(w)
TunnelsFairness ==
  /\ WF_tunnels(retry_selects) /\ WF_tunnels(retry_commits)
  /\ \A r \in Router : SF_tunnels(removes_for(r)) /\ WF_tunnels(removes_for(r) \/ fails_for(r))

TunnelsFairSpec == TunnelsSpec /\ TunnelsFairness

-----------------------------------------------------------------------------
\* The peers on the interface and the rows tell one story: a peer is the tunnel
\* some row records, a row's address is allocated to it, and so no two routers
\* share an address.
EveryPeerIsRecorded == peers \subseteq Recorded
TunnelsDiffer ==
  \A r, q \in Router :
    r # q /\ tunnel[r] # None /\ tunnel[q] # None =>
      tunnel[r].key # tunnel[q].key /\ tunnel[r].address # tunnel[q].address

\* As long as the requests on one router come one after the other, none sets up
\* a removed router and the sidecar answers a DELETE's call, no removed router
\* keeps a way in and no address is handed out twice, wherever a setup, a
\* removal or the job's retry fails or dies.
NoStrayPeer == mishaps = 0 => EveryPeerIsRecorded /\ TunnelsDiffer

\* An address is not allocated while a peer on the interface still has it: a
\* removal that failed keeps its key, which "stops the freed IP from being handed
\* to a new router while a stale peer might still exist on the live interface
\* under the old router's key" (mikrotik/removal.py).
FreedAddressHasNoPeer ==
  [][\A r \in Router : allocated[r] = None /\ allocated'[r] # None =>
       \A p \in peers : p.address # allocated'[r]]_tunnels

\* A removal the sidecar could not finish is finished later: the removed
\* router's row lets go of its key and address.
RemovalCompletes ==
  \A r \in Router :
    ~router_active[r] /\ tunnel[r] # None ~> tunnel[r] = None
==============================================================================
