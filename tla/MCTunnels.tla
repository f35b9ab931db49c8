------------------------------ MODULE MCTunnels ------------------------------
(* Tunnels on a small instance: requests that overlap on a router, and a     *)
(* sidecar that fails a DELETE (Tunnels_stray.cfg).  MCParts has its other   *)
(* run.                                                                      *)
EXTENDS Tunnels
==============================================================================
