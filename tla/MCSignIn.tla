------------------------------ MODULE MCSignIn ------------------------------
(* SignIn on a small instance, with PIN requests that overlap                *)
(* (SignIn_pins.cfg).  MCParts has the run in which they do not.             *)
EXTENDS SignIn
==============================================================================
