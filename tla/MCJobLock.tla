------------------------------ MODULE MCJobLock ------------------------------
(* JobLock on two ticks that may run longer than their key stands; ticks    *)
(* that do not are in MCParts.                                              *)
EXTENDS JobLock
==============================================================================
