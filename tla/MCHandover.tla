----------------------------- MODULE MCHandover -----------------------------
(* A call and two agents.                                                  *)
EXTENDS CallHandover
CONSTANTS a1, a2
=============================================================================
