----------------------------- MODULE MCIdempotency -----------------------------
(* Two requests with one key, one of which may ask for something else.     *)
EXTENDS IdempotentRequests
CONSTANTS r1, r2, call, message
================================================================================
