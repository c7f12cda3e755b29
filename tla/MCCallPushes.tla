---------------------------- MODULE MCCallPushes ----------------------------
(* Two members of a queue, an iPhone and an Android phone.                 *)
EXTENDS CallPushes, TLC

CONSTANTS a1, a2, iphone, android

MCHome == (iphone :> a1) @@ (android :> a2)
=============================================================================
