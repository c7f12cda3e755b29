--------------------------- MODULE MCConsumerEvents ---------------------------
(* Two workers that both see the transition and both may dispatch.         *)
EXTENDS ConsumerEvents, TLC
CONSTANTS w1, w2
================================================================================
