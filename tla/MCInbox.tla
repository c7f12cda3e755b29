------------------------------- MODULE MCInbox -------------------------------
(* A call that one worker sets up and another takes over.                    *)
EXTENDS CallInbox
CONSTANTS w1, w2
==============================================================================
