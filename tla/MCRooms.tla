------------------------------- MODULE MCRooms -------------------------------
(* Two agents and a supervisor around one call, two handlers at a time. *)
EXTENDS CallRooms, TLC
CONSTANTS a1, a2, s1
MCSlots == 1 .. 2
==============================================================================
