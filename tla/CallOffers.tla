----------------------------- MODULE CallOffers -----------------------------
(***************************************************************************)
(* What routing promises about inbound calls and the agents they are       *)
(* offered to, with nothing of how it is done: no rows, guards, workers or *)
(* histories.  A call waits, is offered to one agent at a time, is taken,  *)
(* is connected and ends; an agent is never rung for two calls at once.    *)
(* CallRouting implements it.                                              *)
(***************************************************************************)
CONSTANTS Calls, Agents, None

VARIABLES phase,  \* new, waiting, offered, answering, connected or ended
          who     \* the agent each call is with, or None

vars == <<phase, who>>

Init == /\ phase = [c \in Calls |-> "new"]
        /\ who = [c \in Calls |-> None]

Moves(c, from, to) == /\ phase[c] \in from
                      /\ phase' = [phase EXCEPT ![c] = to]

Arrive(c) == Moves(c, {"new"}, "waiting") /\ UNCHANGED who

(* One agent at a time, and only one that no other call is ringing.        *)
Offer(c, a) == /\ \A o \in Calls : phase[o] = "offered" => who[o] # a
               /\ Moves(c, {"waiting"}, "offered")
               /\ who' = [who EXCEPT ![c] = a]

(* Only a ringing offer can be taken back, never a call being answered.    *)
TakeBack(c) == /\ Moves(c, {"offered"}, "waiting")
               /\ who' = [who EXCEPT ![c] = None]

(* The offered agent starts to answer; a call offered to everyone at once  *)
(* (RING_ALL) is taken by whoever comes first.                             *)
Take(c, a) == /\ phase[c] = "offered" => who[c] = a
              /\ Moves(c, {"waiting", "offered"}, "answering")
              /\ who' = [who EXCEPT ![c] = a]

Connect(c) == Moves(c, {"answering"}, "connected") /\ UNCHANGED who

End(c) == /\ Moves(c, {"waiting", "offered", "answering", "connected"}, "ended")
          /\ UNCHANGED who

Next == \E c \in Calls : \/ Arrive(c) \/ TakeBack(c) \/ Connect(c) \/ End(c)
                         \/ \E a \in Agents : Offer(c, a) \/ Take(c, a)

Spec == Init /\ [][Next]_vars
=============================================================================
