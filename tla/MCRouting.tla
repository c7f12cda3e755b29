------------------------------ MODULE MCRouting ------------------------------
(* Small instances of CallRouting: every agent is a member of every queue, *)
(* and the two queues overflow into one another.                           *)
EXTENDS CallRouting, TLC

CONSTANTS q1, q2

AllMembers == [q \in Queues |-> Agents]
Loop == (q1 :> q2) @@ (q2 :> q1)

AgentSymmetry == Permutations(Agents)
=============================================================================
