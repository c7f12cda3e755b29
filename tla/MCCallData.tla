------------------------------ MODULE MCCallData ------------------------------
(* Two calls of one customer, a request that may be made again when it is  *)
(* refused, and the sweep beside it.  One call is recorded while requests  *)
(* are made; both may be where the customer's request came before them.    *)
EXTENDS CallData
CONSTANTS r1
MCInit == Init /\ (request[r1].at = "none" => recorder[2] = "over")
MCSpec == MCInit /\ [][Next]_vars /\ Fairness
================================================================================
