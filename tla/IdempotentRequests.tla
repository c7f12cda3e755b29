-------------------------- MODULE IdempotentRequests --------------------------
(***************************************************************************)
(* A consumer's POST with an Idempotency-Key, sent again until it is       *)
(* answered (http/v1/idempotency.js over api_idempotency_keys).  Several   *)
(* requests with the key are on their way through the workers at once, a   *)
(* worker may die under one, its answer may fail to be stored, and a       *)
(* request may take longer than anybody thought.                           *)
(***************************************************************************)
EXTENDS Naturals, FiniteSets

CONSTANTS
    Requests,     \* the requests that can be under way at once
    Bodies,       \* what they ask for
    Repeated,     \* the body that is sent until it is answered
    None,
    MaxFaults,    \* bound: deaths, 5xx answers, failed stores, slow requests
    MaxExpiries   \* bound: keys that outlive their 24 hours

ASSUME RequestsAssumption == IsFiniteSet(Requests)
ASSUME BodiesAssumption == Repeated \in Bodies /\ None \notin Bodies
ASSUME BoundsAssumption == MaxFaults \in Nat /\ MaxExpiries \in Nat

VARIABLES
    row,          \* of the key in api_idempotency_keys
    lastId,       \* its ids count up
    request,      \* the requests under way
    effects,      \* how often the operation has been carried out
    answers,      \* the 2xx and 4xx answers given since the key last expired
    runs,         \* how often a handler has run
    excused,      \* effects whose answer nobody stored
    overlaps,     \* answers that were not stored, came too late or expired
    faults, expiries

vars == <<row, lastId, request, effects, answers, runs, excused, overlaps, faults, expiries>>
account == <<effects, answers, runs, excused, overlaps>>
bounds == <<faults, expiries>>

NoRow == [id |-> 0, body |-> None, status |-> "NONE", answer |-> 0,
          idle |-> FALSE, expired |-> FALSE]
Nobody == [at |-> "none", body |-> None, tries |-> 0, id |-> 0, run |-> 0,
           code |-> "none", effect |-> FALSE, late |-> FALSE]

Runs(i) == request[i].at \in {"run", "store"}

Rows == [id : 0 .. lastId, body : Bodies \cup {None}, answer : 0 .. runs,
         status : {"NONE", "IN_PROGRESS", "COMPLETED"}, idle : BOOLEAN, expired : BOOLEAN]
Underway == [at : {"none", "claim", "find", "remove", "takeOver", "run", "store"},
             body : Bodies \cup {None}, tries : 0 .. 1, id : 0 .. lastId, run : 0 .. runs,
             code : {"none", "final", "5xx"}, effect : BOOLEAN, late : BOOLEAN]

TypeOK ==
    /\ lastId \in Nat /\ runs \in Nat /\ effects \in Nat /\ excused \in Nat /\ overlaps \in Nat
    /\ row \in Rows /\ request \in [Requests -> Underway] /\ answers \subseteq 1 .. runs
    /\ (row.id = 0) <=> (row = NoRow)
    /\ (row.status = "COMPLETED") <=> (row.answer # 0)
    /\ \A i \in Requests : Runs(i) => request[i].run # 0 /\ request[i].id # 0
    /\ faults \in 0 .. MaxFaults /\ expiries \in 0 .. MaxExpiries

Init ==
    /\ row = NoRow /\ lastId = 0 /\ request = [i \in Requests |-> Nobody]
    /\ effects = 0 /\ answers = {} /\ runs = 0 /\ excused = 0 /\ overlaps = 0
    /\ faults = 0 /\ expiries = 0

At(i, at) == request[i].at = at
Goto(i, at) == request' = [request EXCEPT ![i].at = at]
Leaves(i) == request' = [request EXCEPT ![i] = Nobody]
Starts(i, id) ==
    /\ runs' = runs + 1
    /\ request' = [request EXCEPT ![i].at = "run", ![i].id = id, ![i].run = runs + 1]
    /\ UNCHANGED <<effects, answers, excused, overlaps>>
Fault == faults < MaxFaults /\ faults' = faults + 1 /\ UNCHANGED expiries

-----------------------------------------------------------------------------
Send(i, body) ==
    /\ At(i, "none")
    /\ request' = [request EXCEPT ![i] = [Nobody EXCEPT !.at = "claim", !.body = body]]
    /\ UNCHANGED <<row, lastId, account, bounds>>

Claim(i) ==
    /\ At(i, "claim")
    /\ IF row = NoRow
       THEN /\ lastId' = lastId + 1
            /\ row' = [NoRow EXCEPT !.id = lastId + 1, !.body = request[i].body,
                                    !.status = "IN_PROGRESS"]
            /\ Starts(i, lastId + 1)
       ELSE Goto(i, "find") /\ UNCHANGED <<row, lastId, account>>
    /\ UNCHANGED bounds

(* Once more from the start, or 409: a request claims at most twice.       *)
Again(i) ==
    IF request[i].tries = 0
    THEN request' = [request EXCEPT ![i].at = "claim", ![i].tries = 1]
    ELSE Leaves(i)

(* Fault: a key in progress is never anything but in use.                  *)
FindInUse(i) ==
    /\ At(i, "find")
    /\ CASE row = NoRow -> Again(i) /\ UNCHANGED answers
         [] row.expired -> /\ request' = [request EXCEPT ![i].at = "remove", ![i].id = row.id]
                           /\ UNCHANGED answers
         [] OTHER -> Leaves(i) /\ UNCHANGED answers
    /\ UNCHANGED <<row, lastId, effects, runs, excused, overlaps, bounds>>

(* What becomes of the request depends on the row it finds: another body's *)
(* key is 422, one in progress is 409, a stored answer is replayed.        *)
Find(i) ==
    /\ At(i, "find")
    /\ LET goes(at) == request' = [request EXCEPT ![i].at = at, ![i].id = row.id]
           same == row.body = request[i].body
       IN  CASE row = NoRow -> Again(i) /\ UNCHANGED answers
             [] row.expired -> goes("remove") /\ UNCHANGED answers
             [] ~row.expired /\ same /\ row.status = "COMPLETED" ->
                    Leaves(i) /\ answers' = answers \cup {row.answer}
             [] ~row.expired /\ same /\ row.status = "IN_PROGRESS" /\ row.idle ->
                    goes("takeOver") /\ UNCHANGED answers
             [] OTHER -> Leaves(i) /\ UNCHANGED answers
    /\ UNCHANGED <<row, lastId, effects, runs, excused, overlaps, bounds>>

(* Fault: the expired row is removed by its key.                           *)
RemoveByKey(i) ==
    /\ At(i, "remove")
    /\ row' = NoRow /\ Again(i)
    /\ UNCHANGED <<lastId, account, bounds>>

Remove(i) ==
    /\ At(i, "remove")
    /\ row' = IF row.id = request[i].id THEN NoRow ELSE row
    /\ Again(i)
    /\ UNCHANGED <<lastId, account, bounds>>

TakeOver(i) ==
    /\ At(i, "takeOver")
    /\ IF row.id = request[i].id /\ row.status = "IN_PROGRESS" /\ row.idle
       THEN row' = [row EXCEPT !.idle = FALSE] /\ Starts(i, row.id)
       ELSE Leaves(i) /\ UNCHANGED <<row, account>>
    /\ UNCHANGED <<lastId, bounds>>

(* The route's handler: it answers 2xx with its effect, 4xx without one,   *)
(* or fails with or without it.                                            *)
Run(i) ==
    /\ At(i, "run")
    /\ \E effect \in BOOLEAN, code \in {"final", "5xx"} :
        /\ request' = [request EXCEPT ![i].at = "store", ![i].code = code, ![i].effect = effect]
        /\ effects' = IF effect THEN effects + 1 ELSE effects
        /\ excused' = IF effect /\ code = "5xx" THEN excused + 1 ELSE excused
        /\ IF code = "5xx" THEN Fault ELSE UNCHANGED bounds
    /\ UNCHANGED <<row, lastId, answers, runs, overlaps>>

Stored(i) ==
    IF row.id # request[i].id THEN row
    ELSE IF request[i].code = "5xx" THEN NoRow
    ELSE [row EXCEPT !.status = "COMPLETED", !.answer = request[i].run, !.idle = FALSE]

(* Fault: the answer is sent and not stored: the key looks abandoned.      *)
StoreNothing(i) ==
    /\ At(i, "store") /\ Leaves(i)
    /\ answers' = IF request[i].code = "5xx" THEN answers ELSE answers \cup {request[i].run}
    /\ row' = [row EXCEPT !.idle = TRUE]
    /\ UNCHANGED <<lastId, effects, runs, excused, overlaps, bounds>>

(* The answer is stored, or the key freed, before the answer is sent; one  *)
(* that cannot be stored is sent all the same.                             *)
Store(i) ==
    /\ At(i, "store") /\ Leaves(i)
    /\ answers' = IF request[i].code = "5xx" THEN answers ELSE answers \cup {request[i].run}
    /\ \/ row' = Stored(i) /\ UNCHANGED <<excused, overlaps, bounds>>
       \/ /\ Fault /\ overlaps' = overlaps + 1
          /\ excused' = IF request[i].effect /\ request[i].code # "5xx" THEN excused + 1
                        ELSE excused
          /\ UNCHANGED row
    /\ UNCHANGED <<lastId, effects, runs>>

-----------------------------------------------------------------------------
(* The worker dies under the request.                                      *)
Die(i) ==
    /\ request[i].at # "none" /\ Fault /\ Leaves(i)
    /\ excused' = IF request[i].effect /\ request[i].code # "5xx" THEN excused + 1 ELSE excused
    /\ UNCHANGED <<row, lastId, effects, answers, runs, overlaps>>

Owners == {i \in Requests : Runs(i) /\ request[i].id = row.id /\ ~request[i].late}

(* Two minutes pass: the row's handler is gone, or late.                   *)
Idle ==
    /\ row.status = "IN_PROGRESS" /\ ~row.idle
    /\ row' = [row EXCEPT !.idle = TRUE]
    /\ \/ Owners = {} /\ UNCHANGED <<request, excused, overlaps, faults>>
       \/ /\ Owners # {} /\ faults < MaxFaults /\ faults' = faults + 1
          /\ request' = [i \in Requests |->
                 IF i \in Owners THEN [request[i] EXCEPT !.late = TRUE] ELSE request[i]]
          /\ excused' = excused + 1 /\ overlaps' = overlaps + 1
    /\ UNCHANGED <<lastId, effects, answers, runs, expiries>>

(* A day passes: nobody still handles a request of the day before.         *)
Expire ==
    /\ row # NoRow /\ ~row.expired /\ expiries < MaxExpiries
    /\ \A i \in Requests : ~Runs(i)
    /\ row' = [row EXCEPT !.expired = TRUE] /\ expiries' = expiries + 1
    /\ answers' = {}
    /\ excused' = excused + 1 /\ overlaps' = overlaps + 1
    /\ UNCHANGED <<lastId, request, effects, runs, faults>>

Purge ==
    /\ row.expired /\ row' = NoRow
    /\ UNCHANGED <<lastId, request, account, bounds>>

-----------------------------------------------------------------------------
Step(i) == Claim(i) \/ Find(i) \/ Remove(i) \/ TakeOver(i) \/ Run(i) \/ Store(i)

Next ==
    \/ \E i \in Requests : \/ Step(i) \/ Die(i)
                           \/ \E body \in Bodies : Send(i, body)
    \/ Idle \/ Expire \/ Purge

(* The consumer goes on asking, the workers go on, and time passes.        *)
Fairness ==
    /\ \A i \in Requests : WF_vars(Step(i))
    /\ SF_vars(\E i \in Requests : Send(i, Repeated) /\ row.status = "IN_PROGRESS" /\ row.idle)
    /\ WF_vars(Idle /\ Owners = {})

Spec == Init /\ [][Next]_vars /\ Fairness

-----------------------------------------------------------------------------
(* Nothing runs twice: beyond the first, every effect is one whose answer  *)
(* was lost, was a 5xx, came minutes late, or had expired (docs: "Nothing  *)
(* runs twice").                                                           *)
NothingRunsTwice == effects <= 1 + excused

(* Whoever gets an answer gets the same one, until the key expires.        *)
SameAnswer == Cardinality(answers) <= 1 + overlaps

(* A key whose request never finished can be used again: while its own     *)
(* request is repeated it is not in progress for good.                     *)
KeyIsSettled ==
    (row.status = "IN_PROGRESS" /\ row.body = Repeated) ~> (row.status # "IN_PROGRESS")

-----------------------------------------------------------------------------
(* The inductive invariant: every handler that runs, and every one that    *)
(* the row would let begin, has its effect and its answer in the account.  *)

Running == {i \in Requests : Runs(i)}

(* Those whose run has no effect, or none yet, or one that is excused.     *)
Unspent == {i \in Running : request[i].effect /\ ~At(i, "run") => request[i].code = "5xx"}

(* How many handlers the row may let begin before the next excuse.         *)
Openings ==
    IF row = NoRow THEN 1
    ELSE (IF row.expired THEN 1 ELSE 0)
         + (IF row.status = "IN_PROGRESS" /\ Owners = {} THEN 1 ELSE 0)

EffectsAccounted == effects + Cardinality(Unspent) + Openings <= 1 + excused
AnswersAccounted == Cardinality(answers) + Cardinality(Running) + Openings <= 1 + overlaps

(* A key that looks abandoned has no handler; what is replayed was given;  *)
(* only expired rows are removed; only a handler that runs is late.        *)
RowConsistent ==
    /\ row.idle => row.status = "IN_PROGRESS" /\ Owners = {}
    /\ row.status = "COMPLETED" /\ ~row.expired => row.answer \in answers
    /\ \A i \in Requests :
          /\ request[i].at = "remove" => request[i].id # 0
          /\ request[i].at = "remove" /\ request[i].id = row.id => row.expired
          /\ request[i].late => Runs(i)

IInv == TypeOK /\ RowConsistent /\ EffectsAccounted /\ AnswersAccounted

=============================================================================
