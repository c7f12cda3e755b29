---------------------- MODULE IdempotentRequestsProofs ----------------------
(***************************************************************************)
(* Theorems about IdempotentRequests, for every finite number of requests, *)
(* all bodies and every bound.                                             *)
(***************************************************************************)
EXTENDS IdempotentRequests, FiniteSetTheorems, TLAPS

USE RequestsAssumption, BodiesAssumption, BoundsAssumption

-----------------------------------------------------------------------------
(* The two accounts count finite sets.                                     *)

(* What the accounts count is finite.                                      *)
LEMMA AccountsFinite ==
    ASSUME TypeOK
    PROVE  /\ IsFiniteSet(Running) /\ Cardinality(Running) \in Nat
           /\ IsFiniteSet(Unspent) /\ Cardinality(Unspent) \in Nat
           /\ IsFiniteSet(answers) /\ Cardinality(answers) \in Nat
           /\ Openings \in Nat
  <1>1. Running \in SUBSET Requests /\ Unspent \in SUBSET Requests
    BY DEF Running, Unspent
  <1>2. IsFiniteSet(Running) /\ IsFiniteSet(Unspent)
    BY <1>1, FS_Subset
  <1>3. IsFiniteSet(1 .. runs)
    BY FS_Interval DEF TypeOK
  <1>4. IsFiniteSet(answers)
    BY <1>3, FS_Subset DEF TypeOK
  <1>5. Openings \in Nat
    BY DEF Openings
  <1> QED
    BY <1>2, <1>4, <1>5, FS_CardinalityType

(* A finite set grows by one element at most ...                           *)
LEMMA OneMore ==
    ASSUME NEW S, IsFiniteSet(S), NEW x
    PROVE  /\ Cardinality(S \cup {x}) \in Nat /\ Cardinality(S) \in Nat
           /\ Cardinality(S \cup {x}) <= Cardinality(S) + 1
           /\ x \notin S => Cardinality(S \cup {x}) = Cardinality(S) + 1
  <1>1. /\ IsFiniteSet(S \cup {x})
        /\ Cardinality(S \cup {x}) = IF x \in S THEN Cardinality(S) ELSE Cardinality(S) + 1
    BY FS_AddElement
  <1>2. Cardinality(S) \in Nat /\ Cardinality(S \cup {x}) \in Nat
    BY <1>1, FS_CardinalityType
  <1> QED
    BY <1>1, <1>2

(* ... and shrinks by one if it had the element.                           *)
LEMMA OneLess ==
    ASSUME NEW S, IsFiniteSet(S), NEW x \in S
    PROVE  /\ Cardinality(S \ {x}) \in Nat /\ Cardinality(S) \in Nat
           /\ Cardinality(S \ {x}) = Cardinality(S) - 1
  BY FS_RemoveElement, FS_CardinalityType

-----------------------------------------------------------------------------
(* What the accounts see of a request that starts, and of one that leaves. *)

(* A request that is under way without a handler is in no account.         *)
LEMMA NoHandler ==
    ASSUME TypeOK, NEW i \in Requests, NEW r, ~Runs(i),
           request' = [request EXCEPT ![i] = r], r.at \notin {"run", "store"}
    PROVE  /\ Running' = Running /\ Unspent' = Unspent
           /\ row'.id = row.id => Owners' = Owners
  <1>1. \A j \in Requests \ {i} : request'[j] = request[j]
    BY DEF TypeOK
  <1>2. request'[i] = r
    BY DEF TypeOK
  <1>3. \A j \in Requests : Runs(j)' <=> Runs(j)
    BY <1>1, <1>2 DEF Runs
  <1>4. Running' = Running
    BY <1>3 DEF Running
  <1>5. \A j \in Running : request'[j] = request[j]
    BY <1>1 DEF Running
  <1> QED
    BY <1>3, <1>4, <1>5 DEF Unspent, Owners, At, Running

(* Starts(i, id) adds a handler that owns the row with that id.            *)
LEMMA StartsHandler ==
    ASSUME TypeOK, NEW i \in Requests, ~Runs(i), ~request[i].late, NEW id, Starts(i, id)
    PROVE  /\ Running' = Running \cup {i} /\ i \notin Running
           /\ Unspent' = Unspent \cup {i} /\ i \notin Unspent
           /\ row'.id = id => i \in Owners'
  <1>1. \A j \in Requests \ {i} : request'[j] = request[j]
    BY DEF TypeOK, Starts
  <1>2. request'[i] = [request[i] EXCEPT !.at = "run", !.id = id, !.run = runs + 1]
    BY DEF TypeOK, Starts
  <1>3. request'[i].at = "run" /\ request'[i].id = id /\ request'[i].late = FALSE
    BY <1>2 DEF TypeOK, Underway
  <1>4. Running' = Running \cup {i} /\ i \notin Running
    BY <1>1, <1>3 DEF Running, Runs
  <1>5. Unspent' = Unspent \cup {i} /\ i \notin Unspent
    BY <1>1, <1>3, <1>4 DEF Unspent, At, Running
  <1> QED
    BY <1>3, <1>4, <1>5 DEF Owners, Runs

(* Leaves(i) takes the handler out of the accounts.                        *)
LEMMA HandlerLeaves ==
    ASSUME TypeOK, NEW i \in Requests, Runs(i), Leaves(i)
    PROVE  /\ Running' = Running \ {i} /\ i \in Running
           /\ Unspent' = Unspent \ {i}
           /\ row'.id = row.id /\ request[i].id # row.id => Owners' = Owners
  <1>1. \A j \in Requests \ {i} : request'[j] = request[j]
    BY DEF TypeOK, Leaves
  <1>2. request'[i].at = "none"
    BY DEF TypeOK, Leaves, Nobody
  <1>3. Running' = Running \ {i} /\ i \in Running
    BY <1>1, <1>2 DEF Running, Runs
  <1>4. Unspent' = Unspent \ {i}
    BY <1>1, <1>3 DEF Unspent, At, Running
  <1> QED
    BY <1>1, <1>2, <1>3, <1>4 DEF Owners, Runs

-----------------------------------------------------------------------------
(* The steps.                                                              *)

(* Nothing has been sent yet.                                              *)
LEMMA InitStep == Init => IInv
  <1> SUFFICES ASSUME Init PROVE IInv
    OBVIOUS
  <1>1. TypeOK
    BY DEF Init, TypeOK, Rows, Underway, NoRow, Nobody, Runs
  <1>2. Running = {} /\ Unspent = {} /\ Openings = 1 /\ answers = {}
    BY DEF Init, Running, Unspent, Openings, Runs, Nobody
  <1>3. EffectsAccounted /\ AnswersAccounted
    BY <1>2, FS_EmptySet DEF Init, EffectsAccounted, AnswersAccounted
  <1>4. RowConsistent
    BY DEF Init, RowConsistent, NoRow, Nobody
  <1> QED
    BY <1>1, <1>3, <1>4 DEF IInv

(* A request without a handler changes neither account as long as the row  *)
(* lets no further handler begin (Send, and what a request does on its     *)
(* way to a handler or away).                                              *)
LEMMA AccountsKept ==
    ASSUME IInv, Running' = Running, Unspent' = Unspent, Openings' \in Nat, Openings' <= Openings,
           UNCHANGED <<effects, excused, overlaps, answers>>
    PROVE  EffectsAccounted' /\ AnswersAccounted'
  <1> USE AccountsFinite DEF IInv
  <1>1. EffectsAccounted'
    BY DEF EffectsAccounted, TypeOK
  <1>2. AnswersAccounted'
    BY DEF AnswersAccounted, TypeOK
  <1> QED
    BY <1>1, <1>2

(* ... and RowConsistent, if it does not come to remove a row.             *)
LEMMA RequestConsistent ==
    ASSUME IInv, NEW i \in Requests, NEW r, request' = [request EXCEPT ![i] = r],
           ~r.late, r.at = "remove" => r.id # 0 /\ (r.id = row.id => row.expired),
           Owners' = Owners, answers \subseteq answers', UNCHANGED row
    PROVE  RowConsistent'
  <1>1. \A j \in Requests \ {i} : request'[j] = request[j]
    BY DEF IInv, TypeOK
  <1>2. request'[i] = r /\ (r.late => FALSE)
    BY DEF IInv, TypeOK
  <1>3. \A j \in Requests : /\ request'[j].at = "remove" => request'[j].id # 0
                            /\ request'[j].at = "remove" /\ request'[j].id = row.id => row.expired
                            /\ request'[j].late => Runs(j)'
    BY <1>1, <1>2 DEF IInv, RowConsistent, Runs
  <1> QED
    BY <1>3 DEF IInv, RowConsistent

(* Again(i) claims once more or leaves.                                    *)
LEMMA AgainRequest ==
    ASSUME TypeOK, RowConsistent, NEW i \in Requests, ~Runs(i), Again(i)
    PROVE  \E r \in Underway : /\ request' = [request EXCEPT ![i] = r]
                               /\ r.at \in {"none", "claim"} /\ ~r.late
  <1>1. CASE request[i].tries = 0
    <2> DEFINE r == [request[i] EXCEPT !.at = "claim", !.tries = 1]
    <2>1. request' = [request EXCEPT ![i] = r]
      BY <1>1 DEF Again
    <2>2. request[i] \in Underway /\ ~request[i].late
      BY DEF TypeOK, RowConsistent
    <2>3. 1 \in 0 .. 1
      OBVIOUS
    <2>4. r \in Underway /\ r.at = "claim"
      BY <2>2, <2>3 DEF Underway
    <2>5. r.late = request[i].late
      BY <2>2 DEF Underway
    <2> QED
      BY <2>1, <2>2, <2>4, <2>5
  <1>2. CASE request[i].tries # 0
    <2>1. request' = [request EXCEPT ![i] = Nobody]
      BY <1>2 DEF Again, Leaves
    <2>2. Nobody \in Underway /\ Nobody.at = "none" /\ ~Nobody.late
      BY DEF TypeOK, Underway, Nobody
    <2> QED
      BY <2>1, <2>2
  <1> QED
    BY <1>1, <1>2

(* A step of one request without a handler, which leaves the row alone and *)
(* gives at most an answer that was given before.                          *)
LEMMA QuietStep ==
    ASSUME IInv, NEW i \in Requests, ~Runs(i), NEW r \in Underway,
           request' = [request EXCEPT ![i] = r],
           r.at \notin {"run", "store"}, ~r.late,
           r.at = "remove" => r.id # 0 /\ (r.id = row.id => row.expired),
           UNCHANGED <<row, lastId, effects, runs, excused, overlaps, answers, faults, expiries>>
    PROVE  IInv'
  <1>1. TypeOK'
    <2>1. request' \in [Requests -> Underway']
      BY DEF IInv, TypeOK, Underway
    <2>2. \A j \in Requests : Runs(j)' => Runs(j) /\ request'[j] = request[j]
      BY DEF IInv, TypeOK, Runs
    <2> QED
      BY <2>1, <2>2 DEF IInv, TypeOK, Rows
  <1>2. Running' = Running /\ Unspent' = Unspent /\ Owners' = Owners
    BY NoHandler DEF IInv
  <1>3. Openings' = Openings
    BY <1>2 DEF Openings
  <1>4. EffectsAccounted' /\ AnswersAccounted'
    BY <1>2, <1>3, AccountsFinite, AccountsKept DEF IInv
  <1>5. RowConsistent'
    BY <1>2, RequestConsistent
  <1> QED
    BY <1>1, <1>4, <1>5 DEF IInv

(* A request comes in.                                                     *)
LEMMA SendStep ==
    ASSUME IInv, NEW i \in Requests, NEW body \in Bodies, Send(i, body)
    PROVE  IInv'
  <1> DEFINE r == [Nobody EXCEPT !.at = "claim", !.body = body]
  <1>1. request' = [request EXCEPT ![i] = r] /\ ~Runs(i)
    BY DEF Send, At, Runs
  <1>2. Nobody \in Underway /\ Nobody.late = FALSE
    BY DEF IInv, TypeOK, Underway, Nobody
  <1>3. r \in Underway /\ r.at = "claim" /\ r.late = Nobody.late
    BY <1>2 DEF IInv, TypeOK, Underway
  <1>4. UNCHANGED <<row, lastId, effects, runs, excused, overlaps, answers, faults, expiries>>
    BY DEF Send, account, bounds
  <1> QED
    BY <1>1, <1>2, <1>3, <1>4, QuietStep DEF IInv, TypeOK

(* A request finds the key taken: it is answered, turned away, or goes on. *)
LEMMA FindStep ==
    ASSUME IInv, NEW i \in Requests, Find(i)
    PROVE  IInv'
  <1> DEFINE goes(at) == [request[i] EXCEPT !.at = at, !.id = row.id]
  <1>1. ~Runs(i) /\ request[i] \in Underway /\ ~request[i].late
    BY DEF Find, At, Runs, IInv, TypeOK, RowConsistent
  <1>2. answers' = answers
    BY DEF Find, IInv, RowConsistent
  <1>3. UNCHANGED <<row, lastId, effects, runs, excused, overlaps, answers, faults, expiries>>
    BY <1>2 DEF Find, bounds
  <1>4. CASE row = NoRow
    <2>1. Again(i)
      BY <1>4 DEF Find, NoRow
    <2>2. PICK r \in Underway : /\ request' = [request EXCEPT ![i] = r]
                                /\ r.at \in {"none", "claim"} /\ ~r.late
      BY <1>1, <2>1, AgainRequest DEF IInv
    <2> QED
      BY <1>1, <1>3, <2>2, QuietStep
  <1>5. CASE row # NoRow /\ Leaves(i)
    <2>1. Nobody \in Underway /\ Nobody.at = "none" /\ ~Nobody.late
      BY DEF IInv, TypeOK, Underway, Nobody
    <2> QED
      BY <1>1, <1>3, <1>5, <2>1, QuietStep DEF Leaves
  <1>6. CASE row # NoRow /\ row.expired /\ request' = [request EXCEPT ![i] = goes("remove")]
    <2>1. goes("remove") \in Underway /\ goes("remove").at = "remove" /\ ~goes("remove").late
          /\ goes("remove").id = row.id /\ row.id # 0
      BY <1>1, <1>6 DEF IInv, TypeOK, Underway, Rows
    <2> QED
      BY <1>1, <1>3, <1>6, <2>1, QuietStep
  <1>7. CASE row # NoRow /\ request' = [request EXCEPT ![i] = goes("takeOver")]
    <2>1. goes("takeOver") \in Underway /\ goes("takeOver").at = "takeOver" /\ ~goes("takeOver").late
      BY <1>1 DEF IInv, TypeOK, Underway, Rows
    <2> QED
      BY <1>1, <1>3, <1>7, <2>1, QuietStep
  <1> QED
    BY <1>4, <1>5, <1>6, <1>7 DEF Find

(* Remove(i) and Purge delete an expired row, which let a handler begin as *)
(* the missing row does.                                                   *)
LEMMA RowRemoved ==
    ASSUME IInv, row.expired, row' = NoRow, Running' = Running, Unspent' = Unspent,
           request' \in [Requests -> Underway],
           \A j \in Requests : \/ request'[j] = request[j]
                               \/ request'[j].at \in {"none", "claim"} /\ ~request'[j].late,
           UNCHANGED <<lastId, effects, runs, excused, overlaps, answers, faults, expiries>>
    PROVE  IInv'
  <1>1. row # NoRow
    BY DEF NoRow
  <1>2. Openings' = 1 /\ 1 <= Openings
    BY <1>1 DEF Openings
  <1>3. EffectsAccounted' /\ AnswersAccounted'
    BY <1>2, AccountsFinite, AccountsKept DEF IInv
  <1>4. TypeOK'
    <2>1. row' \in Rows' /\ row'.id = 0 /\ row'.status = "NONE" /\ row'.answer = 0
      BY DEF IInv, TypeOK, Rows, NoRow
    <2>2. \A j \in Requests : Runs(j)' => Runs(j) /\ request'[j] = request[j]
      BY DEF Runs
    <2>3. request' \in [Requests -> Underway']
      BY DEF Underway
    <2> QED
      BY <2>1, <2>2, <2>3 DEF IInv, TypeOK
  <1>5. RowConsistent'
    <2>1. ~row'.idle /\ row'.status = "NONE" /\ row'.id = 0
      BY DEF NoRow
    <2>2. \A j \in Requests :
            /\ request'[j].at = "remove" => request'[j].id # 0
            /\ request'[j].late => Runs(j)'
      BY DEF IInv, RowConsistent, Runs
    <2> QED
      BY <2>1, <2>2 DEF RowConsistent
  <1> QED
    BY <1>3, <1>4, <1>5 DEF IInv

(* An expired row is removed.                                              *)
LEMMA RemoveStep ==
    ASSUME IInv, NEW i \in Requests, Remove(i)
    PROVE  IInv'
  <1>1. ~Runs(i) /\ Again(i)
    BY DEF Remove, At, Runs
  <1>2. UNCHANGED <<lastId, effects, runs, excused, overlaps, answers, faults, expiries>>
    BY DEF Remove, account, bounds
  <1>3. PICK r \in Underway : /\ request' = [request EXCEPT ![i] = r]
                              /\ r.at \in {"none", "claim"} /\ ~r.late
    BY <1>1, AgainRequest DEF IInv
  <1>4. CASE row.id = request[i].id
    <2>1. row.expired /\ row' = NoRow
      BY <1>4 DEF Remove, At, IInv, RowConsistent
    <2>2. Running' = Running /\ Unspent' = Unspent
      BY <1>1, <1>3, NoHandler DEF IInv
    <2>3. request' \in [Requests -> Underway]
      BY <1>3 DEF IInv, TypeOK
    <2>4. \A j \in Requests : request'[j] = IF j = i THEN r ELSE request[j]
      BY <1>3 DEF IInv, TypeOK
    <2> QED
      BY <1>2, <1>3, <2>1, <2>2, <2>3, <2>4, RowRemoved
  <1>5. CASE row.id # request[i].id
    <2>1. row' = row
      BY <1>5 DEF Remove
    <2> QED
      BY <1>1, <1>2, <1>3, <2>1, QuietStep
  <1> QED
    BY <1>4, <1>5

(* The purge removes an expired row.                                       *)
LEMMA PurgeStep ==
    ASSUME IInv, Purge
    PROVE  IInv'
  <1>1. row.expired /\ row' = NoRow /\ request' = request
    BY DEF Purge
  <1>2. UNCHANGED <<lastId, effects, runs, excused, overlaps, answers, faults, expiries>>
    BY DEF Purge, account, bounds
  <1>3. Running' = Running /\ Unspent' = Unspent
    BY <1>1 DEF Running, Unspent, Runs, At
  <1>4. request' \in [Requests -> Underway]
    BY <1>1 DEF IInv, TypeOK
  <1> QED
    BY <1>1, <1>2, <1>3, <1>4, RowRemoved

(* A handler begins, for the row that is inserted (Claim) or taken over    *)
(* (TakeOver): the opening it takes is in the accounts as its own run.     *)
LEMMA StartStep ==
    ASSUME IInv, NEW i \in Requests, ~Runs(i), Starts(i, row'.id), UNCHANGED <<faults, expiries>>,
           lastId' \in {lastId, lastId + 1}, row' \in Rows', row'.id # 0,
           row'.status = "IN_PROGRESS", row'.answer = 0, ~row'.idle,
           \/ row'.id = row.id /\ row'.expired = row.expired
           \/ row'.id = lastId + 1,
           Openings = (IF row'.expired THEN 1 ELSE 0) + 1
    PROVE  IInv'
  <1> DEFINE r == request'[i]
  <1>1. request[i] \in Underway /\ request[i].late = FALSE
    BY DEF IInv, TypeOK, RowConsistent, Underway
  <1>2. \A j \in Requests \ {i} : request'[j] = request[j]
    BY DEF IInv, TypeOK, Starts
  <1>3. r = [request[i] EXCEPT !.at = "run", !.id = row'.id, !.run = runs + 1]
    BY DEF IInv, TypeOK, Starts
  <1>4. r.at = "run" /\ r.id = row'.id /\ r.run = runs + 1 /\ r.late = FALSE
    BY <1>1, <1>3 DEF Underway
  <1>5. /\ UNCHANGED <<effects, answers, excused, overlaps>> /\ runs' = runs + 1
        /\ runs \in Nat /\ lastId \in Nat /\ runs' \in Nat /\ lastId' \in Nat /\ lastId <= lastId'
    BY DEF Starts, IInv, TypeOK
  <1>6. TypeOK'
    <2>1. \A q \in Underway : q \in Underway'
      <3>1. 0 .. lastId \subseteq 0 .. lastId' /\ 0 .. runs \subseteq 0 .. runs'
        BY <1>5
      <3> QED
        BY <3>1 DEF Underway
    <2>2. r \in Underway'
      <3>1. row'.id \in 0 .. lastId' /\ runs + 1 \in 0 .. runs'
        BY <1>5 DEF Rows
      <3>2. request[i] \in Underway'
        BY <1>1, <2>1
      <3> QED
        BY <1>3, <3>1, <3>2 DEF Underway
    <2>3. request' \in [Requests -> Underway']
      <3>1. request' = [j \in Requests |-> request'[j]]
        BY DEF Starts, IInv, TypeOK
      <3>2. \A j \in Requests : request'[j] \in Underway'
        BY <1>2, <2>1, <2>2 DEF IInv, TypeOK
      <3> QED
        BY <3>1, <3>2
    <2>4. \A j \in Requests : Runs(j)' => request'[j].run # 0 /\ request'[j].id # 0
      BY <1>2, <1>4, <1>5 DEF IInv, TypeOK, Runs
    <2>5. answers' \subseteq 1 .. runs'
      BY <1>5 DEF IInv, TypeOK
    <2>6. (row'.id = 0) <=> (row' = NoRow)
      BY DEF NoRow
    <2> QED
      BY <1>5, <2>3, <2>4, <2>5, <2>6 DEF IInv, TypeOK
  <1>7. /\ Running' = Running \cup {i} /\ i \notin Running
        /\ Unspent' = Unspent \cup {i} /\ i \notin Unspent /\ i \in Owners'
    BY <1>1, StartsHandler DEF IInv
  <1>8. Openings' = Openings - 1 /\ Openings' \in Nat /\ Openings \in Nat
    <2>1. row' # NoRow /\ Owners' # {}
      BY <1>7 DEF NoRow
    <2> QED
      BY <2>1 DEF Openings
  <1>9. /\ Cardinality(Running') = Cardinality(Running) + 1 /\ Cardinality(Running) \in Nat
        /\ Cardinality(Unspent') = Cardinality(Unspent) + 1 /\ Cardinality(Unspent) \in Nat
        /\ Cardinality(answers) \in Nat
    BY <1>7, AccountsFinite, OneMore DEF IInv
  <1>10. EffectsAccounted' /\ AnswersAccounted'
    BY <1>5, <1>8, <1>9 DEF IInv, TypeOK, EffectsAccounted, AnswersAccounted
  <1>11. RowConsistent'
    <2>1. \A j \in Requests :
            /\ request'[j].at = "remove" => request'[j].id # 0
            /\ request'[j].at = "remove" /\ request'[j].id = row'.id => row'.expired
            /\ request'[j].late => Runs(j)'
      <3>1. \A j \in Requests : request[j].id \in 0 .. lastId
        BY DEF IInv, TypeOK, Underway
      <3>2. \A j \in Requests : request[j].id # lastId + 1
        BY <1>5, <3>1
      <3> QED
        BY <1>2, <1>4, <3>2 DEF IInv, RowConsistent, Runs
    <2> QED
      BY <2>1 DEF RowConsistent
  <1> QED
    BY <1>6, <1>10, <1>11 DEF IInv

(* A claim moves an opening to its handler.                                *)
LEMMA ClaimStep ==
    ASSUME IInv, NEW i \in Requests, Claim(i)
    PROVE  IInv'
  <1>1. ~Runs(i) /\ UNCHANGED <<faults, expiries>>
    BY DEF Claim, At, Runs, bounds
  <1>2. CASE row = NoRow
    <2>1. /\ lastId' = lastId + 1 /\ Starts(i, lastId + 1) /\ lastId \in Nat /\ runs \in Nat
          /\ row' = [NoRow EXCEPT !.id = lastId + 1, !.body = request[i].body,
                                  !.status = "IN_PROGRESS"]
          /\ runs' = runs + 1
      BY <1>2 DEF Claim, Starts, IInv, TypeOK
    <2>2. request[i].body \in Bodies \cup {None}
      BY DEF IInv, TypeOK, Underway
    <2>3. row' = [id |-> lastId + 1, body |-> request[i].body, status |-> "IN_PROGRESS",
                  answer |-> 0, idle |-> FALSE, expired |-> FALSE]
      BY <2>1 DEF NoRow
    <2>4. row'.id = lastId + 1 /\ row'.id # 0 /\ row' \in Rows'
      <3>1. lastId + 1 \in 0 .. lastId' /\ 0 \in 0 .. runs' /\ lastId + 1 # 0
        BY <2>1
      <3>2. row' \in [id : 0 .. lastId', body : Bodies \cup {None}, answer : 0 .. runs',
                       status : {"NONE", "IN_PROGRESS", "COMPLETED"}, idle : BOOLEAN,
                       expired : BOOLEAN]
        BY <2>2, <2>3, <3>1
      <3>3. row'.id = lastId + 1
        BY <2>3
      <3>4. row' \in Rows'
        BY <3>2 DEF Rows
      <3> QED
        BY <3>1, <3>3, <3>4
    <2>5. /\ row'.status = "IN_PROGRESS" /\ row'.answer = 0
          /\ row'.idle = FALSE /\ row'.expired = FALSE
      BY <2>3
    <2>6. Starts(i, row'.id)
      BY <2>1, <2>4
    <2>7. Openings = (IF row'.expired THEN 1 ELSE 0) + 1
      BY <1>2, <2>5 DEF Openings
    <2> QED
      BY <1>1, <2>1, <2>4, <2>5, <2>6, <2>7, StartStep
  <1>3. CASE row # NoRow
    <2> DEFINE r == [request[i] EXCEPT !.at = "find"]
    <2>1. /\ request' = [request EXCEPT ![i] = r]
          /\ UNCHANGED <<row, lastId, effects, runs, excused, overlaps, answers, faults, expiries>>
      BY <1>1, <1>3 DEF Claim, Goto, account
    <2>2. request[i] \in Underway /\ ~request[i].late
      BY <1>1 DEF IInv, TypeOK, RowConsistent
    <2>3. r \in Underway /\ r.at = "find" /\ r.late = request[i].late
      BY <2>2 DEF Underway
    <2> QED
      BY <1>1, <2>1, <2>2, <2>3, QuietStep
  <1> QED
    BY <1>2, <1>3

(* So does a take-over.                                                    *)
LEMMA TakeOverStep ==
    ASSUME IInv, NEW i \in Requests, TakeOver(i)
    PROVE  IInv'
  <1>1. ~Runs(i) /\ UNCHANGED <<lastId, faults, expiries>>
    BY DEF TakeOver, At, Runs, bounds
  <1>2. CASE row.id = request[i].id /\ row.status = "IN_PROGRESS" /\ row.idle
    <2>1. row' = [row EXCEPT !.idle = FALSE] /\ Starts(i, row.id) /\ runs' = runs + 1
      BY <1>2 DEF TakeOver, Starts
    <2>2. row \in Rows /\ row # NoRow /\ row.id # 0 /\ row.answer = 0 /\ Owners = {}
      BY <1>2 DEF IInv, TypeOK, RowConsistent, NoRow
    <2>3. /\ row'.id = row.id /\ row'.expired = row.expired /\ row'.status = "IN_PROGRESS"
          /\ row'.answer = 0 /\ row'.idle = FALSE
      BY <1>2, <2>1, <2>2 DEF Rows
    <2>4. row' \in Rows'
      <3>1. 0 .. runs \subseteq 0 .. runs'
        BY <2>1 DEF IInv, TypeOK
      <3> QED
        BY <1>1, <2>1, <2>2, <3>1 DEF Rows
    <2>5. Openings = (IF row'.expired THEN 1 ELSE 0) + 1
      BY <1>2, <2>2, <2>3 DEF Openings
    <2> QED
      BY <1>1, <2>1, <2>2, <2>3, <2>4, <2>5, StartStep
  <1>3. CASE ~(row.id = request[i].id /\ row.status = "IN_PROGRESS" /\ row.idle)
    <2>1. /\ request' = [request EXCEPT ![i] = Nobody]
          /\ UNCHANGED <<row, lastId, effects, runs, excused, overlaps, answers, faults, expiries>>
      BY <1>1, <1>3 DEF TakeOver, Leaves, account
    <2>2. Nobody \in Underway /\ Nobody.at = "none" /\ ~Nobody.late
      BY DEF IInv, TypeOK, Underway, Nobody
    <2> QED
      BY <1>1, <2>1, <2>2, QuietStep
  <1> QED
    BY <1>2, <1>3

(* Run(i): an effect that is to have an answer is in the account now, one  *)
(* that is answered 5xx is excused.                                        *)
LEMMA RunStep ==
    ASSUME IInv, NEW i \in Requests, Run(i)
    PROVE  IInv'
  <1>1. PICK effect \in BOOLEAN, code \in {"final", "5xx"} :
          /\ request' = [request EXCEPT ![i].at = "store", ![i].code = code, ![i].effect = effect]
          /\ effects' = IF effect THEN effects + 1 ELSE effects
          /\ excused' = IF effect /\ code = "5xx" THEN excused + 1 ELSE excused
          /\ IF code = "5xx" THEN Fault ELSE UNCHANGED bounds
    BY DEF Run
  <1>2. /\ request[i].at = "run" /\ Runs(i) /\ UNCHANGED <<row, lastId, answers, runs, overlaps>>
        /\ request[i] \in Underway
    BY DEF Run, At, Runs, IInv, TypeOK
  <1>3. \A j \in Requests \ {i} : request'[j] = request[j]
    BY <1>1 DEF IInv, TypeOK
  <1>4. request'[i] = [request[i] EXCEPT !.at = "store", !.code = code, !.effect = effect]
    BY <1>1 DEF IInv, TypeOK
  <1>5. /\ request'[i].at = "store" /\ request'[i].code = code /\ request'[i].effect = effect
        /\ request'[i].id = request[i].id /\ request'[i].run = request[i].run
        /\ request'[i].late = request[i].late
    BY <1>2, <1>4 DEF Underway
  <1>6. Running' = Running /\ Owners' = Owners
    BY <1>2, <1>3, <1>5 DEF Running, Owners, Runs
  <1>7. Openings' = Openings
    BY <1>2, <1>6 DEF Openings
  <1>8. /\ \A j \in Requests \ {i} : j \in Unspent' <=> j \in Unspent
        /\ i \in Unspent /\ (i \in Unspent' <=> (effect => code = "5xx"))
    BY <1>2, <1>3, <1>5 DEF Unspent, Running, Runs, At
  <1>9. /\ Cardinality(Unspent) \in Nat /\ Cardinality(Unspent') \in Nat
        /\ Cardinality(Unspent') = IF effect /\ code # "5xx" THEN Cardinality(Unspent) - 1
                                   ELSE Cardinality(Unspent)
    <2>1. Unspent' = IF effect /\ code # "5xx" THEN Unspent \ {i} ELSE Unspent
      <3>1. Unspent \subseteq Requests /\ Unspent' \subseteq Requests
        BY DEF Unspent, Running
      <3> QED
        BY <1>8, <3>1
    <2> QED
      BY <1>8, <2>1, AccountsFinite, OneLess DEF IInv
  <1>10. EffectsAccounted'
    <2>1. effects \in Nat /\ excused \in Nat /\ Openings \in Nat /\ effect \in BOOLEAN
      BY AccountsFinite DEF IInv, TypeOK
    <2>2. effects + Cardinality(Unspent) + Openings <= 1 + excused
      BY DEF IInv, EffectsAccounted
    <2>3. CASE effect /\ code # "5xx"
      BY <1>1, <1>7, <1>9, <2>1, <2>2, <2>3 DEF EffectsAccounted
    <2>4. CASE effect /\ code = "5xx"
      BY <1>1, <1>7, <1>9, <2>1, <2>2, <2>4 DEF EffectsAccounted
    <2>5. CASE ~effect
      BY <1>1, <1>7, <1>9, <2>1, <2>2, <2>5 DEF EffectsAccounted
    <2> QED
      BY <2>3, <2>4, <2>5
  <1>11. AnswersAccounted'
    BY <1>2, <1>6, <1>7 DEF IInv, AnswersAccounted
  <1>12. RowConsistent'
    <2>1. \A j \in Requests :
            /\ request'[j].at = "remove" => request'[j].id # 0
            /\ request'[j].at = "remove" /\ request'[j].id = row'.id => row'.expired
            /\ request'[j].late => Runs(j)'
      BY <1>2, <1>3, <1>5 DEF IInv, RowConsistent, Runs
    <2> QED
      BY <1>2, <1>6, <2>1 DEF IInv, RowConsistent
  <1>13. TypeOK'
    <2>1. request'[i] \in Underway'
      <3>1. [request[i] EXCEPT !.at = "store", !.code = code, !.effect = effect] \in Underway
        BY <1>2 DEF Underway
      <3> QED
        BY <1>2, <1>4, <3>1 DEF Underway
    <2>2. request' \in [Requests -> Underway']
      BY <1>1, <1>2, <1>3, <2>1 DEF IInv, TypeOK, Underway
    <2>3. \A j \in Requests : Runs(j)' => request'[j].run # 0 /\ request'[j].id # 0
      BY <1>2, <1>3, <1>5 DEF IInv, TypeOK, Runs
    <2>4. faults' \in 0 .. MaxFaults /\ expiries' \in 0 .. MaxExpiries
      BY <1>1 DEF Fault, bounds, IInv, TypeOK
    <2>5. effects' \in Nat /\ excused' \in Nat
      BY <1>1 DEF IInv, TypeOK
    <2> QED
      BY <1>2, <2>2, <2>3, <2>4, <2>5 DEF IInv, TypeOK, Rows
  <1> QED
    BY <1>10, <1>11, <1>12, <1>13 DEF IInv

-----------------------------------------------------------------------------
(* A handler leaves, by the end of Store(i) or by Die(i).                  *)

(* Whatever an account loses on one side it may gain on the other.         *)
LEMMA Balance ==
    \A e, u, v, o, p, x, y \in Nat :
       e + u + o <= 1 + x /\ v + p + x <= u + o + y => e + v + p <= 1 + y
  OBVIOUS

(* What a handler that leaves does to the accounts.                        *)
LEMMA AccountsOfLeaver ==
    ASSUME IInv, NEW i \in Requests, Runs(i), Leaves(i), UNCHANGED effects,
           excused' \in {excused, excused + 1}, overlaps' \in {overlaps, overlaps + 1},
           Openings' \in Nat, Openings' <= Openings + 1,
           Openings' <= Openings \/ excused' = excused + 1 \/ i \in Unspent,
           \/ answers' = answers
           \/ /\ answers' = answers \cup {request[i].run}
              /\ Openings' <= Openings \/ overlaps' = overlaps + 1
    PROVE  EffectsAccounted' /\ AnswersAccounted'
  <1> DEFINE U == Cardinality(Unspent)    U1 == Cardinality(Unspent')
             R == Cardinality(Running)    R1 == Cardinality(Running')
             A == Cardinality(answers)    A1 == Cardinality(answers')
  <1>1. /\ Running' = Running \ {i} /\ i \in Running
        /\ Unspent' = Unspent \ {i}
    BY HandlerLeaves DEF IInv
  <1>2. /\ effects \in Nat /\ excused \in Nat /\ overlaps \in Nat /\ Openings \in Nat
        /\ U \in Nat /\ R \in Nat /\ A \in Nat
    BY AccountsFinite DEF IInv, TypeOK
  <1>3. effects + U + Openings <= 1 + excused /\ A + R + Openings <= 1 + overlaps
    BY DEF IInv, EffectsAccounted, AnswersAccounted
  <1>4. R1 = R - 1 /\ R1 \in Nat
    BY <1>1, AccountsFinite, OneLess DEF IInv
  <1>5. /\ U1 \in Nat /\ U1 <= U
        /\ i \in Unspent => U1 = U - 1
    <2>1. CASE i \in Unspent
      BY <1>1, <2>1, AccountsFinite, OneLess DEF IInv
    <2>2. CASE i \notin Unspent
      <3>1. U1 = U
        BY <1>1, <2>2
      <3> QED
        BY <1>2, <2>2, <3>1
    <2> QED
      BY <2>1, <2>2
  <1>6. PICK x \in Nat, y \in Nat, o \in Nat : x = excused' /\ y = overlaps' /\ o = Openings'
    <2>1. excused' \in Nat /\ overlaps' \in Nat /\ Openings' \in Nat
      BY <1>2
    <2> QED
      BY <2>1
  <1>7. EffectsAccounted'
    <2>1. /\ x \in {excused, excused + 1} /\ o <= Openings + 1
          /\ o <= Openings \/ x = excused + 1 \/ i \in Unspent
      BY <1>6
    <2>2. U1 + o + excused <= U + Openings + x
      <3>1. CASE o <= Openings
        <4> HIDE DEF U, U1
        <4> QED
          BY <1>2, <1>5, <2>1, <3>1
      <3>2. CASE x = excused + 1
        <4> HIDE DEF U, U1
        <4> QED
          BY <1>2, <1>5, <2>1, <3>2
      <3>3. CASE i \in Unspent
        <4> HIDE DEF U, U1
        <4> QED
          BY <1>2, <1>5, <2>1, <3>3
      <3> QED
        BY <2>1, <3>1, <3>2, <3>3
    <2>3. effects + U1 + o <= 1 + x
      <3> HIDE DEF U, U1
      <3> QED
        BY <1>2, <1>3, <1>5, <2>2, Balance
    <2> QED
      BY <1>6, <2>3 DEF EffectsAccounted
  <1>8. AnswersAccounted'
    <2>1. /\ y \in {overlaps, overlaps + 1} /\ o <= Openings + 1
          /\ \/ answers' = answers
             \/ /\ answers' = answers \cup {request[i].run}
                /\ o <= Openings \/ y = overlaps + 1
      BY <1>6
    <2>2. A1 \in Nat /\ A1 + o + overlaps <= A + 1 + Openings + y
      <3>1. CASE answers' = answers
        <4>1. A1 = A
          BY <3>1
        <4> HIDE DEF A, A1
        <4> QED
          BY <1>2, <2>1, <4>1
      <3>2. CASE answers' = answers \cup {request[i].run} /\ (o <= Openings \/ y = overlaps + 1)
        <4>1. A1 \in Nat /\ A1 <= A + 1
          BY <3>2, AccountsFinite, OneMore DEF IInv
        <4> HIDE DEF A, A1
        <4> QED
          BY <1>2, <2>1, <3>2, <4>1
      <3> QED
        BY <2>1, <3>1, <3>2
    <2>3. A1 + R1 + o <= 1 + y
      <3> HIDE DEF A, A1, R, R1
      <3> QED
        BY <1>2, <1>3, <1>4, <2>2
    <2> QED
      BY <1>6, <2>3 DEF AnswersAccounted
  <1> QED
    BY <1>7, <1>8

(* With the row as it was, at most one opening appears: its handler's.     *)
LEMMA RowOfLeaver ==
    ASSUME IInv, NEW i \in Requests, Runs(i), Leaves(i), UNCHANGED row
    PROVE  /\ Owners' \subseteq Owners
           /\ Openings' \in Nat /\ Openings \in Nat /\ Openings' <= Openings + 1
  <1>1. \A j \in Requests : j # i => request'[j] = request[j]
    BY DEF Leaves, IInv, TypeOK
  <1>2. request'[i].at = "none"
    BY DEF Leaves, IInv, TypeOK, Nobody
  <1>3. Owners' \subseteq Owners
    BY <1>1, <1>2 DEF Owners, Runs
  <1> QED
    BY <1>3 DEF Openings

(* The requests that remain are as consistent as they were.                *)
LEMMA RequestsOfLeaver ==
    ASSUME IInv, NEW i \in Requests, Leaves(i), UNCHANGED <<lastId, runs>>
    PROVE  /\ request' \in [Requests -> Underway']
           /\ \A j \in Requests : Runs(j)' => request'[j].run # 0 /\ request'[j].id # 0
           /\ \A j \in Requests : request'[j].at = "remove" => request[j].at = "remove"
                                                             /\ request'[j].id = request[j].id
           /\ \A j \in Requests : request'[j].late => Runs(j)'
  <1>1. \A j \in Requests : j # i => request'[j] = request[j]
    BY DEF Leaves, IInv, TypeOK
  <1>2. request'[i] = Nobody
    BY DEF Leaves, IInv, TypeOK
  <1>3. Nobody \in Underway /\ Nobody.at = "none" /\ Nobody.late = FALSE
    BY DEF IInv, TypeOK, Underway, Nobody
  <1>4. request' \in [Requests -> Underway]
    BY <1>3 DEF Leaves, IInv, TypeOK
  <1>5. Underway' = Underway
    BY DEF Underway
  <1> QED
    BY <1>1, <1>2, <1>3, <1>4, <1>5 DEF IInv, TypeOK, RowConsistent, Runs

(* The answer is stored, or the key freed: a handler that owns the row     *)
(* closes it with a final answer and hands its opening back with a 5xx.    *)
LEMMA StoredStep ==
    ASSUME IInv, NEW i \in Requests, Runs(i), request[i].at = "store", Leaves(i),
           answers' = IF request[i].code = "5xx" THEN answers ELSE answers \cup {request[i].run},
           row' = Stored(i),
           UNCHANGED <<lastId, effects, runs, excused, overlaps, faults, expiries>>
    PROVE  IInv'
  <1>1. /\ request[i] \in Underway /\ request[i].run # 0 /\ request[i].id # 0
        /\ row \in Rows /\ runs \in Nat /\ lastId \in Nat
    BY DEF IInv, TypeOK
  <1>2. request[i].run \in 1 .. runs
    BY <1>1 DEF Underway
  <1>3. answers' \subseteq 1 .. runs' /\ answers \subseteq answers'
    BY <1>2 DEF IInv, TypeOK
  <1>4. (row.id = 0) <=> (row = NoRow)
    BY DEF IInv, TypeOK
  <1>5. /\ effects \in Nat /\ excused \in Nat /\ overlaps \in Nat /\ Openings \in Nat
        /\ answers' \in {answers, answers \cup {request[i].run}}
    BY AccountsFinite DEF IInv, TypeOK
  <1>6. CASE row.id # request[i].id
    <2>1. row' = row /\ Openings' = Openings /\ Owners' = Owners
      <3>1. row' = row
        BY <1>6 DEF Stored
      <3>2. Owners' = Owners
        BY <1>6, <3>1, HandlerLeaves DEF IInv
      <3> QED
        BY <3>1, <3>2 DEF Openings
    <2>2. EffectsAccounted' /\ AnswersAccounted'
      BY <1>5, <2>1, AccountsOfLeaver
    <2>3. TypeOK'
      BY <1>3, <2>1, RequestsOfLeaver DEF IInv, TypeOK, Rows
    <2>4. RowConsistent'
      BY <1>3, <2>1, RequestsOfLeaver DEF IInv, RowConsistent
    <2> QED
      BY <2>2, <2>3, <2>4 DEF IInv
  <1>7. CASE row.id = request[i].id /\ request[i].code = "5xx"
    <2>1. row' = NoRow /\ answers' = answers /\ row # NoRow
      BY <1>1, <1>4, <1>7 DEF Stored
    <2>2. Openings' = 1 /\ Openings \in Nat
      BY <2>1, AccountsFinite DEF Openings, IInv
    <2>3. i \in Unspent
      BY <1>7 DEF Unspent, Running
    <2>4. EffectsAccounted' /\ AnswersAccounted'
      BY <1>5, <2>1, <2>2, <2>3, AccountsOfLeaver
    <2>5. TypeOK'
      <3>1. row' \in Rows' /\ row'.id = 0 /\ row'.status = "NONE" /\ row'.answer = 0
        BY <2>1 DEF IInv, TypeOK, Rows, NoRow
      <3> QED
        BY <1>3, <2>1, <3>1, RequestsOfLeaver DEF IInv, TypeOK
    <2>6. RowConsistent'
      <3>1. ~row'.idle /\ row'.status = "NONE" /\ row'.id = 0
        BY <2>1 DEF NoRow
      <3> QED
        BY <3>1, RequestsOfLeaver DEF IInv, RowConsistent
    <2> QED
      BY <2>4, <2>5, <2>6 DEF IInv
  <1>8. CASE row.id = request[i].id /\ request[i].code # "5xx"
    <2>1. /\ row' = [row EXCEPT !.status = "COMPLETED", !.answer = request[i].run, !.idle = FALSE]
          /\ answers' = answers \cup {request[i].run}
      BY <1>8 DEF Stored
    <2>2. /\ row'.id = row.id /\ row'.expired = row.expired /\ row'.status = "COMPLETED"
          /\ row'.answer = request[i].run /\ row'.idle = FALSE
      BY <1>1, <2>1 DEF Rows
    <2>3. row' # NoRow /\ row # NoRow
      BY <1>1, <1>4, <1>8, <2>2 DEF NoRow
    <2>4. Openings' \in Nat /\ Openings \in Nat /\ Openings' <= Openings
      BY <2>2, <2>3 DEF Openings
    <2>5. EffectsAccounted' /\ AnswersAccounted'
      <3>1. /\ effects' = effects /\ excused' = excused /\ overlaps' = overlaps
            /\ Openings' <= Openings + 1
        BY <1>5, <2>4
      <3> QED
        BY <2>1, <2>4, <3>1, AccountsOfLeaver
    <2>6. TypeOK'
      <3>1. request[i].run \in 0 .. runs
        BY <1>1 DEF Underway
      <3>2. [row EXCEPT !.status = "COMPLETED", !.answer = request[i].run, !.idle = FALSE] \in Rows
        BY <1>1, <3>1 DEF Rows
      <3>3. row' \in Rows'
        BY <2>1, <3>2 DEF Rows
      <3>4. row'.id # 0 /\ row'.answer # 0
        BY <1>1, <1>8, <2>2
      <3> QED
        BY <1>3, <2>2, <2>3, <3>3, <3>4, RequestsOfLeaver DEF IInv, TypeOK
    <2>7. RowConsistent'
      <3>1. row'.answer \in answers'
        BY <2>1, <2>2
      <3> QED
        BY <2>2, <3>1, RequestsOfLeaver DEF IInv, RowConsistent
    <2> QED
      BY <2>5, <2>6, <2>7 DEF IInv
  <1> QED
    BY <1>6, <1>7, <1>8

(* A handler that dies (Die), or answers without a word in the database    *)
(* (the other end of Store): its opening may be another's, so an effect    *)
(* that would have had an answer is excused, and so is the answer.         *)
LEMMA LostStep ==
    ASSUME IInv, NEW i \in Requests, Runs(i), Leaves(i),
           request[i].effect /\ request[i].code # "5xx" => excused' = excused + 1,
           excused' \in {excused, excused + 1},
           \/ answers' = answers /\ overlaps' \in {overlaps, overlaps + 1}
           \/ answers' = answers \cup {request[i].run} /\ overlaps' = overlaps + 1,
           faults' \in 0 .. MaxFaults,
           UNCHANGED <<row, lastId, effects, runs, expiries>>
    PROVE  IInv'
  <1>1. i \notin Unspent => excused' = excused + 1
    BY DEF Unspent, Running
  <1>2. EffectsAccounted' /\ AnswersAccounted'
    <2>1. Openings' \in Nat /\ Openings \in Nat /\ Openings' <= Openings + 1
      BY RowOfLeaver
    <2>2. /\ effects' = effects /\ overlaps' \in {overlaps, overlaps + 1}
          /\ \/ answers' = answers
             \/ answers' = answers \cup {request[i].run} /\ overlaps' = overlaps + 1
      OBVIOUS
    <2> QED
      BY <1>1, <2>1, <2>2, AccountsOfLeaver
  <1>3. TypeOK'
    <2>1. request[i].run \in 1 .. runs
      BY DEF IInv, TypeOK, Underway
    <2>2. answers' \subseteq 1 .. runs'
      BY <2>1 DEF IInv, TypeOK
    <2>3. excused' \in Nat /\ overlaps' \in Nat
      BY DEF IInv, TypeOK
    <2> QED
      BY <2>2, <2>3, RequestsOfLeaver DEF IInv, TypeOK, Rows
  <1>4. RowConsistent'
    BY RowOfLeaver, RequestsOfLeaver DEF IInv, RowConsistent
  <1> QED
    BY <1>2, <1>3, <1>4 DEF IInv

(* The answer is stored, or the key is given back.                         *)
LEMMA StoreStep ==
    ASSUME IInv, NEW i \in Requests, Store(i)
    PROVE  IInv'
  <1>1. /\ request[i].at = "store" /\ Runs(i) /\ Leaves(i) /\ UNCHANGED <<lastId, effects, runs>>
        /\ answers' = IF request[i].code = "5xx" THEN answers ELSE answers \cup {request[i].run}
    BY DEF Store, At, Runs
  <1>2. CASE row' = Stored(i) /\ UNCHANGED <<excused, overlaps, bounds>>
    BY <1>1, <1>2, StoredStep DEF bounds
  <1>3. CASE /\ Fault /\ overlaps' = overlaps + 1
             /\ excused' = IF request[i].effect /\ request[i].code # "5xx" THEN excused + 1
                           ELSE excused
             /\ UNCHANGED row
    <2>1. faults' \in 0 .. MaxFaults /\ expiries' = expiries
      BY <1>3 DEF Fault, IInv, TypeOK
    <2>2. CASE request[i].code # "5xx"
      BY <1>1, <1>3, <2>1, <2>2, LostStep
    <2>3. CASE request[i].code = "5xx"
      BY <1>1, <1>3, <2>1, <2>3, LostStep
    <2> QED
      BY <2>2, <2>3
  <1> QED
    BY <1>1, <1>2, <1>3 DEF Store

(* A worker dies with its requests.                                        *)
LEMMA DieStep ==
    ASSUME IInv, NEW i \in Requests, Die(i)
    PROVE  IInv'
  <1>1. /\ Leaves(i) /\ UNCHANGED <<row, lastId, effects, answers, runs, overlaps, expiries>>
        /\ excused' \in {excused, excused + 1}
        /\ request[i].effect /\ request[i].code # "5xx" => excused' = excused + 1
    BY DEF Die, Fault
  <1>2. faults' \in 0 .. MaxFaults
    BY DEF Die, Fault, IInv, TypeOK
  <1>3. CASE Runs(i)
    BY <1>1, <1>2, <1>3, LostStep
  <1>4. CASE ~Runs(i)
    <2>1. Running' = Running /\ Unspent' = Unspent /\ Owners' = Owners
      <3>1. Nobody.at \notin {"run", "store"}
        BY DEF Nobody
      <3> QED
        BY <1>1, <1>4, <3>1, NoHandler DEF IInv, Leaves
    <2>2. Openings' = Openings
      BY <1>1, <2>1 DEF Openings
    <2>3. EffectsAccounted'
      <3> DEFINE U == Cardinality(Unspent)
      <3>1. /\ effects \in Nat /\ excused \in Nat /\ Openings \in Nat /\ U \in Nat
            /\ effects + U + Openings <= 1 + excused
        BY AccountsFinite DEF IInv, TypeOK, EffectsAccounted
      <3>2. effects + U + Openings <= 1 + (excused + 1)
        <4> HIDE DEF U
        <4> QED
          BY <3>1
      <3> QED
        BY <1>1, <2>1, <2>2, <3>1, <3>2 DEF EffectsAccounted
    <2>4. AnswersAccounted'
      BY <1>1, <2>1, <2>2 DEF AnswersAccounted, IInv
    <2>5. TypeOK'
      <3>1. excused' \in Nat
        BY <1>1 DEF IInv, TypeOK
      <3> QED
        BY <1>1, <1>2, <3>1, RequestsOfLeaver DEF IInv, TypeOK, Rows
    <2>6. RowConsistent'
      BY <1>1, <2>1, RequestsOfLeaver DEF IInv, RowConsistent
    <2> QED
      BY <2>3, <2>4, <2>5, <2>6 DEF IInv
  <1> QED
    BY <1>3, <1>4

(* Time passes: no handler begins or ends, and an opening that appears is  *)
(* excused and allowed for.                                                *)
LEMMA AccountsOfTime ==
    ASSUME IInv, Running' = Running, Unspent' = Unspent, UNCHANGED effects,
           answers' \in {answers, {}}, Openings' \in Nat,
           \/ Openings' = Openings /\ UNCHANGED <<excused, overlaps>>
           \/ Openings' <= Openings + 1 /\ excused' = excused + 1 /\ overlaps' = overlaps + 1
    PROVE  EffectsAccounted' /\ AnswersAccounted'
  <1> DEFINE U == Cardinality(Unspent)    R == Cardinality(Running)
             A == Cardinality(answers)    A1 == Cardinality(answers')
  <1>1. /\ effects \in Nat /\ excused \in Nat /\ overlaps \in Nat /\ Openings \in Nat
        /\ U \in Nat /\ R \in Nat /\ A \in Nat
    BY AccountsFinite DEF IInv, TypeOK
  <1>2. effects + U + Openings <= 1 + excused /\ A + R + Openings <= 1 + overlaps
    BY DEF IInv, EffectsAccounted, AnswersAccounted
  <1>3. A1 \in Nat /\ A1 <= A
    <2>1. CASE answers' = answers
      BY <1>1, <2>1
    <2>2. CASE answers' = {}
      <3>1. A1 = 0
        BY <2>2, FS_EmptySet
      <3> QED
        BY <1>1, <3>1
    <2> QED
      BY <2>1, <2>2
  <1>4. PICK o \in Nat : o = Openings'
    OBVIOUS
  <1>5. CASE o = Openings /\ UNCHANGED <<excused, overlaps>>
    <2>1. effects + U + o <= 1 + excused /\ A1 + R + o <= 1 + overlaps
      <3> HIDE DEF U, R, A, A1
      <3> QED
        BY <1>1, <1>2, <1>3, <1>5
    <2> QED
      BY <1>4, <1>5, <2>1 DEF EffectsAccounted, AnswersAccounted
  <1>6. CASE o <= Openings + 1 /\ excused' = excused + 1 /\ overlaps' = overlaps + 1
    <2>1. effects + U + o <= 1 + (excused + 1) /\ A1 + R + o <= 1 + (overlaps + 1)
      <3> HIDE DEF U, R, A, A1
      <3> QED
        BY <1>1, <1>2, <1>3, <1>6
    <2> QED
      BY <1>4, <1>6, <2>1 DEF EffectsAccounted, AnswersAccounted
  <1> QED
    BY <1>4, <1>5, <1>6

(* A row grows old enough to be taken over.                                *)
LEMMA IdleStep ==
    ASSUME IInv, Idle
    PROVE  IInv'
  <1>1. /\ row.status = "IN_PROGRESS" /\ row' = [row EXCEPT !.idle = TRUE] /\ row \in Rows
        /\ UNCHANGED <<lastId, effects, answers, runs, expiries>>
    BY DEF Idle, IInv, TypeOK
  <1>2. /\ row'.id = row.id /\ row'.expired = row.expired /\ row'.status = row.status
        /\ row'.answer = row.answer /\ row'.idle = TRUE
    BY <1>1 DEF Rows
  <1>3. row # NoRow /\ row' # NoRow
    BY <1>1, <1>2 DEF NoRow
  <1>4. row' \in Rows'
    <2>1. [row EXCEPT !.idle = TRUE] \in Rows
      BY <1>1 DEF Rows
    <2> QED
      BY <1>1, <2>1 DEF Rows
  <1>5. /\ request' = [j \in Requests |->
                IF j \in Owners THEN [request[j] EXCEPT !.late = TRUE] ELSE request[j]]
        /\ faults' \in 0 .. MaxFaults
        /\ \/ Owners = {} /\ UNCHANGED <<excused, overlaps>>
           \/ Owners # {} /\ excused' = excused + 1 /\ overlaps' = overlaps + 1
    <2>1. CASE Owners = {} /\ UNCHANGED <<request, excused, overlaps, faults>>
      <3>1. request = [j \in Requests |-> request[j]]
        BY DEF IInv, TypeOK
      <3> QED
        BY <2>1, <3>1 DEF IInv, TypeOK
    <2>2. CASE Owners # {} /\ faults < MaxFaults /\ faults' = faults + 1
      <3>1. faults' \in 0 .. MaxFaults
        BY <2>2 DEF IInv, TypeOK
      <3> QED
        BY <2>2, <3>1 DEF Idle
    <2> QED
      BY <2>1, <2>2 DEF Idle
  <1>6. \A j \in Requests :
          /\ request'[j].at = request[j].at /\ request'[j].id = request[j].id
          /\ request'[j].run = request[j].run /\ request'[j].code = request[j].code
          /\ request'[j].effect = request[j].effect
          /\ IF j \in Owners THEN request'[j].late ELSE request'[j] = request[j]
          /\ request'[j] \in Underway'
    <2> SUFFICES ASSUME NEW j \in Requests
                 PROVE  /\ request'[j].at = request[j].at /\ request'[j].id = request[j].id
                        /\ request'[j].run = request[j].run /\ request'[j].code = request[j].code
                        /\ request'[j].effect = request[j].effect
                        /\ IF j \in Owners THEN request'[j].late ELSE request'[j] = request[j]
                        /\ request'[j] \in Underway'
      OBVIOUS
    <2>1. request[j] \in Underway
      BY DEF IInv, TypeOK
    <2>2. CASE j \in Owners
      <3>1. request'[j] = [request[j] EXCEPT !.late = TRUE]
        BY <1>5, <2>2
      <3> QED
        BY <1>1, <2>1, <2>2, <3>1 DEF Underway
    <2>3. CASE j \notin Owners
      <3>1. request'[j] = request[j]
        BY <1>5, <2>3
      <3> QED
        BY <1>1, <2>1, <2>3, <3>1 DEF Underway
    <2> QED
      BY <2>2, <2>3
  <1>7. \A j \in Requests : Runs(j)' <=> Runs(j)
    BY <1>6 DEF Runs
  <1>8. Running' = Running /\ Unspent' = Unspent
    BY <1>6, <1>7 DEF Running, Unspent, At
  <1>9. Owners' = {}
    BY <1>2, <1>6, <1>7 DEF Owners
  <1>10. EffectsAccounted' /\ AnswersAccounted'
    <2>1. Openings' \in Nat /\ Openings' <= Openings + 1 /\ (Owners = {} => Openings' = Openings)
      BY <1>2, <1>3, <1>9 DEF Openings
    <2> QED
      BY <1>1, <1>5, <1>8, <2>1, AccountsOfTime
  <1>11. TypeOK'
    <2>1. request' \in [Requests -> Underway']
      BY <1>5, <1>6
    <2>2. excused' \in Nat /\ overlaps' \in Nat
      BY <1>5 DEF IInv, TypeOK
    <2>3. (row'.id = 0) <=> (row' = NoRow)
      BY <1>2, <1>3 DEF IInv, TypeOK
    <2>4. \A j \in Requests : Runs(j)' => request'[j].run # 0 /\ request'[j].id # 0
      BY <1>6, <1>7 DEF IInv, TypeOK
    <2> QED
      BY <1>1, <1>2, <1>4, <1>5, <2>1, <2>2, <2>3, <2>4 DEF IInv, TypeOK
  <1>12. RowConsistent'
    <2>1. \A j \in Requests :
            /\ request'[j].at = "remove" => request'[j].id # 0
            /\ request'[j].at = "remove" /\ request'[j].id = row'.id => row'.expired
            /\ request'[j].late => Runs(j)'
      <3>1. \A j \in Requests : request'[j].late => Runs(j)
        BY <1>6 DEF IInv, RowConsistent, Owners
      <3>2. \A j \in Requests : request'[j].at = request[j].at /\ request'[j].id = request[j].id
        BY <1>6
      <3> QED
        BY <1>2, <1>7, <3>1, <3>2 DEF IInv, RowConsistent
    <2> QED
      BY <1>1, <1>2, <1>9, <2>1 DEF RowConsistent
  <1> QED
    BY <1>10, <1>11, <1>12 DEF IInv

(* The key expires.                                                        *)
LEMMA ExpireStep ==
    ASSUME IInv, Expire
    PROVE  IInv'
  <1>1. /\ row # NoRow /\ ~row.expired /\ row' = [row EXCEPT !.expired = TRUE] /\ row \in Rows
        /\ answers' = {} /\ excused' = excused + 1 /\ overlaps' = overlaps + 1
        /\ UNCHANGED <<lastId, request, effects, runs, faults>>
    BY DEF Expire, IInv, TypeOK
  <1>2. /\ row'.id = row.id /\ row'.expired = TRUE /\ row'.status = row.status
        /\ row'.answer = row.answer /\ row'.idle = row.idle
    BY <1>1 DEF Rows
  <1>3. row' # NoRow
    BY <1>2 DEF NoRow
  <1>4. row' \in Rows'
    <2>1. [row EXCEPT !.expired = TRUE] \in Rows
      BY <1>1 DEF Rows
    <2> QED
      BY <1>1, <2>1 DEF Rows
  <1>5. Running' = Running /\ Unspent' = Unspent /\ Owners' = Owners
    BY <1>1, <1>2 DEF Running, Unspent, Owners, Runs, At
  <1>6. EffectsAccounted' /\ AnswersAccounted'
    <2>1. Openings' \in Nat /\ Openings' <= Openings + 1
      BY <1>1, <1>2, <1>3, <1>5 DEF Openings
    <2> QED
      BY <1>1, <1>5, <2>1, AccountsOfTime
  <1>7. TypeOK'
    <2>1. expiries' \in 0 .. MaxExpiries
      BY DEF Expire, IInv, TypeOK
    <2>2. (row'.id = 0) <=> (row' = NoRow)
      BY <1>1, <1>2, <1>3 DEF IInv, TypeOK
    <2>3. \A j \in Requests : Runs(j)' => request'[j].run # 0 /\ request'[j].id # 0
      BY <1>1 DEF IInv, TypeOK, Runs
    <2>4. excused' \in Nat /\ overlaps' \in Nat
      BY <1>1 DEF IInv, TypeOK
    <2>5. request' \in [Requests -> Underway']
      BY <1>1 DEF IInv, TypeOK, Underway
    <2> QED
      BY <1>1, <1>2, <1>4, <2>1, <2>2, <2>3, <2>4, <2>5 DEF IInv, TypeOK
  <1>8. RowConsistent'
    BY <1>1, <1>2, <1>5 DEF IInv, RowConsistent, Runs
  <1> QED
    BY <1>6, <1>7, <1>8 DEF IInv

-----------------------------------------------------------------------------
(* Every step keeps the invariant.                                         *)
LEMMA NextStep == IInv /\ [Next]_vars => IInv'
  <1> SUFFICES ASSUME IInv, [Next]_vars PROVE IInv'
    OBVIOUS
  <1>1. ASSUME NEW i \in Requests, Step(i) \/ Die(i) \/ \E body \in Bodies : Send(i, body)
        PROVE  IInv'
    BY <1>1, ClaimStep, FindStep, RemoveStep, TakeOverStep, RunStep, StoreStep, DieStep, SendStep
       DEF Step
  <1>2. CASE Idle
    BY <1>2, IdleStep
  <1>3. CASE Expire
    BY <1>3, ExpireStep
  <1>4. CASE Purge
    BY <1>4, PurgeStep
  <1>5. CASE UNCHANGED vars
    BY <1>5 DEF vars, account, bounds, IInv, TypeOK, RowConsistent, EffectsAccounted,
       AnswersAccounted, Rows, Underway, Runs, Running, Unspent, Openings, Owners, At
  <1> QED
    BY <1>1, <1>2, <1>3, <1>4, <1>5 DEF Next

(* The accounts balance after every step of every worker.                  *)
THEOREM Invariance == Spec => []IInv
  BY InitStep, NextStep, PTL DEF Spec

(* The key's row, the requests and the counters keep their types.          *)
THEOREM TypeCorrect == Spec => []TypeOK
  <1>1. IInv => TypeOK
    BY DEF IInv
  <1> QED
    BY <1>1, Invariance, PTL

(* However many requests carry the key and however the workers die, fail   *)
(* to store and outlast each other's time: an effect beyond the first is   *)
(* one whose answer was lost, was a 5xx, came late or had expired.         *)
THEOREM EffectsExcused == Spec => []NothingRunsTwice
  <1>1. IInv => NothingRunsTwice
    <2> SUFFICES ASSUME IInv PROVE NothingRunsTwice
      OBVIOUS
    <2> DEFINE U == Cardinality(Unspent)
    <2>1. /\ effects \in Nat /\ excused \in Nat /\ Openings \in Nat /\ U \in Nat
          /\ effects + U + Openings <= 1 + excused
      BY AccountsFinite DEF IInv, TypeOK, EffectsAccounted
    <2> HIDE DEF U
    <2> QED
      BY <2>1 DEF NothingRunsTwice
  <1> QED
    BY <1>1, Invariance, PTL

(* ... and whoever is answered is answered the same, but for the answers   *)
(* that were not stored, came too late or had expired.                     *)
THEOREM AnswersAgree == Spec => []SameAnswer
  <1>1. IInv => SameAnswer
    <2> SUFFICES ASSUME IInv PROVE SameAnswer
      OBVIOUS
    <2> DEFINE A == Cardinality(answers)    R == Cardinality(Running)
    <2>1. /\ overlaps \in Nat /\ Openings \in Nat /\ A \in Nat /\ R \in Nat
          /\ A + R + Openings <= 1 + overlaps
      BY AccountsFinite DEF IInv, TypeOK, AnswersAccounted
    <2>2. A <= 1 + overlaps
      <3> HIDE DEF A, R
      <3> QED
        BY <2>1
    <2> QED
      BY <2>2 DEF SameAnswer
  <1> QED
    BY <1>1, Invariance, PTL

=============================================================================
