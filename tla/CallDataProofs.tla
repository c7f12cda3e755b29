----------------------------- MODULE CallDataProofs -----------------------------
(***************************************************************************)
(* Theorems about CallData: for any calls and requests, any batch and any  *)
(* number of failed commands and crashes.                                  *)
(***************************************************************************)
EXTENDS CallData, WellFoundedInduction, FiniteSetTheorems, TLAPS

USE CallsAssumption, BoundsAssumption

-----------------------------------------------------------------------------
(* The first calls of a set.                                               *)

(* A set of numbers has a least one: strict subsets of 0 .. k are well     *)
(* founded, and so are the numbers by the sets of those before them.       *)
LEMMA Least ==
    ASSUME NEW S \in SUBSET Nat, S # {} PROVE \E m \in S : {d \in S : d < m} = {}
  <1> DEFINE Before(m) == {d \in S : d < m}
  <1>1. PICK k \in S : TRUE
    OBVIOUS
  <1> DEFINE T == {Before(m) : m \in {x \in S : x <= k}}
  <1>2. IsFiniteSet(0 .. k)
    BY FS_Interval
  <1>3. IsWellFoundedOn(StrictSubsetOrdering(0 .. k), SUBSET (0 .. k))
    BY <1>2, FS_StrictSubsetOrderingWellFounded, FS_FiniteSubsetsOfFinite
  <1>4. T \in SUBSET SUBSET (0 .. k) /\ T # {}
    <2>1. ASSUME NEW m \in S, m <= k, NEW d \in Before(m) PROVE d \in 0 .. k
      <3>1. d \in Nat /\ m \in Nat /\ k \in Nat /\ d < m
        OBVIOUS
      <3> QED
        BY <2>1, <3>1
    <2>2. Before(k) \in T
      <3>1. k \in Nat /\ k <= k
        OBVIOUS
      <3> QED
        BY <3>1
    <2> HIDE DEF Before
    <2> QED
      BY <2>1, <2>2
  <1>5. PICK D \in T : \A E \in T : ~(<<E, D>> \in StrictSubsetOrdering(0 .. k))
    <2> HIDE DEF T
    <2> QED
      BY <1>3, <1>4, WFMin
  <1>6. PICK m \in S : m <= k /\ D = Before(m)
    BY <1>5
  <1>7. ASSUME NEW d \in Before(m) PROVE FALSE
    <2>1. d \in S /\ d \in Nat /\ m \in Nat /\ k \in Nat /\ d < m /\ d <= k
      BY <1>6
    <2>2. Before(d) \in T
      BY <2>1
    <2>3. ASSUME NEW e \in Before(d) PROVE e \in Before(m)
      <3>1. e \in S /\ e \in Nat /\ e < d
        OBVIOUS
      <3> QED
        BY <2>1, <3>1
    <2>4. d \notin Before(d)
      BY <2>1
    <2>5. <<Before(d), Before(m)>> \in StrictSubsetOrdering(0 .. k)
      BY <1>4, <1>5, <1>6, <1>7, <2>2, <2>3, <2>4 DEF StrictSubsetOrdering
    <2> QED
      BY <1>5, <1>6, <2>2, <2>5
  <1> QED
    BY <1>7

(* Something comes first unless there is nothing.                          *)
LEMMA FirstOfSome ==
    ASSUME NEW S \in SUBSET Nat, NEW n \in Nat \ {0}, First(S, n) = {} PROVE S = {}
  <1> SUFFICES ASSUME S # {} PROVE FALSE
    OBVIOUS
  <1>1. PICK m \in S : {d \in S : d < m} = {}
    BY Least
  <1>2. Cardinality({d \in S : d < m}) = 0
    BY <1>1, FS_EmptySet
  <1> QED
    BY <1>2 DEF First

-----------------------------------------------------------------------------
(* The requests keep their type.                                           *)

(* A request that is made anew starts at its first step.                   *)
LEMMA Asks ==
    ASSUME TypeOK, NEW r \in Requests, NEW a \in Asked, request' = [request EXCEPT ![r] = a]
    PROVE  request' \in [Requests -> Asked]
  BY DEF TypeOK

(* A request goes on without changing what it read.                        *)
LEMMA GoesOn ==
    ASSUME TypeOK, NEW r \in Requests,
           NEW at \in {"files", "rows", "events", "row", "batch", "done", "refused"}, Goes(r, at)
    PROVE  request' \in [Requests -> Asked]
  <1>1. request[r] \in Asked
    BY DEF TypeOK
  <1>2. [request[r] EXCEPT !.at = at] \in Asked
    BY <1>1 DEF Asked
  <1> QED
    BY <1>2, Asks DEF Goes

(* What a request reads is of the right type.                              *)
LEMMA Reading ==
    ASSUME NEW a \in Asked, NEW recs \in SUBSET Calls, NEW files \in SUBSET Calls,
           NEW known \in SUBSET Calls
    PROVE  [a EXCEPT !.at = "files", !.recs = recs, !.files = files, !.sure = known] \in Asked
  BY DEF Asked

(* A consumer's request is made, reads its calls and their recordings.     *)
LEMMA AskDeleteRequest ==
    ASSUME TypeOK, NEW r \in Requests, NEW c \in Calls, AskDelete(r, c)
    PROVE  request' \in [Requests -> Asked]
  <1> DEFINE at == IF Ended(c) THEN "read" ELSE "refused"
  <1>1. NoRequest \in Asked /\ at \in {"read", "refused"}
    BY DEF NoRequest, Asked
  <1>2. [NoRequest EXCEPT !.at = at, !.kind = "call", !.calls = {c}] \in Asked
    <2> HIDE DEF at
    <2> QED
      BY <1>1 DEF Asked
  <1> QED
    BY <1>2, Asks DEF AskDelete

(* A request that reads its batch.                                         *)
LEMMA ReadBatchRequest ==
    ASSUME TypeOK, NEW r \in Requests, ReadBatch(r)
    PROVE  request' \in [Requests -> Asked]
  <1> DEFINE found == First({c \in Calls : status[c] = "ended"}, Batch)
             at == IF found = {} THEN "done" ELSE "read"
  <1>1. request[r] \in Asked /\ found \in SUBSET Calls /\ at \in {"done", "read"}
    BY DEF TypeOK, First
  <1>2. request' = [request EXCEPT ![r] = [request[r] EXCEPT !.calls = found, !.at = at]]
    BY DEF ReadBatch
  <1>3. [request[r] EXCEPT !.calls = found, !.at = at] \in Asked
    <2> HIDE DEF found, at
    <2> QED
      BY <1>1 DEF Asked
  <1> QED
    BY <1>2, <1>3, Asks

(* A request that reads its call's recording.                              *)
LEMMA ReadRecordingsRequest ==
    ASSUME TypeOK, NEW r \in Requests, ReadRecordings(r)
    PROVE  request' \in [Requests -> Asked]
  <1> DEFINE found == {c \in request[r].calls : HasRow(c)}
             files == {c \in found : key[c]}
             known == {c \in request[r].calls : Settled(c)}
  <1>1. /\ request[r] \in Asked /\ found \in SUBSET Calls
        /\ files \in SUBSET Calls /\ known \in SUBSET Calls
    BY DEF TypeOK, Asked
  <1>2. \/ Goes(r, "refused")
        \/ request' = [request EXCEPT ![r] = [request[r] EXCEPT
                !.at = "files", !.recs = found, !.files = files, !.sure = known]]
    BY DEF ReadRecordings
  <1>3. [request[r] EXCEPT !.at = "files", !.recs = found, !.files = files, !.sure = known]
        \in Asked
    BY <1>1, Reading
  <1> QED
    BY <1>2, <1>3, Asks, GoesOn

(* A request that deletes a file.                                          *)
LEMMA DeleteFileTypes ==
    ASSUME TypeOK, NEW r \in Requests, DeleteFile(r)
    PROVE  /\ request' \in [Requests -> Asked]
           /\ object' \in [Calls -> {"none", "coming", "stored"}]
  <1>1. PICK c \in First(request[r].files, 1) :
          \/ /\ request' = [request EXCEPT ![r].files = @ \ {c}]
             /\ object' = [object EXCEPT ![c] = "none"] /\ UNCHANGED faults
          \/ Goes(r, "refused") /\ Fault /\ UNCHANGED object
    BY DEF DeleteFile
  <1>2. [request[r] EXCEPT !.files = @ \ {c}] \in Asked
    <2>1. request[r] \in Asked
      BY DEF TypeOK
    <2>2. request[r].files \ {c} \in SUBSET Calls
      BY <2>1 DEF Asked
    <2> QED
      BY <2>1, <2>2 DEF Asked
  <1>3. request' \in [Requests -> Asked]
    <2>1. CASE Goes(r, "refused")
      BY <2>1, GoesOn
    <2>2. CASE request' = [request EXCEPT ![r].files = @ \ {c}]
      BY <1>2, <2>2, Asks
    <2> QED
      BY <1>1, <2>1, <2>2
  <1> QED
    BY <1>1, <1>3 DEF TypeOK

(* The sweep that removes details, and may have to end there.              *)
LEMMA SweepDetailTypes ==
    ASSUME TypeOK, SweepDetail
    PROVE  /\ sweep' \in Sweeping /\ faults' \in 0 .. MaxFaults
           /\ detail' \in [Calls -> BOOLEAN]
  <1>1. [sweep EXCEPT !.at = "list"] \in Sweeping /\ NoSweep \in Sweeping
    BY DEF TypeOK, NoSweep, Sweeping
  <1>2. sweep' \in Sweeping
    BY <1>1 DEF SweepDetail, Sweeps
  <1>3. UNCHANGED faults \/ Fault
    BY DEF SweepDetail
  <1>4. faults' \in 0 .. MaxFaults
    BY <1>3 DEF TypeOK, Fault
  <1>5. \E S : detail' = [c \in Calls |-> detail[c] /\ c \notin S]
    BY DEF SweepDetail
  <1> QED
    BY <1>2, <1>4, <1>5

(* The sweep that lists a batch, or is done with one.                      *)
LEMMA ListTypes ==
    ASSUME TypeOK, ListExpired \/ ListDone
    PROVE  sweep' \in Sweeping /\ faults' \in 0 .. MaxFaults
  <1> DEFINE found == First({c \in old : rec[c] = "completed"}, PurgeBatch)
  <1>1. found \in SUBSET Calls
    BY DEF TypeOK, First
  <1>2. [at |-> "next", todo |-> found, call |-> None, progress |-> FALSE] \in Sweeping
    <2> HIDE DEF found
    <2> QED
      BY <1>1 DEF Sweeping
  <1>3. [NoSweep EXCEPT !.at = "list"] \in Sweeping /\ NoSweep \in Sweeping
    BY DEF NoSweep, Sweeping
  <1>4. sweep' \in Sweeping
    <2>1. CASE ListExpired
      BY <1>2, <2>1 DEF ListExpired
    <2>2. CASE ListDone
      BY <1>3, <2>2 DEF ListDone
    <2> QED
      BY <2>1, <2>2
  <1>5. UNCHANGED faults \/ Fault
    BY DEF ListExpired, ListDone
  <1> QED
    BY <1>4, <1>5 DEF TypeOK, Fault

(* The sweep that purges a file.                                           *)
LEMMA PurgeFileTypes ==
    ASSUME TypeOK, PurgeFile
    PROVE  /\ sweep' \in Sweeping /\ faults' \in 0 .. MaxFaults
           /\ object' \in [Calls -> {"none", "coming", "stored"}]
  <1>1. PICK c \in First(sweep.todo, 1) :
          \/ /\ sweep' = [sweep EXCEPT !.at = "mark", !.todo = @ \ {c}, !.call = c]
             /\ object' = [object EXCEPT ![c] = "none"] /\ UNCHANGED faults
          \/ sweep' = [sweep EXCEPT !.todo = @ \ {c}] /\ Fault /\ UNCHANGED object
    BY DEF PurgeFile
  <1>2. c \in Calls /\ sweep \in Sweeping /\ sweep.todo \ {c} \in SUBSET Calls
    BY DEF TypeOK, Sweeping, First
  <1>3. /\ [sweep EXCEPT !.at = "mark", !.todo = @ \ {c}, !.call = c] \in Sweeping
        /\ [sweep EXCEPT !.todo = @ \ {c}] \in Sweeping
    BY <1>2 DEF Sweeping
  <1>4. faults' \in 0 .. MaxFaults
    BY <1>1 DEF TypeOK, Fault
  <1>5. object' \in [Calls -> {"none", "coming", "stored"}]
    BY <1>1 DEF TypeOK
  <1> QED
    BY <1>1, <1>3, <1>4, <1>5

(* A request that deletes the row.                                         *)
LEMMA RemoveTypes ==
    ASSUME TypeOK, NEW S, Remove(S)
    PROVE  rec' \in [Calls -> Unsettled \cup {"none", "completed", "failed", "purged", "removed"}]
  BY DEF TypeOK, Remove

(* A recording has a row of its own.                                       *)
LEMMA NewRowTypes ==
    ASSUME TypeOK, NEW c \in Calls, NEW s \in {"failed", "recording"}, NewRow(c, s)
    PROVE  /\ rec' \in [Calls -> Unsettled \cup {"none", "completed", "failed", "purged", "removed"}]
           /\ request' \in [Requests -> Asked]
  <1>1. ASSUME NEW a \in Asked PROVE [a EXCEPT !.recs = @ \ {c}] \in Asked
    BY DEF Asked
  <1>2. \A r \in Requests : request[r] \in Asked
    BY DEF TypeOK
  <1>3. request' \in [Requests -> Asked]
    BY <1>1, <1>2 DEF NewRow
  <1> QED
    BY <1>3 DEF NewRow, TypeOK, Unsettled

(* A recording is begun, if the call is still there.                       *)
LEMMA BeginFileTypes ==
    ASSUME TypeOK, NEW c \in Calls, BeginFile(c)
    PROVE  /\ rec' \in [Calls -> Unsettled \cup {"none", "completed", "failed", "purged", "removed"}]
           /\ request' \in [Requests -> Asked]
  <1>1. (\E s \in {"failed", "recording"} : NewRow(c, s)) \/ UNCHANGED <<rec, request>>
    BY DEF BeginFile
  <1>2. CASE UNCHANGED <<rec, request>>
    BY <1>2 DEF TypeOK
  <1>3. ASSUME NEW s \in {"failed", "recording"}, NewRow(c, s)
        PROVE  /\ rec' \in [Calls -> Unsettled \cup {"none", "completed", "failed", "purged",
                                                   "removed"}]
               /\ request' \in [Requests -> Asked]
    BY <1>3, NewRowTypes
  <1> QED
    BY <1>1, <1>2, <1>3

-----------------------------------------------------------------------------
(* Every step keeps the types.                                             *)
LEMMA TypesKept == TypeOK /\ [Next]_vars => TypeOK'
  <1> SUFFICES ASSUME TypeOK, [Next]_vars PROVE TypeOK'
    OBVIOUS
  <1> USE DEF TypeOK, records, audio, erasure, retention
  <1>1. ASSUME NEW c \in Calls,
               \/ EndCall(c) \/ Announce(c) \/ StartRecording(c) \/ Recording(c)
               \/ UploadArrives(c) \/ Crash(c) \/ FailStale(c)
        PROVE  TypeOK'
    <2> USE DEF Recorder, Row, HasRow, Unsettled, Fault
    <2>1. CASE EndCall(c)
      BY <2>1 DEF EndCall
    <2>2. CASE Announce(c)
      BY <2>2 DEF Announce
    <2>3. CASE StartRecording(c)
      BY <2>3 DEF StartRecording
    <2>4. CASE BeginFile(c)
      <3>1. /\ rec' \in [Calls -> Unsettled \cup {"none", "completed", "failed", "purged", "removed"}]
            /\ request' \in [Requests -> Asked]
        BY <2>4, BeginFileTypes
      <3> QED
        BY <2>4, <3>1 DEF BeginFile
    <2>5. CASE CloseRoom(c)
      BY <2>5 DEF CloseRoom
    <2>6. CASE HandToMediaServer(c)
      BY <2>6 DEF HandToMediaServer
    <2>7. CASE UploadArrives(c)
      BY <2>7 DEF UploadArrives
    <2>8. CASE StoreKey(c)
      BY <2>8 DEF StoreKey
    <2>9. CASE MarkCompleted(c)
      BY <2>9 DEF MarkCompleted
    <2>10. CASE GiveUpUpload(c)
      BY <2>10 DEF GiveUpUpload
    <2>11. CASE Crash(c)
      BY <2>11 DEF Crash
    <2>12. CASE FailStale(c)
      BY <2>12 DEF FailStale
    <2> QED
      BY <1>1, <2>1, <2>2, <2>3, <2>4, <2>5, <2>6, <2>7, <2>8, <2>9, <2>10, <2>11, <2>12
         DEF Recording
  <1>2. ASSUME NEW r \in Requests, NEW c \in Calls, AskDelete(r, c)
        PROVE  TypeOK'
    <2>1. request' \in [Requests -> Asked]
      BY <1>2, AskDeleteRequest
    <2> QED
      BY <1>2, <2>1 DEF AskDelete
  <1>3. ASSUME NEW r \in Requests, AskErase(r) \/ Answer(r)
        PROVE  TypeOK'
    <2>1. CASE AskErase(r)
      BY <2>1 DEF AskErase, NoRequest, Asked
    <2>2. CASE ReadBatch(r)
      BY <2>2, ReadBatchRequest DEF ReadBatch
    <2>3. CASE ReadRecordings(r)
      BY <2>3, ReadRecordingsRequest DEF ReadRecordings
    <2>4. CASE DeleteFile(r)
      BY <2>4, DeleteFileTypes DEF DeleteFile, Fault
    <2>5. CASE FilesDeleted(r)
      BY <2>5, GoesOn DEF FilesDeleted
    <2>6. CASE DeleteRows(r)
      BY <2>6, GoesOn, RemoveTypes DEF DeleteRows
    <2>7. CASE DeleteDeliveries(r)
      BY <2>7, GoesOn DEF DeleteDeliveries
    <2>8. CASE DeleteCall(r)
      BY <2>8, GoesOn, RemoveTypes DEF DeleteCall, Asked
    <2>9. CASE Anonymise(r)
      BY <2>9, GoesOn DEF Anonymise, Asked
    <2> QED
      BY <1>3, <2>1, <2>2, <2>3, <2>4, <2>5, <2>6, <2>7, <2>8, <2>9 DEF Answer
  <1>4. ASSUME TimePasses \/ SweepStep \/ SweptExpires \/ SweepDies
        PROVE  TypeOK'
    <2>1. CASE TimePasses
      BY <2>1 DEF TimePasses
    <2>2. CASE BeginSweep
      BY <2>2 DEF BeginSweep, Sweeps, Sweeping
    <2>3. CASE SweptExpires
      BY <2>3 DEF SweptExpires
    <2>4. CASE SweepDetail
      BY <2>4, SweepDetailTypes DEF SweepDetail
    <2>5. CASE ListExpired
      BY <2>5, ListTypes DEF ListExpired
    <2>6. CASE PurgeFile
      BY <2>6, PurgeFileTypes DEF PurgeFile
    <2>7. CASE MarkPurged
      BY <2>7 DEF MarkPurged, Sweeping, Unsettled
    <2>8. CASE ListDone
      BY <2>8, ListTypes DEF ListDone
    <2>9. CASE SweepDies
      BY <2>9 DEF SweepDies, NoSweep, Sweeping, Fault
    <2> QED
      BY <1>4, <2>1, <2>2, <2>3, <2>4, <2>5, <2>6, <2>7, <2>8, <2>9 DEF SweepStep
  <1>5. CASE UNCHANGED vars
    BY <1>5 DEF vars
  <1> QED
    BY <1>1, <1>2, <1>3, <1>4, <1>5 DEF Next

(* A completed recording is nobody's work any more, and only such a one   *)
(* is purged, after its file is gone.                                      *)
LEMMA FilesKept == IInv /\ [Next]_vars => RowsFollowFiles'
  <1> SUFFICES ASSUME IInv, [Next]_vars PROVE RowsFollowFiles'
    OBVIOUS
  <1> USE DEF IInv, TypeOK, RowsFollowFiles, Over, records, audio, erasure, retention
  <1>1. ASSUME NEW c \in Calls,
               \/ EndCall(c) \/ Announce(c) \/ StartRecording(c) \/ Recording(c)
               \/ UploadArrives(c) \/ Crash(c) \/ FailStale(c)
        PROVE  RowsFollowFiles'
    <2> USE DEF Recorder, Row, HasRow, Unsettled
    <2>1. CASE EndCall(c)
      BY <2>1 DEF EndCall
    <2>2. CASE Announce(c)
      BY <2>2 DEF Announce
    <2>3. CASE StartRecording(c)
      BY <2>3 DEF StartRecording
    <2>4. CASE BeginFile(c)
      BY <2>4 DEF BeginFile, NewRow
    <2>5. CASE CloseRoom(c)
      BY <2>5 DEF CloseRoom
    <2>6. CASE HandToMediaServer(c)
      BY <2>6 DEF HandToMediaServer
    <2>7. CASE UploadArrives(c)
      BY <2>7 DEF UploadArrives
    <2>8. CASE StoreKey(c)
      BY <2>8 DEF StoreKey
    <2>9. CASE MarkCompleted(c)
      BY <2>9 DEF MarkCompleted
    <2>10. CASE GiveUpUpload(c)
      BY <2>10 DEF GiveUpUpload
    <2>11. CASE Crash(c)
      BY <2>11 DEF Crash
    <2>12. CASE FailStale(c)
      BY <2>12 DEF FailStale
    <2> QED
      BY <1>1, <2>1, <2>2, <2>3, <2>4, <2>5, <2>6, <2>7, <2>8, <2>9, <2>10, <2>11, <2>12
         DEF Recording
  <1>2. ASSUME NEW r \in Requests, NEW c \in Calls, AskDelete(r, c)
        PROVE  RowsFollowFiles'
    BY <1>2 DEF AskDelete
  <1>3. ASSUME NEW r \in Requests, AskErase(r) \/ Answer(r)
        PROVE  RowsFollowFiles'
    <2>1. CASE AskErase(r)
      BY <2>1 DEF AskErase
    <2>2. CASE ReadBatch(r)
      BY <2>2 DEF ReadBatch
    <2>3. CASE ReadRecordings(r)
      BY <2>3 DEF ReadRecordings
    <2>4. CASE DeleteFile(r)
      BY <2>4 DEF DeleteFile, First
    <2>5. CASE FilesDeleted(r)
      BY <2>5 DEF FilesDeleted
    <2>6. CASE DeleteRows(r)
      BY <2>6 DEF DeleteRows, Remove, HasRow
    <2>7. CASE DeleteDeliveries(r)
      BY <2>7 DEF DeleteDeliveries
    <2>8. CASE DeleteCall(r)
      BY <2>8 DEF DeleteCall, Remove, HasRow
    <2>9. CASE Anonymise(r)
      BY <2>9 DEF Anonymise
    <2> QED
      BY <1>3, <2>1, <2>2, <2>3, <2>4, <2>5, <2>6, <2>7, <2>8, <2>9 DEF Answer
  <1>4. ASSUME TimePasses \/ SweepStep \/ SweptExpires \/ SweepDies
        PROVE  RowsFollowFiles'
    <2> USE DEF Sweeping
    <2>1. CASE TimePasses
      BY <2>1 DEF TimePasses
    <2>2. CASE BeginSweep
      BY <2>2 DEF BeginSweep, Sweeps
    <2>3. CASE SweptExpires
      BY <2>3 DEF SweptExpires
    <2>4. CASE SweepDetail
      BY <2>4 DEF SweepDetail, Sweeps
    <2>5. CASE ListExpired
      BY <2>5 DEF ListExpired
    <2>6. CASE PurgeFile
      BY <2>6 DEF PurgeFile, First
    <2>7. CASE MarkPurged
      BY <2>7 DEF MarkPurged, SweepFollowsFiles
    <2>8. CASE ListDone
      BY <2>8 DEF ListDone, NoSweep
    <2>9. CASE SweepDies
      BY <2>9 DEF SweepDies, NoSweep
    <2> QED
      BY <1>4, <2>1, <2>2, <2>3, <2>4, <2>5, <2>6, <2>7, <2>8, <2>9 DEF SweepStep
  <1>5. CASE UNCHANGED vars
    BY <1>5 DEF vars
  <1> QED
    BY <1>1, <1>2, <1>3, <1>4, <1>5 DEF Next

(* What the sweep has read stays true: nobody takes a finished recording   *)
(* up again.                                                               *)
LEMMA SweepKept == IInv /\ [Next]_vars => SweepFollowsFiles'
  <1> SUFFICES ASSUME IInv, [Next]_vars PROVE SweepFollowsFiles'
    OBVIOUS
  <1> USE DEF IInv, TypeOK, RowsFollowFiles, SweepFollowsFiles, Over, records, audio, erasure,
             retention
  <1>1. ASSUME NEW c \in Calls,
               \/ EndCall(c) \/ Announce(c) \/ StartRecording(c) \/ Recording(c)
               \/ UploadArrives(c) \/ Crash(c) \/ FailStale(c)
        PROVE  SweepFollowsFiles'
    <2> USE DEF Recorder, Row, HasRow, Unsettled
    <2>1. CASE EndCall(c)
      BY <2>1 DEF EndCall
    <2>2. CASE Announce(c)
      BY <2>2 DEF Announce
    <2>3. CASE StartRecording(c)
      BY <2>3 DEF StartRecording
    <2>4. CASE BeginFile(c)
      <3>1. \A x \in Calls : /\ Over(x) => Over(x)'
                             /\ Over(x) /\ object[x] = "none" => object'[x] = "none"
        BY <2>4 DEF BeginFile
      <3>2. sweep' = sweep /\ sweep.todo \subseteq Calls
        BY <2>4 DEF BeginFile, Sweeping
      <3> QED
        BY <3>1, <3>2
    <2>5. CASE CloseRoom(c)
      <3>1. \A x \in Calls : /\ Over(x) => Over(x)'
                             /\ Over(x) /\ object[x] = "none" => object'[x] = "none"
        BY <2>5 DEF CloseRoom
      <3>2. sweep' = sweep /\ sweep.todo \subseteq Calls
        BY <2>5 DEF CloseRoom, Sweeping
      <3> QED
        BY <3>1, <3>2
    <2>6. CASE HandToMediaServer(c)
      <3>1. \A x \in Calls : /\ Over(x) => Over(x)'
                             /\ Over(x) /\ object[x] = "none" => object'[x] = "none"
        BY <2>6 DEF HandToMediaServer
      <3>2. sweep' = sweep /\ sweep.todo \subseteq Calls
        BY <2>6 DEF HandToMediaServer, Sweeping
      <3> QED
        BY <3>1, <3>2
    <2>7. CASE UploadArrives(c)
      BY <2>7 DEF UploadArrives
    <2>8. CASE StoreKey(c)
      BY <2>8 DEF StoreKey
    <2>9. CASE MarkCompleted(c)
      BY <2>9 DEF MarkCompleted
    <2>10. CASE GiveUpUpload(c)
      BY <2>10 DEF GiveUpUpload
    <2>11. CASE Crash(c)
      BY <2>11 DEF Crash
    <2>12. CASE FailStale(c)
      BY <2>12 DEF FailStale
    <2> QED
      BY <1>1, <2>1, <2>2, <2>3, <2>4, <2>5, <2>6, <2>7, <2>8, <2>9, <2>10, <2>11, <2>12
         DEF Recording
  <1>2. ASSUME NEW r \in Requests, NEW c \in Calls, AskDelete(r, c)
        PROVE  SweepFollowsFiles'
    BY <1>2 DEF AskDelete
  <1>3. ASSUME NEW r \in Requests, AskErase(r) \/ Answer(r)
        PROVE  SweepFollowsFiles'
    <2>1. CASE AskErase(r)
      BY <2>1 DEF AskErase
    <2>2. CASE ReadBatch(r)
      BY <2>2 DEF ReadBatch
    <2>3. CASE ReadRecordings(r)
      BY <2>3 DEF ReadRecordings
    <2>4. CASE DeleteFile(r)
      <3>1. \A x \in Calls : object'[x] \in {object[x], "none"}
        BY <2>4 DEF DeleteFile, First
      <3>2. recorder' = recorder /\ sweep' = sweep /\ sweep.todo \subseteq Calls
        BY <2>4 DEF DeleteFile, Sweeping
      <3> QED
        BY <3>1, <3>2
    <2>5. CASE FilesDeleted(r)
      BY <2>5 DEF FilesDeleted
    <2>6. CASE DeleteRows(r)
      BY <2>6 DEF DeleteRows, Remove, HasRow
    <2>7. CASE DeleteDeliveries(r)
      BY <2>7 DEF DeleteDeliveries
    <2>8. CASE DeleteCall(r)
      BY <2>8 DEF DeleteCall, Remove, HasRow
    <2>9. CASE Anonymise(r)
      BY <2>9 DEF Anonymise
    <2> QED
      BY <1>3, <2>1, <2>2, <2>3, <2>4, <2>5, <2>6, <2>7, <2>8, <2>9 DEF Answer
  <1>4. ASSUME TimePasses \/ SweepStep \/ SweptExpires \/ SweepDies
        PROVE  SweepFollowsFiles'
    <2> USE DEF Sweeping
    <2>1. CASE TimePasses
      BY <2>1 DEF TimePasses
    <2>2. CASE BeginSweep
      BY <2>2 DEF BeginSweep, Sweeps
    <2>3. CASE SweptExpires
      BY <2>3 DEF SweptExpires
    <2>4. CASE SweepDetail
      <3>1. sweep'.at # "mark" /\ sweep'.todo \subseteq sweep.todo
        BY <2>4 DEF SweepDetail, Sweeps, NoSweep
      <3> QED
        BY <2>4, <3>1 DEF SweepDetail
    <2>5. CASE ListExpired
      <3>1. sweep'.at = "next" /\ sweep'.todo \subseteq {c \in old : rec[c] = "completed"}
        BY <2>5 DEF ListExpired, First
      <3> QED
        BY <2>5, <3>1 DEF ListExpired
    <2>6. CASE PurgeFile
      <3>1. PICK c \in First(sweep.todo, 1) :
              \/ /\ sweep' = [sweep EXCEPT !.at = "mark", !.todo = @ \ {c}, !.call = c]
                 /\ object' = [object EXCEPT ![c] = "none"] /\ UNCHANGED faults
              \/ sweep' = [sweep EXCEPT !.todo = @ \ {c}] /\ Fault /\ UNCHANGED object
        BY <2>6 DEF PurgeFile
      <3>2. c \in sweep.todo /\ c \in Calls /\ recorder' = recorder /\ sweep \in Sweeping
        BY <2>6 DEF PurgeFile, First
      <3>3. CASE /\ sweep' = [sweep EXCEPT !.at = "mark", !.todo = @ \ {c}, !.call = c]
                 /\ object' = [object EXCEPT ![c] = "none"]
        <4>1. sweep'.todo = sweep.todo \ {c} /\ sweep'.call = c
          BY <3>2, <3>3
        <4>2. object'[c] = "none" /\ \A x \in Calls \ {c} : object'[x] = object[x]
          BY <3>2, <3>3
        <4> QED
          BY <3>2, <4>1, <4>2
      <3>4. CASE sweep' = [sweep EXCEPT !.todo = @ \ {c}] /\ UNCHANGED object
        <4>1. sweep'.todo = sweep.todo \ {c} /\ sweep'.call = sweep.call /\ sweep'.at = "next"
          BY <2>6, <3>2, <3>4 DEF PurgeFile
        <4> QED
          BY <3>2, <3>4, <4>1
      <3> QED
        BY <3>1, <3>3, <3>4
    <2>7. CASE MarkPurged
      BY <2>7 DEF MarkPurged, SweepFollowsFiles
    <2>8. CASE ListDone
      BY <2>8 DEF ListDone, NoSweep
    <2>9. CASE SweepDies
      BY <2>9 DEF SweepDies, NoSweep
    <2> QED
      BY <1>4, <2>1, <2>2, <2>3, <2>4, <2>5, <2>6, <2>7, <2>8, <2>9 DEF SweepStep
  <1>5. CASE UNCHANGED vars
    BY <1>5 DEF vars
  <1> QED
    BY <1>1, <1>2, <1>3, <1>4, <1>5 DEF Next

-----------------------------------------------------------------------------
(* What no step undoes: a call that has ended, been erased or been deleted, *)
(* and of one that is silent, the log, the event and the file that are gone. *)
SilentRests == \A x \in Calls :
    /\ status[x] # "live" => status'[x] # "live"
    /\ status[x] \in Erased => status'[x] \in Erased
    /\ status[x] = "deleted" => status'[x] = "deleted"
    /\ Silent(x) => /\ Silent(x)'
                    /\ ~told[x] => ~told'[x]
                    /\ ~detail[x] => ~detail'[x]
                    /\ object[x] # "coming" => object'[x] # "coming"
                    /\ object[x] = "none" => object'[x] = "none"

(* Nobody ends a call twice, announces its end twice or records it again   *)
(* once the room is closed.                                                *)
LEMMA SilentKept == TypeOK /\ [Next]_vars => SilentRests
  <1> SUFFICES ASSUME TypeOK, [Next]_vars PROVE SilentRests
    OBVIOUS
  <1> USE DEF TypeOK, SilentRests, Silent, Erased, records, audio, erasure, retention
  <1>1. ASSUME NEW c \in Calls,
               \/ EndCall(c) \/ Announce(c) \/ StartRecording(c) \/ Recording(c)
               \/ UploadArrives(c) \/ Crash(c) \/ FailStale(c)
        PROVE  SilentRests
    <2> USE DEF Recorder
    <2>1. CASE EndCall(c)
      BY <2>1 DEF EndCall
    <2>2. CASE Announce(c)
      BY <2>2 DEF Announce
    <2>3. CASE StartRecording(c)
      BY <2>3 DEF StartRecording
    <2>4. CASE BeginFile(c)
      BY <2>4 DEF BeginFile
    <2>5. CASE CloseRoom(c)
      BY <2>5 DEF CloseRoom
    <2>6. CASE HandToMediaServer(c)
      BY <2>6 DEF HandToMediaServer
    <2>7. CASE UploadArrives(c)
      BY <2>7 DEF UploadArrives
    <2>8. CASE StoreKey(c)
      BY <2>8 DEF StoreKey
    <2>9. CASE MarkCompleted(c)
      BY <2>9 DEF MarkCompleted
    <2>10. CASE GiveUpUpload(c)
      BY <2>10 DEF GiveUpUpload
    <2>11. CASE Crash(c)
      BY <2>11 DEF Crash
    <2>12. CASE FailStale(c)
      BY <2>12 DEF FailStale
    <2> QED
      BY <1>1, <2>1, <2>2, <2>3, <2>4, <2>5, <2>6, <2>7, <2>8, <2>9, <2>10, <2>11, <2>12
         DEF Recording
  <1>2. ASSUME NEW r \in Requests, NEW c \in Calls, AskDelete(r, c)
        PROVE  SilentRests
    BY <1>2 DEF AskDelete
  <1>3. ASSUME NEW r \in Requests, AskErase(r) \/ Answer(r)
        PROVE  SilentRests
    <2>1. CASE AskErase(r)
      BY <2>1 DEF AskErase
    <2>2. CASE ReadBatch(r)
      BY <2>2 DEF ReadBatch
    <2>3. CASE ReadRecordings(r)
      BY <2>3 DEF ReadRecordings
    <2>4. CASE DeleteFile(r)
      <3>1. \A x \in Calls : object'[x] \in {object[x], "none"}
        BY <2>4 DEF DeleteFile, First
      <3> QED
        BY <2>4, <3>1 DEF DeleteFile
    <2>5. CASE FilesDeleted(r)
      BY <2>5 DEF FilesDeleted
    <2>6. CASE DeleteRows(r)
      BY <2>6 DEF DeleteRows
    <2>7. CASE DeleteDeliveries(r)
      BY <2>7 DEF DeleteDeliveries
    <2>8. CASE DeleteCall(r)
      BY <2>8 DEF DeleteCall
    <2>9. CASE Anonymise(r)
      BY <2>9 DEF Anonymise, Ended
    <2> QED
      BY <1>3, <2>1, <2>2, <2>3, <2>4, <2>5, <2>6, <2>7, <2>8, <2>9 DEF Answer
  <1>4. ASSUME TimePasses \/ SweepStep \/ SweptExpires \/ SweepDies
        PROVE  SilentRests
    <2>1. CASE TimePasses
      BY <2>1 DEF TimePasses
    <2>2. CASE BeginSweep
      BY <2>2 DEF BeginSweep
    <2>3. CASE SweptExpires
      BY <2>3 DEF SweptExpires
    <2>4. CASE SweepDetail
      BY <2>4 DEF SweepDetail
    <2>5. CASE ListExpired
      BY <2>5 DEF ListExpired
    <2>6. CASE PurgeFile
      <3>1. \A x \in Calls : object'[x] \in {object[x], "none"}
        BY <2>6 DEF PurgeFile, First, Sweeping
      <3> QED
        BY <2>6, <3>1 DEF PurgeFile
    <2>7. CASE MarkPurged
      BY <2>7 DEF MarkPurged
    <2>8. CASE ListDone
      BY <2>8 DEF ListDone
    <2>9. CASE SweepDies
      BY <2>9 DEF SweepDies
    <2> QED
      BY <1>4, <2>1, <2>2, <2>3, <2>4, <2>5, <2>6, <2>7, <2>8, <2>9 DEF SweepStep
  <1>5. CASE UNCHANGED vars
    BY <1>5 DEF vars
  <1> QED
    BY <1>1, <1>2, <1>3, <1>4, <1>5 DEF Next

(* What the invariant says of one request.                                 *)
BatchEnded(q) ==
    /\ \A c \in request[q].before : status[c] # "live"
    /\ InBatch(q) => \A c \in request[q].calls : status[c] # "live"
    /\ InBatch(q) /\ request[q].kind = "customer" => request[q].calls # {}
SureOf(q, c) ==
    /\ c \in request[q].calls /\ Silent(c) /\ object[c] # "coming"
    /\ object[c] = "none" \/ (At(q, "files") /\ c \in request[q].files)
    /\ At(q, "row") => ~told[c]
IsSure(q) == HasRead(q) => \A c \in request[q].sure : SureOf(q, c)
Reached(q) ==
    At(q, "done") /\ request[q].kind = "customer" /\ ~Overtaken(q)
        => \A c \in request[q].before : status[c] \in Erased
Sound(q) == BatchEnded(q) /\ IsSure(q) /\ Reached(q)

SameRequest(q) ==
    /\ request'[q].at = request[q].at /\ request'[q].kind = request[q].kind
    /\ request'[q].calls = request[q].calls /\ request'[q].files = request[q].files
    /\ request'[q].sure = request[q].sure /\ request'[q].before = request[q].before

(* The parts of the invariant about requests are those of each.            *)
LEMMA EachSound ==
    (\A q \in Requests : Sound(q)) <=> (BatchesHaveEnded /\ RequestsAreSure /\ EndedCallsAreErased)
  BY DEF Sound, BatchEnded, IsSure, SureOf, Reached, BatchesHaveEnded, RequestsAreSure,
         EndedCallsAreErased

(* And after a step.                                                       *)
LEMMA EachSoundThen ==
    (\A q \in Requests : Sound(q)') => BatchesHaveEnded' /\ RequestsAreSure' /\ EndedCallsAreErased'
  BY DEF Sound, BatchEnded, IsSure, SureOf, Reached, BatchesHaveEnded, RequestsAreSure,
         EndedCallsAreErased

(* Nothing happens elsewhere that a request could not bear.                *)
LEMMA Resting ==
    ASSUME TypeOK, SilentRests, NEW q \in Requests, Sound(q), SameRequest(q)
    PROVE  Sound(q)'
  <1>1. /\ request[q].calls \subseteq Calls /\ request[q].sure \subseteq Calls
        /\ request[q].before \subseteq Calls
    BY DEF TypeOK, Asked
  <1>2. BatchEnded(q)'
    BY <1>1 DEF Sound, BatchEnded, SameRequest, SilentRests, InBatch
  <1>3. IsSure(q)'
    <2> SUFFICES ASSUME HasRead(q)', NEW c \in request'[q].sure PROVE SureOf(q, c)'
      BY DEF IsSure
    <2>1. HasRead(q) /\ c \in request[q].sure /\ c \in Calls
      BY <1>1 DEF SameRequest, HasRead
    <2>2. SureOf(q, c)
      BY <2>1 DEF Sound, IsSure
    <2> QED
      BY <2>1, <2>2 DEF SureOf, SameRequest, SilentRests, At
  <1>4. Reached(q)'
    <2>1. Overtaken(q) => Overtaken(q)'
      BY <1>1 DEF Overtaken, SameRequest, SilentRests
    <2> QED
      BY <1>1, <2>1 DEF Sound, Reached, SameRequest, SilentRests, At
  <1> QED
    BY <1>2, <1>3, <1>4 DEF Sound

(* A request's step is nobody else's.                                      *)
LEMMA OthersRest ==
    ASSUME TypeOK, NEW r \in Requests,
           AskErase(r) \/ Answer(r) \/ \E c \in Calls : AskDelete(r, c)
    PROVE  \A q \in Requests \ {r} : SameRequest(q)
  <1> USE DEF TypeOK, SameRequest, Goes
  <1>1. ASSUME NEW c \in Calls, AskDelete(r, c) PROVE \A q \in Requests \ {r} : SameRequest(q)
    BY <1>1 DEF AskDelete
  <1>2. CASE AskErase(r)
    BY <1>2 DEF AskErase
  <1>3. CASE ReadBatch(r)
    BY <1>3 DEF ReadBatch
  <1>4. CASE ReadRecordings(r)
    BY <1>4 DEF ReadRecordings
  <1>5. CASE DeleteFile(r)
    BY <1>5 DEF DeleteFile
  <1>6. CASE FilesDeleted(r) \/ DeleteRows(r) \/ DeleteDeliveries(r) \/ DeleteCall(r) \/ Anonymise(r)
    BY <1>6 DEF FilesDeleted, DeleteRows, DeleteDeliveries, DeleteCall, Anonymise
  <1> QED
    BY <1>1, <1>2, <1>3, <1>4, <1>5, <1>6 DEF Answer

(* A request that is made knows nothing; a call is asked for when it has   *)
(* ended, a customer with the calls that have.                             *)
LEMMA AskSound ==
    ASSUME TypeOK, NEW r \in Requests, AskErase(r) \/ \E c \in Calls : AskDelete(r, c)
    PROVE  Sound(r)'
  <1> USE DEF Sound, BatchEnded, IsSure, Reached, InBatch, HasRead, At
  <1>1. CASE AskErase(r)
    <2>1. /\ request'[r].at = "batch"
          /\ request'[r].before = {c \in Calls : status[c] = "ended"}
          /\ status' = status
      BY <1>1 DEF AskErase, NoRequest, TypeOK, records
    <2> QED
      BY <2>1
  <1>2. ASSUME NEW c \in Calls, AskDelete(r, c) PROVE Sound(r)'
    <2>1. /\ request'[r].at = IF Ended(c) THEN "read" ELSE "refused"
          /\ request'[r].kind = "call" /\ request'[r].calls = {c} /\ request'[r].before = {}
          /\ status' = status
      BY <1>2 DEF AskDelete, NoRequest, TypeOK, records
    <2> QED
      BY <2>1 DEF Ended
  <1> QED
    BY <1>1, <1>2

(* A batch is of ended calls; without one, none of the customer's calls is *)
(* ended any more.                                                         *)
LEMMA ReadBatchSound ==
    ASSUME TypeOK, NEW r \in Requests, Sound(r), ReadBatch(r)
    PROVE  Sound(r)'
  <1> DEFINE ended == {c \in Calls : status[c] = "ended"}
             found == First(ended, Batch)
  <1>1. /\ request'[r].at = IF found = {} THEN "done" ELSE "read"
        /\ request'[r].calls = found /\ request'[r].before = request[r].before
        /\ status' = status
    BY DEF ReadBatch, TypeOK, records
  <1>2. \A c \in found : status[c] # "live"
    BY DEF First
  <1>3. found = {} => ended = {}
    <2>1. ended \in SUBSET Nat
      BY DEF TypeOK
    <2> HIDE DEF ended
    <2> QED
      BY <2>1, FirstOfSome
  <1>4. request[r].before \subseteq Calls
    BY DEF TypeOK, Asked
  <1>5. found = {} => \A c \in request[r].before : status[c] \in Erased
    <2> SUFFICES ASSUME found = {}, NEW c \in request[r].before PROVE status[c] \in Erased
      OBVIOUS
    <2>1. c \in Calls /\ c \notin ended /\ status[c] # "live"
      BY <1>3, <1>4 DEF Sound, BatchEnded
    <2> QED
      BY <2>1 DEF TypeOK, Erased
  <1> HIDE DEF found, ended
  <1> QED
    BY <1>1, <1>2, <1>5 DEF Sound, BatchEnded, IsSure, Reached, InBatch, HasRead, At

(* What a request is sure of when it has read the rows: the file is known  *)
(* or there is none, and no upload is on its way.                          *)
LEMMA ReadRecordingsSound ==
    ASSUME TypeOK, RowsFollowFiles, NEW r \in Requests, Sound(r), ReadRecordings(r)
    PROVE  Sound(r)'
  <1> DEFINE found == {c \in request[r].calls : HasRow(c)}
             files == {c \in found : key[c]}
             known == {c \in request[r].calls : Settled(c)}
             Read == [request[r] EXCEPT !.at = "files", !.recs = found, !.files = files,
                                        !.sure = known]
  <1>1. /\ InBatch(r) /\ UNCHANGED <<records, audio>>
        /\ \/ Goes(r, "refused")
           \/ /\ ~\E x \in found : rec[x] \in Unsettled
              /\ request' = [request EXCEPT ![r] = Read]
    BY DEF ReadRecordings, InBatch, At
  <1>2. /\ Read.at = "files" /\ Read.files = files /\ Read.sure = known
        /\ Read.kind = request[r].kind /\ Read.calls = request[r].calls
        /\ Read.before = request[r].before
    <2>1. request[r] \in Asked
      BY DEF TypeOK
    <2> HIDE DEF found, files, known
    <2> QED
      BY <2>1 DEF Asked
  <1> HIDE DEF Read
  <1>3. /\ request'[r].kind = request[r].kind /\ request'[r].calls = request[r].calls
        /\ request'[r].before = request[r].before /\ request'[r].at \in {"files", "refused"}
    <2>1. CASE Goes(r, "refused")
      BY <2>1 DEF Goes, TypeOK
    <2>2. CASE request' = [request EXCEPT ![r] = Read]
      BY <1>2, <2>2 DEF TypeOK
    <2> QED
      BY <1>1, <2>1, <2>2
  <1>4. BatchEnded(r)'
    BY <1>1, <1>3 DEF Sound, BatchEnded, records
  <1>5. ASSUME request'[r].at = "files", NEW c \in request'[r].sure PROVE SureOf(r, c)'
    <2>1. ~Goes(r, "refused")
      <3>1. request[r] \in Asked /\ r \in DOMAIN request
        BY DEF TypeOK
      <3>2. Goes(r, "refused") => request'[r].at = "refused"
        BY <3>1 DEF Goes, Asked
      <3> QED
        BY <1>5, <3>2
    <2>2. ~(\E x \in found : rec[x] \in Unsettled) /\ request'[r].files = files /\ c \in known
      <3> HIDE DEF found, files, known
      <3>1. ~(\E x \in found : rec[x] \in Unsettled) /\ request' = [request EXCEPT ![r] = Read]
        BY <1>1, <2>1
      <3>2. request'[r] = Read
        BY <3>1 DEF TypeOK
      <3> QED
        BY <1>2, <1>5, <3>1, <3>2
    <2>3. c \in request[r].calls /\ Settled(c) /\ c \in Calls
      BY <2>2 DEF TypeOK, Asked
    <2>4. rec[c] \notin Unsettled
      BY <2>2, <2>3 DEF HasRow, Unsettled
    <2>5. object[c] # "none" => key[c] /\ c \in found
      BY <2>3, <2>4 DEF Settled
    <2>6. object[c] # "coming"
      BY <2>3, <2>5 DEF RowsFollowFiles
    <2> QED
      BY <1>1, <1>3, <1>5, <2>2, <2>3, <2>5, <2>6 DEF SureOf, Silent, Settled, At, records, audio
  <1>6. IsSure(r)' /\ Reached(r)'
    BY <1>3, <1>5 DEF IsSure, HasRead, Reached, At
  <1> QED
    BY <1>4, <1>6 DEF Sound

(* A request goes on within its batch, or is refused.                      *)
LEMMA GoesSound ==
    ASSUME TypeOK, SilentRests, NEW r \in Requests, Sound(r), HasRead(r),
           NEW step \in {"rows", "events", "row", "refused"}, Goes(r, step),
           ASSUME NEW c \in request[r].sure, step # "refused"
           PROVE  object[c] = "none" /\ (step = "row" => ~told'[c])
    PROVE  Sound(r)'
  <1>1. /\ request'[r].at = step /\ request'[r].kind = request[r].kind
        /\ request'[r].calls = request[r].calls /\ request'[r].before = request[r].before
        /\ request'[r].sure = request[r].sure
    BY DEF Goes, TypeOK
  <1>2. /\ request[r].calls \subseteq Calls /\ request[r].sure \subseteq Calls
        /\ request[r].before \subseteq Calls
    BY DEF TypeOK, Asked
  <1>3. BatchEnded(r)'
    BY <1>1, <1>2 DEF Sound, BatchEnded, HasRead, InBatch, SilentRests
  <1>4. ASSUME step # "refused", NEW c \in request[r].sure PROVE SureOf(r, c)'
    <2>1. SureOf(r, c) /\ c \in Calls
      BY <1>2 DEF Sound, IsSure
    <2>2. object[c] = "none" /\ (step = "row" => ~told'[c])
      BY <1>4
    <2> QED
      BY <1>1, <2>1, <2>2 DEF SureOf, SilentRests, At
  <1>5. IsSure(r)' /\ Reached(r)'
    BY <1>1, <1>4 DEF IsSure, HasRead, Reached, At
  <1> QED
    BY <1>3, <1>5 DEF Sound

(* A file that is deleted is off the list, and gone.                       *)
LEMMA DeleteFileSound ==
    ASSUME TypeOK, SilentRests, NEW r \in Requests, Sound(r), DeleteFile(r)
    PROVE  Sound(r)'
  <1>1. PICK d \in First(request[r].files, 1) :
          \/ /\ request' = [request EXCEPT ![r].files = @ \ {d}]
             /\ object' = [object EXCEPT ![d] = "none"] /\ UNCHANGED faults
          \/ Goes(r, "refused") /\ Fault /\ UNCHANGED object
    BY DEF DeleteFile
  <1>2. HasRead(r) /\ At(r, "files")
    BY DEF DeleteFile, At, HasRead
  <1>3. CASE Goes(r, "refused")
    BY <1>2, <1>3, GoesSound
  <1>4. CASE /\ request' = [request EXCEPT ![r].files = @ \ {d}]
             /\ object' = [object EXCEPT ![d] = "none"]
    <2>1. /\ request'[r].at = "files" /\ request'[r].kind = request[r].kind
          /\ request'[r].calls = request[r].calls /\ request'[r].before = request[r].before
          /\ request'[r].sure = request[r].sure /\ request'[r].files = request[r].files \ {d}
      BY <1>2, <1>4 DEF TypeOK, At
    <2>2. /\ request[r].calls \subseteq Calls /\ request[r].sure \subseteq Calls
          /\ request[r].before \subseteq Calls
      BY DEF TypeOK, Asked
    <2>3. BatchEnded(r)'
      BY <1>2, <2>1, <2>2 DEF Sound, BatchEnded, HasRead, InBatch, SilentRests
    <2>4. ASSUME NEW c \in request[r].sure PROVE SureOf(r, c)'
      <3>1. SureOf(r, c) /\ c \in Calls
        BY <1>2, <2>2 DEF Sound, IsSure
      <3>2. object'[c] = "none" \/ c \in request'[r].files
        BY <1>4, <2>1, <3>1 DEF SureOf, TypeOK, SilentRests
      <3> QED
        BY <2>1, <3>1, <3>2 DEF SureOf, SilentRests, At
    <2>5. IsSure(r)' /\ Reached(r)'
      BY <2>1, <2>4 DEF IsSure, HasRead, Reached, At
    <2> QED
      BY <2>3, <2>5 DEF Sound
  <1> QED
    BY <1>1, <1>3, <1>4

(* With the files deleted, the rows and the events follow.                 *)
LEMMA DeletingSound ==
    ASSUME TypeOK, SilentRests, NEW r \in Requests, Sound(r),
           FilesDeleted(r) \/ DeleteRows(r) \/ DeleteDeliveries(r)
    PROVE  Sound(r)'
  <1>1. HasRead(r)
    BY DEF FilesDeleted, DeleteRows, DeleteDeliveries, At, HasRead
  <1>2. \A c \in request[r].sure : SureOf(r, c) /\ c \in Calls
    BY <1>1 DEF Sound, IsSure, TypeOK, Asked
  <1>3. CASE FilesDeleted(r)
    <2>1. PICK step \in {"rows", "events"} : Goes(r, step)
      BY <1>3 DEF FilesDeleted
    <2>2. \A c \in request[r].sure : object[c] = "none"
      BY <1>2, <1>3 DEF FilesDeleted, SureOf
    <2> QED
      BY <1>1, <2>1, <2>2, GoesSound
  <1>4. CASE DeleteRows(r)
    <2>1. Goes(r, "events") /\ \A c \in request[r].sure : object[c] = "none"
      BY <1>2, <1>4 DEF DeleteRows, SureOf, At
    <2> QED
      BY <1>1, <2>1, GoesSound
  <1>5. CASE DeleteDeliveries(r)
    <2>1. Goes(r, "row") /\ \A c \in request[r].sure : object[c] = "none" /\ ~told'[c]
      BY <1>2, <1>5 DEF DeleteDeliveries, SureOf, At
    <2> QED
      BY <1>1, <2>1, GoesSound
  <1> QED
    BY <1>3, <1>4, <1>5

(* A call that is deleted ends its request.                                *)
LEMMA DeleteCallSound ==
    ASSUME TypeOK, SilentRests, NEW r \in Requests, Sound(r), DeleteCall(r)
    PROVE  Sound(r)'
  <1>1. /\ request'[r].at = "done" /\ request'[r].kind = "call"
        /\ request'[r].before = request[r].before
    BY DEF DeleteCall, Goes, TypeOK
  <1>2. request[r].before \subseteq Calls
    BY DEF TypeOK, Asked
  <1> QED
    BY <1>1, <1>2
    DEF Sound, BatchEnded, IsSure, Reached, SilentRests, InBatch, HasRead, At

(* A batch without a call to anonymise was deleted by others; any other    *)
(* is followed by the next.                                                *)
LEMMA AnonymiseSound ==
    ASSUME TypeOK, SilentRests, NEW r \in Requests, Sound(r), Anonymise(r)
    PROVE  Sound(r)'
  <1> DEFINE left == {c \in request[r].calls : Ended(c)}
  <1>1. PICK step \in {"done", "batch"} : /\ step = IF left = {} THEN "done" ELSE "batch"
                                          /\ Goes(r, step)
    BY DEF Anonymise
  <1>2. /\ request'[r].at = step /\ request'[r].kind = request[r].kind
        /\ request'[r].calls = request[r].calls /\ request'[r].before = request[r].before
    BY <1>1 DEF Goes, TypeOK
  <1>3. request[r].before \subseteq Calls /\ request[r].calls \subseteq Calls
    BY DEF TypeOK, Asked
  <1>4. left = {} => Overtaken(r)
    <2> SUFFICES ASSUME left = {} PROVE Overtaken(r)
      OBVIOUS
    <2>1. /\ request[r].calls # {}
          /\ \A c \in request[r].calls : status[c] # "live"
      BY DEF Sound, BatchEnded, Anonymise, InBatch, At
    <2>2. \A c \in request[r].calls : ~Ended(c)
      OBVIOUS
    <2>3. status \in [Calls -> {"live", "ended", "anonymous", "deleted"}]
      BY DEF TypeOK
    <2>4. \A c \in request[r].calls : status[c] = "deleted"
      BY <1>3, <2>1, <2>2, <2>3 DEF Ended
    <2> QED
      BY <2>1, <2>4 DEF Overtaken
  <1>5. Overtaken(r) => Overtaken(r)'
    BY <1>2, <1>3 DEF Overtaken, SilentRests
  <1> HIDE DEF left
  <1> QED
    BY <1>1, <1>2, <1>3, <1>4, <1>5
    DEF Sound, BatchEnded, IsSure, Reached, SilentRests, InBatch, HasRead, At

(* Every request is sound after every step: its own or another's.          *)
LEMMA RequestsKept ==
    IInv /\ [Next]_vars => BatchesHaveEnded' /\ RequestsAreSure' /\ EndedCallsAreErased'
  <1> SUFFICES ASSUME IInv, [Next]_vars PROVE \A q \in Requests : Sound(q)'
    BY EachSoundThen
  <1>1. TypeOK /\ RowsFollowFiles /\ SilentRests /\ \A q \in Requests : Sound(q)
    BY EachSound, SilentKept DEF IInv
  <1>2. ASSUME NEW r \in Requests, AskErase(r) \/ Answer(r) \/ \E c \in Calls : AskDelete(r, c)
        PROVE  \A q \in Requests : Sound(q)'
    <2>1. ASSUME NEW q \in Requests \ {r} PROVE Sound(q)'
      <3>1. SameRequest(q)
        BY <1>1, <1>2, OthersRest
      <3> QED
        BY <1>1, <3>1, Resting
    <2>2. Sound(r)'
      BY <1>1, <1>2, AskSound, ReadBatchSound, ReadRecordingsSound, DeleteFileSound,
         DeletingSound, DeleteCallSound, AnonymiseSound DEF Answer
    <2> QED
      BY <2>1, <2>2
  <1>3. CASE \A q \in Requests : SameRequest(q)
    BY <1>1, <1>3, Resting
  <1>4. CASE request' = request
    BY <1>3, <1>4 DEF SameRequest
  <1>5. ASSUME NEW c \in Calls,
               \/ EndCall(c) \/ Announce(c) \/ StartRecording(c) \/ Recording(c)
               \/ UploadArrives(c) \/ Crash(c) \/ FailStale(c)
        PROVE  \A q \in Requests : SameRequest(q)
    <2>1. CASE BeginFile(c)
      <3>1. (\E s \in {"failed", "recording"} : NewRow(c, s)) \/ UNCHANGED request
        BY <2>1 DEF BeginFile
      <3> QED
        BY <1>1, <3>1 DEF NewRow, SameRequest, TypeOK, Asked
    <2>2. CASE ~BeginFile(c)
      <3>1. request' = request
        BY <1>5, <2>2 DEF EndCall, Announce, StartRecording, Recording, CloseRoom,
           HandToMediaServer, StoreKey, MarkCompleted, GiveUpUpload, UploadArrives, Crash,
           FailStale, erasure
      <3> QED
        BY <3>1 DEF SameRequest
    <2> QED
      BY <2>1, <2>2
  <1>6. ASSUME TimePasses \/ SweepStep \/ SweptExpires \/ SweepDies
        PROVE  request' = request
    BY <1>6 DEF TimePasses, SweepStep, SweptExpires, SweepDies, BeginSweep, SweepDetail,
       ListExpired, PurgeFile, MarkPurged, ListDone, erasure
  <1>7. ASSUME UNCHANGED vars PROVE request' = request
    BY <1>7 DEF vars, erasure
  <1> QED
    BY <1>2, <1>3, <1>4, <1>5, <1>6, <1>7 DEF Next

(* A call is surely erased with its row, when a request that was sure of   *)
(* it is through with the files and the events.                            *)
LEMMA ErasedKept == IInv /\ [Next]_vars => ErasedStaySilent' /\ ErasedLeavesNothing'
  <1> SUFFICES ASSUME IInv, [Next]_vars PROVE ErasedStaySilent' /\ ErasedLeavesNothing'
    OBVIOUS
  <1> DEFINE Leaves(c) == /\ Silent(c) /\ status[c] \in Erased /\ object[c] = "none"
                          /\ ~detail[c] /\ ~told[c]
  <1>1. TypeOK /\ SilentRests /\ \A q \in Requests : Sound(q)
    BY EachSound, SilentKept DEF IInv
  <1>2. sure \subseteq Calls
    BY <1>1 DEF TypeOK
  <1>3. \A c \in sure : Leaves(c)'
    BY <1>1, <1>2 DEF IInv, ErasedStaySilent, ErasedLeavesNothing, SilentRests
  <1>4. ASSUME NEW r \in Requests, DeleteCall(r) \/ Anonymise(r)
        PROVE  \A c \in sure' : Leaves(c)'
    <2> SUFFICES ASSUME NEW c \in sure', c \notin sure PROVE Leaves(c)'
      BY <1>3
    <2>1. At(r, "row") /\ c \in request[r].sure /\ Ended(c)
      BY <1>4 DEF DeleteCall, Anonymise
    <2>2. SureOf(r, c) /\ c \in request[r].calls /\ c \in Calls
      BY <1>1, <2>1 DEF Sound, IsSure, SureOf, HasRead, At, TypeOK, Asked
    <2>3. status'[c] \in Erased /\ ~detail'[c]
      BY <1>4, <2>1, <2>2 DEF DeleteCall, Anonymise, Erased
    <2>4. Silent(c) /\ object[c] = "none" /\ ~told[c]
      BY <2>1, <2>2 DEF SureOf, At
    <2> QED
      BY <1>1, <2>2, <2>3, <2>4 DEF SilentRests
  <1>5. ASSUME sure' = sure PROVE \A c \in sure' : Leaves(c)'
    BY <1>3, <1>5
  <1>6. \A c \in sure' : Leaves(c)'
    <2>1. ASSUME NEW c \in Calls,
               \/ EndCall(c) \/ Announce(c) \/ StartRecording(c) \/ Recording(c)
               \/ UploadArrives(c) \/ Crash(c) \/ FailStale(c)
          PROVE  sure' = sure
      BY <2>1 DEF EndCall, Announce, StartRecording, Recording, BeginFile, CloseRoom,
         HandToMediaServer, StoreKey, MarkCompleted, GiveUpUpload, UploadArrives, Crash,
         FailStale, erasure
    <2>2. ASSUME NEW r \in Requests,
                 \/ AskErase(r) \/ \E c \in Calls : AskDelete(r, c)
                 \/ Answer(r) /\ ~DeleteCall(r) /\ ~Anonymise(r)
          PROVE  sure' = sure
      BY <2>2 DEF AskErase, AskDelete, Answer, ReadBatch, ReadRecordings, DeleteFile,
         FilesDeleted, DeleteRows, DeleteDeliveries
    <2>3. ASSUME TimePasses \/ SweepStep \/ SweptExpires \/ SweepDies
          PROVE  sure' = sure
      BY <2>3 DEF TimePasses, SweepStep, SweptExpires, SweepDies, BeginSweep, SweepDetail,
         ListExpired, PurgeFile, MarkPurged, ListDone, erasure
    <2>4. ASSUME UNCHANGED vars PROVE sure' = sure
      BY <2>4 DEF vars, erasure
    <2> HIDE DEF Leaves
    <2>5. \/ sure' = sure
          \/ \E r \in Requests : DeleteCall(r) \/ Anonymise(r)
      BY <2>1, <2>2, <2>3, <2>4 DEF Next, Answer
    <2> QED
      BY <1>4, <1>5, <2>5
  <1> QED
    BY <1>6 DEF ErasedStaySilent, ErasedLeavesNothing

-----------------------------------------------------------------------------
(* Nothing is asked and nothing is swept yet.                              *)
LEMMA InitStep == Init => IInv
  <1> SUFFICES ASSUME Init PROVE IInv
    OBVIOUS
  <1>1. TypeOK
    <2>1. NoRequest \in Asked /\ Answered \in Asked /\ NoSweep \in Sweeping
      BY DEF NoRequest, Answered, Asked, NoSweep, Sweeping
    <2>2. /\ status \in [Calls -> {"live", "ended", "anonymous", "deleted"}]
          /\ announced \in [Calls -> BOOLEAN] /\ detail \in [Calls -> BOOLEAN]
          /\ told \in [Calls -> BOOLEAN] /\ key \in [Calls -> BOOLEAN]
          /\ rec \in [Calls -> Unsettled \cup {"none", "completed", "failed", "purged", "removed"}]
          /\ object \in [Calls -> {"none", "coming", "stored"}]
      BY DEF Init, Unsettled
    <2>3. recorder \in [Calls -> {"idle", "starting", "running", "handing", "waiting", "stored",
                                  "over"}]
      BY DEF Init
    <2>4. /\ request \in [Requests -> Asked] /\ sweep \in Sweeping
      BY <2>1 DEF Init
    <2>5. sure \subseteq Calls /\ old \subseteq Calls /\ swept \in BOOLEAN
      BY DEF Init
    <2>6. faults \in 0 .. MaxFaults
      <3>1. faults = 0 /\ MaxFaults \in Nat
        BY DEF Init
      <3> QED
        BY <3>1
    <2> QED
      BY <2>2, <2>3, <2>4, <2>5, <2>6 DEF TypeOK
  <1>2. RowsFollowFiles
    BY DEF Init, RowsFollowFiles
  <1>3. SweepFollowsFiles
    BY DEF Init, SweepFollowsFiles, NoSweep
  <1>4. ASSUME NEW r \in Requests
        PROVE  request[r].at \in {"none", "done"} /\ request[r].before = {}
    <2>1. request[r] \in {NoRequest, Answered}
      BY DEF Init
    <2> QED
      BY <2>1 DEF NoRequest, Answered
  <1>5. BatchesHaveEnded /\ RequestsAreSure /\ EndedCallsAreErased
    BY <1>4 DEF BatchesHaveEnded, RequestsAreSure, EndedCallsAreErased, InBatch, HasRead, At
  <1>6. ErasedStaySilent /\ ErasedLeavesNothing
    BY DEF Init, ErasedStaySilent, ErasedLeavesNothing
  <1> QED
    BY <1>1, <1>2, <1>3, <1>5, <1>6 DEF IInv

(* The rows, the files, the requests and the sweep after every step.       *)
THEOREM Invariance == Spec => []IInv
  <1>1. IInv /\ [Next]_vars => IInv'
    BY TypesKept, FilesKept, SweepKept, RequestsKept, ErasedKept DEF IInv
  <1> QED
    BY <1>1, InitStep, PTL DEF Spec

(* Every reachable state is typed.                                         *)
THEOREM TypeCorrect == Spec => []TypeOK
  <1>1. IInv => TypeOK
    BY DEF IInv
  <1> QED
    BY <1>1, Invariance, PTL

(* A recording's row that says purged has no file, whatever fails in the   *)
(* sweep (#purgeRecordings) and whoever else deletes or uploads beside it. *)
THEOREM PurgedFilesAreGone == Spec => []PurgedIsGone
  <1>1. IInv => PurgedIsGone
    BY DEF IInv, RowsFollowFiles, PurgedIsGone
  <1> QED
    BY <1>1, Invariance, PTL

(* Of a call that was deleted or erased when its end was announced and its *)
(* recording settled, nothing is left and nothing comes back, whatever     *)
(* other requests, the sweep, late uploads and crashes do beside it.       *)
THEOREM ErasedIsGone == Spec => []ErasedLeavesNothing
  <1>1. IInv => ErasedLeavesNothing
    BY DEF IInv
  <1> QED
    BY <1>1, Invariance, PTL

(* An erasure that is answered has reached every call that had ended when  *)
(* it was asked for, in batches of any size, unless others deleted a whole *)
(* batch beneath it (eraseCustomer stops at a batch that erased nothing).  *)
THEOREM ErasuresReachAll == Spec => []EndedCallsAreErased
  <1>1. IInv => EndedCallsAreErased
    BY DEF IInv
  <1> QED
    BY <1>1, Invariance, PTL

=============================================================================
