------------------------------- MODULE CallData -------------------------------
(***************************************************************************)
(* What is kept of a customer's calls and how it goes: the recording made  *)
(* by the media server (RoomRecorder), the retention sweep                 *)
(* (RetentionService) and the consumer's requests to delete a call or to   *)
(* erase a customer (CallErasure).  All calls here are one customer's.     *)
(***************************************************************************)
EXTENDS Integers, FiniteSets

CONSTANTS
    Calls,              \* call ids, in order
    Requests,           \* the consumer's deletions and erasures
    Recorded,           \* the calls that may be recorded
    None,
    Batch,              \* ended calls an erasure works through at a time
    PurgeBatch,         \* expired recordings a sweep lists at a time
    MaxFaults           \* bound: failed storage and media commands, crashes, and
                        \* sweeps whose minute is over before all is done

ASSUME CallsAssumption == Calls \subseteq Nat /\ Recorded \subseteq Calls /\ None \notin Calls
ASSUME BoundsAssumption == Batch \in Nat \ {0} /\ PurgeBatch \in Nat \ {0} /\ MaxFaults \in Nat

VARIABLES
    status,        \* the call's row; an erased call keeps it, anonymised
    announced,     \* its end has been logged and announced
    detail,        \* log, key presses and SDP tell of the customer
    told,          \* the outbox holds events about it
    rec, key,      \* the recording's row: its status, whether storage_key is set
    recorder,      \* the worker's part in the recording; "over" once the room is closed
    object,        \* the file in storage
    request,       \* per request: what it is and what it has read
    sure,          \* calls erased when nothing about them was in the making
    sweep, swept,  \* the retention sweep; calls old enough for it are in old
    old,
    faults

records == <<status, announced, detail, told>>
audio == <<rec, key, recorder, object>>
erasure == <<request, sure>>
retention == <<sweep, swept, old>>
vars == <<records, audio, erasure, retention, faults>>

Unsettled == {"recording", "processing"}
Erased == {"anonymous", "deleted"}
HasRow(c) == rec[c] \notin {"none", "removed"}
Ended(c) == status[c] \in {"ended", "anonymous"}

NoRequest == [at |-> "none", kind |-> "customer", calls |-> {}, files |-> {}, recs |-> {},
              sure |-> {}, before |-> {}]
NoSweep == [at |-> "off", todo |-> {}, call |-> None, progress |-> FALSE]

Asked == [at : {"none", "batch", "read", "files", "rows", "events", "row", "done", "refused"},
          kind : {"call", "customer"}, calls : SUBSET Calls, files : SUBSET Calls,
          recs : SUBSET Calls, sure : SUBSET Calls, before : SUBSET Calls]
Sweeping == [at : {"off", "detail", "list", "next", "mark"}, todo : SUBSET Calls,
             call : Calls \cup {None}, progress : BOOLEAN]

TypeOK ==
    /\ status \in [Calls -> {"live", "ended", "anonymous", "deleted"}]
    /\ announced \in [Calls -> BOOLEAN] /\ detail \in [Calls -> BOOLEAN]
    /\ told \in [Calls -> BOOLEAN]
    /\ rec \in [Calls -> Unsettled \cup {"none", "completed", "failed", "purged", "removed"}]
    /\ key \in [Calls -> BOOLEAN]
    /\ recorder \in [Calls -> {"idle", "starting", "running", "handing", "waiting", "stored",
                               "over"}]
    /\ object \in [Calls -> {"none", "coming", "stored"}]
    /\ request \in [Requests -> Asked]
    /\ sure \subseteq Calls /\ old \subseteq Calls /\ sweep \in Sweeping
    /\ swept \in BOOLEAN /\ faults \in 0 .. MaxFaults

(* A call is recorded if its channel says so when it is bridged.  What was *)
(* asked for before the calls came is answered.                            *)
Answered == [NoRequest EXCEPT !.at = "done"]

Init ==
    /\ status = [c \in Calls |-> "live"] /\ announced = [c \in Calls |-> FALSE]
    /\ detail = [c \in Calls |-> TRUE] /\ told = [c \in Calls |-> TRUE]
    /\ rec = [c \in Calls |-> "none"] /\ key = [c \in Calls |-> FALSE]
    /\ \E kept \in SUBSET Recorded :
           recorder = [c \in Calls |-> IF c \in kept THEN "idle" ELSE "over"]
    /\ object = [c \in Calls |-> "none"]
    /\ request \in [Requests -> {NoRequest, Answered}] /\ sure = {}
    /\ sweep = NoSweep /\ swept = FALSE /\ old = {} /\ faults = 0

Fault == faults < MaxFaults /\ faults' = faults + 1

-----------------------------------------------------------------------------
(* The call.                                                               *)

EndCall(c) ==
    /\ status[c] = "live" /\ status' = [status EXCEPT ![c] = "ended"]
    /\ UNCHANGED <<announced, detail, told, audio, erasure, retention, faults>>

(* settle works from the call it loaded: a row that is gone by now takes   *)
(* no log entry and no event.                                              *)
Announce(c) ==
    /\ status[c] # "live" /\ ~announced[c]
    /\ announced' = [announced EXCEPT ![c] = TRUE]
    /\ IF status[c] = "deleted" THEN UNCHANGED <<detail, told>>
       ELSE detail' = [detail EXCEPT ![c] = TRUE] /\ told' = [told EXCEPT ![c] = TRUE]
    /\ UNCHANGED <<status, audio, erasure, retention, faults>>

-----------------------------------------------------------------------------
(* The recording.                                                          *)

Recorder(c, from, to) == recorder[c] = from /\ recorder' = [recorder EXCEPT ![c] = to]
Row(c, s) == rec' = IF HasRow(c) THEN [rec EXCEPT ![c] = s] ELSE rec

(* The room is bridged for the first time, perhaps by an answer that is    *)
(* already overtaken by the end; one recording per call, if the line and   *)
(* the quota allow it.  A refusal leaves a failed row.                     *)
StartRecording(c) ==
    /\ status[c] # "deleted" /\ ~HasRow(c) /\ Recorder(c, "idle", "starting")
    /\ UNCHANGED <<records, rec, key, object, erasure, retention, faults>>

(* A row of its own: none of those that a request has read.                *)
NewRow(c, s) ==
    /\ rec' = [rec EXCEPT ![c] = s]
    /\ request' = [r \in Requests |-> [request[r] EXCEPT !.recs = @ \ {c}]]

(* The row, then the command to the media server: no such call any more,   *)
(* recording, or a command that is refused or throws.                      *)
BeginFile(c) ==
    /\ \/ /\ status[c] = "deleted" /\ Recorder(c, "starting", "idle")
          /\ UNCHANGED <<rec, request, faults>>
       \/ /\ status[c] # "deleted" /\ Recorder(c, "starting", "running")
          /\ NewRow(c, "recording") /\ UNCHANGED faults
       \/ /\ status[c] # "deleted" /\ Recorder(c, "starting", "idle") /\ Fault
          /\ \E s \in {"failed", "recording"} : NewRow(c, s)
    /\ UNCHANGED <<records, key, object, sure, retention>>

(* The room of an ended call is closed; its recording stops.               *)
CloseRoom(c) ==
    /\ status[c] # "live"
    /\ \/ Recorder(c, "idle", "over") /\ UNCHANGED rec
       \/ Recorder(c, "running", "handing") /\ Row(c, "processing")
    /\ UNCHANGED <<records, key, object, erasure, retention, faults>>

(* The media server takes the job and will PUT the file, or refuses.       *)
HandToMediaServer(c) ==
    /\ \/ /\ Recorder(c, "handing", "waiting") /\ object' = [object EXCEPT ![c] = "coming"]
          /\ UNCHANGED <<rec, faults>>
       \/ Recorder(c, "handing", "over") /\ Fault /\ Row(c, "failed") /\ UNCHANGED object
    /\ UNCHANGED <<records, key, erasure, retention>>

(* The presigned URL is good for an hour; an upload that fails never       *)
(* arrives.                                                                *)
UploadArrives(c) ==
    /\ object[c] = "coming" /\ object' = [object EXCEPT ![c] = "stored"]
    /\ UNCHANGED <<records, rec, key, recorder, erasure, retention, faults>>

StoreKey(c) ==
    /\ object[c] = "stored" /\ Recorder(c, "waiting", "stored")
    /\ key' = IF HasRow(c) THEN [key EXCEPT ![c] = TRUE] ELSE key
    /\ UNCHANGED <<records, rec, object, erasure, retention, faults>>

MarkCompleted(c) ==
    /\ Recorder(c, "stored", "over") /\ Row(c, "completed")
    /\ UNCHANGED <<records, key, object, erasure, retention, faults>>

(* Two minutes are over without the file, or without storage answering.    *)
GiveUpUpload(c) ==
    /\ Recorder(c, "waiting", "over") /\ Row(c, "failed")
    /\ IF object[c] = "stored" THEN Fault ELSE UNCHANGED faults
    /\ UNCHANGED <<records, key, object, erasure, retention>>

(* The worker dies, or stops before the upload has landed.  A live call's  *)
(* room is adopted by another; nobody waits for the upload any more.       *)
Crash(c) ==
    /\ recorder[c] # "over" /\ Fault
    /\ \E next \in {"idle", "running", "over"} :
          /\ (next = "running") => recorder[c] = "running"
          /\ (next = "idle") => recorder[c] \in {"idle", "starting"}
          /\ (next = "over") => status[c] # "live"
          /\ recorder' = [recorder EXCEPT ![c] = next]
    /\ UNCHANGED <<records, rec, key, object, erasure, retention>>

(* Fault: only a recording that was still running is taken for dead.       *)
FailsRunning(c) ==
    /\ rec[c] = "recording" /\ Ended(c) /\ recorder[c] = "over"
    /\ rec' = [rec EXCEPT ![c] = "failed"]
    /\ UNCHANGED <<records, key, recorder, object, erasure, retention, faults>>

(* Ten minutes after the end nobody is at work on the recording.           *)
FailStale(c) ==
    /\ rec[c] \in Unsettled /\ Ended(c) /\ recorder[c] = "over"
    /\ rec' = [rec EXCEPT ![c] = "failed"]
    /\ UNCHANGED <<records, key, recorder, object, erasure, retention, faults>>

-----------------------------------------------------------------------------
(* The consumer's requests.                                                *)

At(r, step) == request[r].at = step
Goes(r, step) == request' = [request EXCEPT ![r].at = step]
First(S, n) == {c \in S : Cardinality({d \in S : d < c}) < n}

(* Whether a deletion can know all there is of this call: no upload is on  *)
(* its way to a recording that was given up, whose row may be gone.        *)
Settled(c) ==
    /\ announced[c] /\ recorder[c] \in {"waiting", "stored", "over"}
    /\ rec[c] \notin Unsettled /\ object[c] # "none" => key[c] /\ HasRow(c)

AskDelete(r, c) ==
    /\ At(r, "none") \/ At(r, "refused")
    /\ status[c] # "deleted"
    /\ request' = [request EXCEPT ![r] =
            [NoRequest EXCEPT !.at = IF Ended(c) THEN "read" ELSE "refused", !.kind = "call",
                              !.calls = {c}]]
    /\ UNCHANGED <<records, audio, sure, retention, faults>>

AskErase(r) ==
    /\ At(r, "none") \/ At(r, "refused")
    /\ request' = [request EXCEPT ![r] =
            [NoRequest EXCEPT !.at = "batch", !.before = {c \in Calls : status[c] = "ended"}]]
    /\ UNCHANGED <<records, audio, sure, retention, faults>>

(* Fault: one batch is all.                                                *)
ReadOneBatch(r) ==
    /\ At(r, "batch")
    /\ LET found == First({c \in Calls : status[c] = "ended"}, Batch) IN
       request' = [request EXCEPT
            ![r].calls = found,
            ![r].at = IF found = {} \/ request[r].calls # {} THEN "done" ELSE "read"]
    /\ UNCHANGED <<records, audio, sure, retention, faults>>

(* The next ended calls that still have the customer's address.            *)
ReadBatch(r) ==
    /\ At(r, "batch")
    /\ LET found == First({c \in Calls : status[c] = "ended"}, Batch) IN
       request' = [request EXCEPT ![r].calls = found,
                                  ![r].at = IF found = {} THEN "done" ELSE "read"]
    /\ UNCHANGED <<records, audio, sure, retention, faults>>

(* Fault: only a recording that is still running is waited for.            *)
ReadsUnsaved(r) ==
    /\ At(r, "read")
    /\ LET found == {c \in request[r].calls : HasRow(c)} IN
       IF \E c \in found : rec[c] = "recording" THEN Goes(r, "refused")
       ELSE request' = [request EXCEPT
                ![r].at = "files", ![r].recs = found, ![r].files = {c \in found : key[c]},
                ![r].sure = {c \in request[r].calls : Settled(c)}]
    /\ UNCHANGED <<records, audio, sure, retention, faults>>

(* Refused while a recording is being made or saved.                       *)
ReadRecordings(r) ==
    /\ At(r, "read")
    /\ LET found == {c \in request[r].calls : HasRow(c)} IN
       IF \E c \in found : rec[c] \in Unsettled THEN Goes(r, "refused")
       ELSE request' = [request EXCEPT
                ![r].at = "files", ![r].recs = found, ![r].files = {c \in found : key[c]},
                ![r].sure = {c \in request[r].calls : Settled(c)}]
    /\ UNCHANGED <<records, audio, sure, retention, faults>>

(* File by file; a failure leaves what is deleted already deleted.         *)
DeleteFile(r) ==
    /\ At(r, "files") /\ request[r].files # {}
    /\ \E c \in First(request[r].files, 1) :
          \/ /\ request' = [request EXCEPT ![r].files = @ \ {c}]
             /\ object' = [object EXCEPT ![c] = "none"] /\ UNCHANGED faults
          \/ Goes(r, "refused") /\ Fault /\ UNCHANGED object
    /\ UNCHANGED <<records, rec, key, recorder, sure, retention>>

FilesDeleted(r) ==
    /\ At(r, "files") /\ request[r].files = {}
    /\ Goes(r, IF request[r].kind = "customer" THEN "rows" ELSE "events")
    /\ UNCHANGED <<records, audio, sure, retention, faults>>

Remove(S) == rec' = [c \in Calls |-> IF c \in S /\ HasRow(c) THEN "removed" ELSE rec[c]]

DeleteRows(r) ==
    /\ At(r, "rows") /\ Goes(r, "events") /\ Remove(request[r].recs)
    /\ UNCHANGED <<records, key, recorder, object, sure, retention, faults>>

DeleteDeliveries(r) ==
    /\ At(r, "events") /\ Goes(r, "row")
    /\ told' = [c \in Calls |-> told[c] /\ c \notin request[r].calls]
    /\ UNCHANGED <<status, announced, detail, audio, sure, retention, faults>>

(* The call's row takes its legs, log and recording rows with it.          *)
DeleteCall(r) ==
    /\ At(r, "row") /\ request[r].kind = "call"
    /\ LET gone == {c \in request[r].calls : Ended(c)} IN
       /\ status' = [c \in Calls |-> IF c \in gone THEN "deleted" ELSE status[c]]
       /\ detail' = [c \in Calls |-> detail[c] /\ c \notin gone]
       /\ Remove(gone) /\ sure' = sure \cup (gone \cap request[r].sure)
       /\ Goes(r, "done")
    /\ UNCHANGED <<announced, told, key, recorder, object, retention, faults>>

(* A batch in which nothing was left to anonymise ends the request.        *)
Anonymise(r) ==
    /\ At(r, "row") /\ request[r].kind = "customer"
    /\ LET left == {c \in request[r].calls : Ended(c)} IN
       /\ status' = [c \in Calls |-> IF c \in left THEN "anonymous" ELSE status[c]]
       /\ detail' = [c \in Calls |-> detail[c] /\ c \notin left]
       /\ sure' = sure \cup (left \cap request[r].sure)
       /\ Goes(r, IF left = {} THEN "done" ELSE "batch")
    /\ UNCHANGED <<announced, told, audio, retention, faults>>

-----------------------------------------------------------------------------
(* The retention sweep: one per period across the workers, by a key in     *)
(* Redis that runs out.  One that finds nothing old enough is left out.    *)

Sweeps(step) == sweep' = [sweep EXCEPT !.at = step]

TimePasses ==
    /\ old' = {c \in Calls : Ended(c) /\ announced[c] /\ recorder[c] = "over"
                             /\ rec[c] \notin Unsettled}
    /\ ~(old' \subseteq old)
    /\ UNCHANGED <<records, audio, erasure, sweep, swept, faults>>

BeginSweep ==
    /\ sweep.at = "off" /\ ~swept /\ old # {} /\ swept' = TRUE /\ Sweeps("detail")
    /\ UNCHANGED <<records, audio, erasure, old, faults>>

(* Fault: the key is set without its expiry.                               *)
SweptForGood == sweep.at = "off" /\ swept /\ UNCHANGED vars

SweptExpires ==
    /\ sweep.at = "off" /\ swept /\ swept' = FALSE
    /\ UNCHANGED <<records, audio, erasure, sweep, old, faults>>

(* Batch by batch until nothing is left, or the minute that the whole      *)
(* sweep has is over, which ends it before it comes to the recordings.     *)
(* Events have a period of their own, and stay until they are delivered.   *)
SweepDetail ==
    /\ sweep.at = "detail"
    /\ \/ /\ Sweeps("list") /\ UNCHANGED faults
          /\ detail' = [c \in Calls |-> detail[c] /\ c \notin old]
       \/ /\ sweep' = NoSweep /\ Fault
          /\ \E S \in SUBSET old : detail' = [c \in Calls |-> detail[c] /\ c \notin S]
    /\ UNCHANGED <<status, announced, told, audio, erasure, swept, old>>

(* Fault: those that are purged or failed are listed again.                *)
ListsAnyStatus ==
    /\ sweep.at = "list"
    /\ sweep' = [at |-> "next", todo |-> First({c \in old : HasRow(c)}, PurgeBatch),
                 call |-> None, progress |-> FALSE]
    /\ UNCHANGED <<records, audio, erasure, swept, old, faults>>

(* The oldest that are due, a batch of them.                               *)
ListExpired ==
    /\ sweep.at = "list"
    /\ sweep' = [at |-> "next", todo |-> First({c \in old : rec[c] = "completed"}, PurgeBatch),
                 call |-> None, progress |-> FALSE]
    /\ UNCHANGED <<records, audio, erasure, swept, old, faults>>

(* Fault: the row is marked whether or not the file could be deleted.      *)
PurgeAnyway ==
    /\ sweep.at = "next" /\ sweep.todo # {}
    /\ \E c \in First(sweep.todo, 1) :
          /\ sweep' = [sweep EXCEPT !.at = "mark", !.todo = @ \ {c}, !.call = c]
          /\ \/ object' = [object EXCEPT ![c] = "none"] /\ UNCHANGED faults
             \/ Fault /\ UNCHANGED object
    /\ UNCHANGED <<records, rec, key, recorder, erasure, swept, old>>

(* A file that cannot be deleted keeps its row for the next sweep.         *)
PurgeFile ==
    /\ sweep.at = "next" /\ sweep.todo # {}
    /\ \E c \in First(sweep.todo, 1) :
          \/ /\ sweep' = [sweep EXCEPT !.at = "mark", !.todo = @ \ {c}, !.call = c]
             /\ object' = [object EXCEPT ![c] = "none"] /\ UNCHANGED faults
          \/ sweep' = [sweep EXCEPT !.todo = @ \ {c}] /\ Fault /\ UNCHANGED object
    /\ UNCHANGED <<records, rec, key, recorder, erasure, swept, old>>

MarkPurged ==
    /\ sweep.at = "mark"
    /\ sweep' = [sweep EXCEPT !.at = "next", !.call = None, !.progress = TRUE]
    /\ LET c == sweep.call IN
       IF rec[c] = "completed"
       THEN rec' = [rec EXCEPT ![c] = "purged"] /\ key' = [key EXCEPT ![c] = FALSE]
       ELSE UNCHANGED <<rec, key>>
    /\ UNCHANGED <<records, recorder, object, erasure, swept, old, faults>>

(* On to the next batch, if this one removed anything and there is time.   *)
ListDone ==
    /\ sweep.at = "next" /\ sweep.todo = {}
    /\ \/ /\ sweep' = (IF sweep.progress THEN [NoSweep EXCEPT !.at = "list"] ELSE NoSweep)
          /\ UNCHANGED faults
       \/ sweep.progress /\ sweep' = NoSweep /\ Fault
    /\ UNCHANGED <<records, audio, erasure, swept, old>>

SweepDies ==
    /\ sweep.at # "off" /\ Fault /\ sweep' = NoSweep
    /\ UNCHANGED <<records, audio, erasure, swept, old>>

-----------------------------------------------------------------------------
Recording(c) == \/ BeginFile(c) \/ CloseRoom(c) \/ HandToMediaServer(c)
                \/ StoreKey(c) \/ MarkCompleted(c) \/ GiveUpUpload(c)
Answer(r) == \/ ReadBatch(r) \/ ReadRecordings(r) \/ DeleteFile(r) \/ FilesDeleted(r)
             \/ DeleteRows(r) \/ DeleteDeliveries(r) \/ DeleteCall(r) \/ Anonymise(r)
SweepStep == BeginSweep \/ SweepDetail \/ ListExpired \/ PurgeFile \/ MarkPurged \/ ListDone

Next ==
    \/ \E c \in Calls :
          \/ EndCall(c) \/ Announce(c)
          \/ StartRecording(c) \/ Recording(c) \/ UploadArrives(c) \/ Crash(c) \/ FailStale(c)
    \/ \E r \in Requests : AskErase(r) \/ Answer(r) \/ \E c \in Calls : AskDelete(r, c)
    \/ TimePasses \/ SweepStep \/ SweptExpires \/ SweepDies

(* The workers go on with what they do, scan every 30 seconds and sweep    *)
(* again when the last sweep's key has run out.  No call need end, no      *)
(* upload arrive, nobody ask.                                              *)
Fairness ==
    /\ \A c \in Recorded : WF_vars(Recording(c)) /\ WF_vars(FailStale(c))
    /\ \A r \in Requests : WF_vars(Answer(r))
    /\ WF_vars(SweepStep) /\ WF_vars(SweptExpires)

Spec == Init /\ [][Next]_vars /\ Fairness

-----------------------------------------------------------------------------
(* Of a call that was deleted or erased when its end had been announced    *)
(* and its recording saved or refused, nothing is left, and nothing comes  *)
(* back: no file, no log, no event (docs/management-api.md:559-576).       *)
ErasedLeavesNothing == \A c \in sure :
    /\ status[c] \in Erased /\ object[c] = "none"
    /\ ~detail[c] /\ ~told[c]

(* A row that says purged has no file: not even one whose deletion failed, *)
(* or that another request was deleting (RetentionService's comment).      *)
PurgedIsGone == \A c \in Calls : rec[c] = "purged" => object[c] = "none"

(* An erasure that is answered has reached every call that had ended when  *)
(* it was asked for, batch after batch: unless others deleted the whole of *)
(* a batch beneath it, which ends it early.                                *)
Overtaken(r) ==
    request[r].calls # {} /\ \A c \in request[r].calls : status[c] = "deleted"
EndedCallsAreErased == \A r \in Requests :
    At(r, "done") /\ request[r].kind = "customer" /\ ~Overtaken(r)
        => \A c \in request[r].before : status[c] \in Erased

(* The recording of an ended call is saved or given up, whoever dies: "try *)
(* again in a minute" comes true.                                          *)
RecordingSettles == \A c \in Recorded :
    (rec[c] \in Unsettled /\ Ended(c)) ~> ~(rec[c] \in Unsettled /\ Ended(c))

(* A recording past its time is removed, though storage fails or a sweep   *)
(* dies half way.                                                          *)
ExpiredIsPurged == \A c \in Recorded :
    (c \in old /\ rec[c] = "completed") ~> (rec[c] # "completed")

-----------------------------------------------------------------------------
(* The inductive invariant behind them.                                    *)

(* Nobody works on the recording any more and no upload is on its way.     *)
Over(c) == recorder[c] = "over" /\ object[c] # "coming"

RowsFollowFiles == \A c \in Calls :
    /\ rec[c] \in {"completed", "purged"} => Over(c)
    /\ recorder[c] = "stored" => object[c] # "coming"
    /\ rec[c] = "purged" => object[c] = "none"
    /\ key[c] => recorder[c] \in {"stored", "over"} /\ object[c] # "coming"

SweepFollowsFiles ==
    /\ \A c \in sweep.todo : Over(c)
    /\ sweep.at = "mark" => /\ sweep.call \in Calls /\ Over(sweep.call)
                            /\ object[sweep.call] = "none"

(* Nothing more is made of the call.                                       *)
Silent(c) == announced[c] /\ recorder[c] \in {"waiting", "stored", "over"}

(* A request in its batch works on calls that have ended; of those it is   *)
(* sure of, it has the file or it is gone, and then the events.            *)
InBatch(r) == request[r].at \in {"read", "files", "rows", "events", "row"}
HasRead(r) == request[r].at \in {"files", "rows", "events", "row"}

BatchesHaveEnded == \A r \in Requests :
    /\ \A c \in request[r].before : status[c] # "live"
    /\ InBatch(r) => \A c \in request[r].calls : status[c] # "live"
    /\ InBatch(r) /\ request[r].kind = "customer" => request[r].calls # {}

RequestsAreSure == \A r \in Requests : HasRead(r) =>
    \A c \in request[r].sure :
        /\ c \in request[r].calls /\ Silent(c) /\ object[c] # "coming"
        /\ object[c] = "none" \/ (At(r, "files") /\ c \in request[r].files)
        /\ At(r, "row") => ~told[c]

ErasedStaySilent == \A c \in sure : Silent(c)

IInv == /\ TypeOK /\ RowsFollowFiles /\ SweepFollowsFiles
        /\ BatchesHaveEnded /\ RequestsAreSure
        /\ ErasedStaySilent /\ ErasedLeavesNothing /\ EndedCallsAreErased

=============================================================================
