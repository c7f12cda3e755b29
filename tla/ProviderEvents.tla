--------------------------- MODULE ProviderEvents ---------------------------
(***************************************************************************)
(* What a provider reports about one call (ChannelIngress), against what   *)
(* Callio does to it meanwhile.  The provider's events reach any worker,   *)
(* in any order and some of them twice: an inbound offer, the answer and   *)
(* the statuses of a call that was dialled (InitiationEventHandler), and   *)
(* the end of either.                                                      *)
(*                                                                         *)
(* A handler between two statements is a record of "work" with the row as  *)
(* it read it.  Which agent a queue rings and how an agent's accept        *)
(* proceeds is CallRouting's; an accept is one step here.                  *)
(***************************************************************************)
EXTENDS Integers, FiniteSets

CONSTANTS
    None,           \* SQL NULL
    Directions,     \* directions of the call that are looked at
    MaxExtras,      \* bound: events that the provider delivers again, and hang-ups
    MaxInFlight     \* bound: handlers of the call between two of their statements

ASSUME DirectionsAssumption == Directions \subseteq {"INBOUND", "OUTBOUND"}
ASSUME BoundsAssumption == MaxExtras \in Nat /\ MaxInFlight \in Nat

VARIABLES
    direction,
    status,     \* calls.status; "none" before the row exists
    reason,     \* calls.termination_reason
    answered,   \* calls.answered_at is set
    rang,       \* calls.ringing_at is set
    known,      \* calls.provider_call_id is set
    claimed,    \* the ownership key of the provider's call id exists
    tomb,       \* the tombstone of an end without a call
    line,       \* the customer's line at the provider
    net,        \* provider events on their way
    repeats,
    client,     \* an agent's client shows the call as incoming
    legs,       \* a worker holds media legs of the call
    bridged,    \* the customer's answer was applied to the media
    held,       \* the agent of an outbound call is held by it
    ringTimer,  \* the stored deadline of a personal line's ring
    work,
    hangUps,
    endedFirst, \* history: an end left a tombstone before there was a row
    lapsed      \* history: a tombstone's time ran out

row == <<status, reason, answered, rang, known>>
provider == <<line, net, repeats>>
effects == <<client, legs, bridged, held, ringTimer>>
redis == <<claimed, tomb>>
history == <<direction, hangUps, endedFirst, lapsed>>
vars == <<row, provider, effects, redis, history, work>>

Final == {"TERMINATED", "FAILED"}
Live == {"INITIATED", "RINGING", "IN_PROGRESS"}
Statuses == {"none"} \cup Live \cup Final
Reasons == {"NO_ANSWER", "CANCELLED", "COMPLETED", "REJECTED", "PROVIDER_ERROR", "BUSY"}
ASSUME NoneAssumption == None \notin Reasons
Lines == {"idle", "calling", "ringing", "answered", "over"}
Unanswered == {"calling", "ringing"}

(* Ends carry the provider's own answer time or not; a failure is an end   *)
(* or a status.                                                            *)
Ends == {"ended", "endedAnswered", "endFailed"}
Events == Ends \cup {"offer", "answer", "RINGING", "ACCEPTED", "REJECTED", "FAILED"}

ArrivalStages == {"tomb", "missed", "duplicate", "create", "late", "lateEnd",
                  "duplicateEnd", "offerLeg", "show", "rejectCall", "missLine"}
EndStages == {"endLookup", "endAgain", "entomb", "endTimes", "endStatus", "endCorrect"}
StatusStages == {"ringTime", "ringStatus", "answerTime", "answerCorrect", "answerStatus",
                 "reject", "fail", "postAnswer"}
DialStages == {"hold", "dialTime", "dialLeg", "dial", "dialled", "dialFailed"}
Stages == ArrivalStages \cup EndStages \cup StatusStages \cup DialStages
              \cup {"hang", "timeOut", "expire", "cancel", "settle"}

(* n tells a delivery from its repetition; event, seen, told and why are   *)
(* the event, the status and the provider call id that the handler read,   *)
(* and the reason it decided on.                                           *)
Work == [at : Stages, n : 0 .. MaxExtras, event : Events \cup {None},
         seen : Statuses, told : BOOLEAN, why : Reasons \cup {None}]

TypeOK == /\ direction \in Directions
          /\ status \in Statuses /\ reason \in Reasons \cup {None}
          /\ answered \in BOOLEAN /\ rang \in BOOLEAN /\ known \in BOOLEAN
          /\ claimed \in BOOLEAN /\ tomb \in {"none", "ended", "failed"}
          /\ line \in Lines /\ net \subseteq Events /\ repeats \in 0 .. MaxExtras
          /\ client \in BOOLEAN /\ legs \in BOOLEAN /\ bridged \in BOOLEAN
          /\ held \in BOOLEAN /\ ringTimer \in BOOLEAN
          /\ work \subseteq Work
          /\ hangUps \in 0 .. MaxExtras /\ endedFirst \in BOOLEAN /\ lapsed \in BOOLEAN

(* An inbound call has not reached Callio yet; an outbound one is an       *)
(* intent of the consumer (createOutboundIntent).                          *)
Init == /\ direction \in Directions
        /\ status = IF direction = "OUTBOUND" THEN "INITIATED" ELSE "none"
        /\ reason = None /\ answered = FALSE /\ rang = FALSE /\ known = FALSE
        /\ claimed = FALSE /\ tomb = "none"
        /\ line = "idle" /\ net = {} /\ repeats = 0
        /\ client = FALSE /\ legs = FALSE /\ bridged = FALSE
        /\ held = FALSE /\ ringTimer = FALSE
        /\ work = {} /\ hangUps = 0 /\ endedFirst = FALSE /\ lapsed = FALSE

-----------------------------------------------------------------------------
Begin(at, n, e, why) ==
    /\ Cardinality(work) < MaxInFlight
    /\ work' = work \cup {[at |-> at, n |-> n, event |-> e, seen |-> status,
                        told |-> known, why |-> why]}
Goto(t, at) == work' = (work \ {t}) \cup {[t EXCEPT !.at = at]}
Reread(t, at) ==
    work' = (work \ {t}) \cup {[t EXCEPT !.at = at, !.seen = status, !.told = known]}
Finish(t) == work' = work \ {t}

(* The commit of an end: the given guard, then settle.                     *)
EndCall(t, allowed, final, why) ==
    IF allowed
    THEN /\ status' = final /\ reason' = why
         /\ work' = (work \ {t}) \cup {[t EXCEPT !.at = "settle", !.why = why]}
    ELSE UNCHANGED <<status, reason>> /\ Finish(t)

-----------------------------------------------------------------------------
(* The customer and the provider.                                          *)

CustomerCalls ==
    /\ direction = "INBOUND" /\ line = "idle"
    /\ line' = "calling" /\ net' = net \cup {"offer"}
    /\ UNCHANGED <<row, effects, redis, history, work, repeats>>

(* The phone that was dialled rings, is answered, or is declined.          *)
CustomerRings ==
    /\ direction = "OUTBOUND" /\ line = "calling"
    /\ line' = "ringing" /\ net' = net \cup {"RINGING"}
    /\ UNCHANGED <<row, effects, redis, history, work, repeats>>

CustomerAnswers ==
    /\ direction = "OUTBOUND" /\ line \in Unanswered
    /\ line' = "answered" /\ net' = net \cup {"answer", "ACCEPTED"}
    /\ UNCHANGED <<row, effects, redis, history, work, repeats>>

CustomerDeclines ==
    /\ direction = "OUTBOUND" /\ line \in Unanswered
    /\ line' = "over" /\ net' = net \cup {"REJECTED"}
    /\ UNCHANGED <<row, effects, redis, history, work, repeats>>

(* The customer hangs up, or the provider fails.                           *)
LineEnds ==
    /\ line \in Unanswered \cup {"answered"}
    /\ line' = "over"
    /\ \E failure \in {{}, {"FAILED", "endFailed"}} :
           net' = net \cup IF failure # {} THEN failure
                           ELSE IF line = "answered" THEN {"endedAnswered"} ELSE {"ended"}
    /\ UNCHANGED <<row, effects, redis, history, work, repeats>>

(* What an agent's accept comes to (handleAgentJoined): the provider is    *)
(* told first.                                                             *)
AgentAnswers ==
    /\ direction = "INBOUND" /\ client /\ line = "calling"
    /\ line' = "answered" /\ client' = FALSE
    /\ answered' = (answered \/ status = "RINGING")
    /\ status' = IF status = "RINGING" THEN "IN_PROGRESS" ELSE status
    /\ UNCHANGED <<reason, rang, known, net, repeats, legs, bridged, held, ringTimer,
                   redis, history, work>>

-----------------------------------------------------------------------------
(* Deliveries.  A repeated one leaves its event on the way.                *)
Deliver(e, n) ==
    /\ e \in net
    /\ IF n = 0 THEN net' = net \ {e} /\ UNCHANGED repeats
       ELSE repeats + hangUps < MaxExtras /\ n = repeats + 1 /\ repeats' = n /\ UNCHANGED net
    /\ UNCHANGED line

(* The first worker that claims the call handles the event.                *)
Claim == ~claimed /\ claimed' = TRUE

(* Its claim stays for good once the call is known and goes on.            *)
SettleClaim == claimed' = (claimed /\ status \in Live)

(* inboundCall: known calls and calls claimed by another worker are        *)
(* skipped.                                                                *)
ReceiveOffer(n) ==
    /\ Deliver("offer", n)
    /\ IF known \/ claimed THEN UNCHANGED <<claimed, work>>
       ELSE Claim /\ Begin("tomb", n, "offer", None)
    /\ UNCHANGED <<row, effects, tomb, history>>

(* callEnded: looked up once more after 300 ms.                            *)
ReceiveEnd(e, n) ==
    /\ Deliver(e, n)
    /\ Begin(IF known THEN "endTimes" ELSE "endAgain", n, e, None)
    /\ UNCHANGED <<row, effects, redis, history>>

(* statusChanged: a status of a call that is not known is dropped.         *)
FirstStage(e) == CASE e = "RINGING" -> "ringTime" [] e = "ACCEPTED" -> "answerTime"
                   [] e = "REJECTED" -> "reject" [] e = "FAILED" -> "fail"

ReceiveStatus(e, n) ==
    /\ Deliver(e, n)
    /\ IF known THEN Begin(FirstStage(e), n, e, None) ELSE UNCHANGED work
    /\ UNCHANGED <<row, effects, redis, history>>

(* outboundAnswered: only for a call that awaits the answer.               *)
ReceiveAnswer(n) ==
    /\ Deliver("answer", n)
    /\ IF known /\ status \in {"INITIATED", "RINGING"} /\ ~claimed
       THEN Claim /\ Begin("postAnswer", n, "answer", None)
       ELSE UNCHANGED <<claimed, work>>
    /\ UNCHANGED <<row, effects, tomb, history>>

(* The inbox's worker applies it, if the media is still there; then the    *)
(* key stays for good or goes (_withOwnership).                            *)
PostAnswer(t) ==
    /\ t.at = "postAnswer"
    /\ bridged' = (bridged \/ legs)
    /\ SettleClaim
    /\ Finish(t)
    /\ UNCHANGED <<row, provider, client, legs, held, ringTimer, tomb, history>>

-----------------------------------------------------------------------------
(* An inbound call arrives (_handleIncomingCall).                          *)

CheckTombstone(t) ==
    /\ t.at = "tomb"
    /\ IF tomb = "none" THEN \E at \in {"duplicate", "create"} : Goto(t, at)
       ELSE work' = (work \ {t}) \cup
                {[t EXCEPT !.at = "missed",
                           !.why = IF tomb = "failed" THEN "PROVIDER_ERROR" ELSE None]}
    /\ UNCHANGED <<row, provider, effects, redis, history>>

(* The row of a call that rings nobody: its end came first, or its         *)
(* customer is on a call already.  The insert fails if there is a row.     *)
CreateOver(t) ==
    /\ t.at \in {"missed", "duplicate"}
    /\ IF status = "none"
       THEN /\ status' = "RINGING" /\ rang' = TRUE /\ known' = TRUE
            /\ Goto(t, IF t.at = "missed" THEN "lateEnd" ELSE "duplicateEnd")
            /\ UNCHANGED claimed
       ELSE Finish(t) /\ SettleClaim /\ UNCHANGED <<status, rang, known>>
    /\ UNCHANGED <<reason, answered, provider, effects, tomb, history>>

(* The row, and where the call goes first; the consumer may reject it.     *)
CreateCall(t) ==
    /\ t.at = "create"
    /\ IF status = "none"
       THEN /\ status' = "RINGING" /\ rang' = TRUE /\ known' = TRUE
            /\ \E at \in {"late", "rejectCall"} :
                   work' = (work \ {t}) \cup {[t EXCEPT !.at = at, !.told = TRUE]}
            /\ UNCHANGED claimed
       ELSE Finish(t) /\ SettleClaim /\ UNCHANGED <<status, rang, known>>
    /\ UNCHANGED <<reason, answered, provider, effects, tomb, history>>

(* Fault: the second look at the tombstone is left out.                    *)
SkipLateCheck(t) ==
    /\ t.at = "late"
    /\ \E at \in {"offerLeg", "rejectCall", "missLine"} : Goto(t, at)
    /\ UNCHANGED <<row, provider, effects, redis, history>>

LateCheck(t) ==
    /\ t.at = "late"
    /\ IF tomb # "none" THEN Goto(t, "lateEnd")
       ELSE \E at \in {"offerLeg", "rejectCall", "missLine"} : Goto(t, at)
    /\ UNCHANGED <<row, provider, effects, redis, history>>

(* A call whose end came first: finalizeFromWebhook, or, where it was      *)
(* recorded as missed, finalizeCallAsFailed for a failure.                 *)
OverUnrung(t) ==
    IF t.why # None
    THEN status' = "FAILED" /\ reason' = t.why
    ELSE IF status \in Live THEN status' = "TERMINATED" /\ reason' = "CANCELLED"
    ELSE UNCHANGED <<status, reason>>

EndLate(t) ==
    /\ t.at = "lateEnd"
    /\ OverUnrung(t)
    /\ tomb' = "none"
    /\ Goto(t, "settle")
    /\ UNCHANGED <<answered, rang, known, provider, effects, claimed, history>>

(* A second call of the customer is only recorded: nothing to settle.      *)
EndDuplicate(t) ==
    /\ t.at = "duplicateEnd"
    /\ IF status \in Live THEN status' = "TERMINATED" /\ reason' = "CANCELLED"
       ELSE UNCHANGED <<status, reason>>
    /\ Finish(t)
    /\ claimed' = FALSE
    /\ UNCHANGED <<answered, rang, known, provider, effects, tomb, history>>

(* _rejectByConsumer, _rejectUnrouted, _lineMissed.                        *)
RejectCall(t) ==
    /\ t.at = "rejectCall"
    /\ EndCall(t, status \in Live, "TERMINATED", "REJECTED")
    /\ UNCHANGED <<answered, rang, known, provider, effects, redis, history>>

MissLine(t) ==
    /\ t.at = "missLine"
    /\ \E why \in {"BUSY", "NO_ANSWER"} : EndCall(t, status \in Live, "TERMINATED", why)
    /\ UNCHANGED <<answered, rang, known, provider, effects, redis, history>>

(* This worker takes the call's lease and offers a leg.                    *)
OfferLeg(t) ==
    /\ t.at = "offerLeg"
    /\ legs' = TRUE
    /\ Goto(t, "show")
    /\ UNCHANGED <<row, provider, client, bridged, held, ringTimer, redis, history>>

(* call:incoming; a personal line's ring gets its deadline.                *)
ShowCall(t) ==
    /\ t.at = "show"
    /\ client' = TRUE
    /\ \E personal \in BOOLEAN : ringTimer' = (ringTimer \/ personal)
    /\ SettleClaim
    /\ Finish(t)
    /\ UNCHANGED <<row, provider, legs, bridged, held, tomb, history>>

-----------------------------------------------------------------------------
(* The provider's end (_handleCallEnded).                                  *)

LookUpAgain(t) ==
    /\ t.at = "endAgain"
    /\ Reread(t, IF known THEN "endTimes" ELSE "entomb")
    /\ UNCHANGED <<row, provider, effects, redis, history>>

(* SET NX; the ownership key goes, whoever has it.                         *)
Entomb(t) ==
    /\ t.at = "entomb"
    /\ tomb' = IF tomb # "none" THEN tomb
               ELSE IF t.event = "endFailed" THEN "failed" ELSE "ended"
    /\ endedFirst' = (endedFirst \/ status = "none")
    /\ claimed' = FALSE
    /\ Finish(t)
    /\ UNCHANGED <<row, provider, effects, direction, hangUps, lapsed>>

(* finalizeFromWebhook and finalizeCallAsFailed: the provider's times, ... *)
EndTimes(t) ==
    /\ t.at = "endTimes"
    /\ answered' = (answered \/ t.event = "endedAnswered")
    /\ Goto(t, "endStatus")
    /\ UNCHANGED <<status, reason, rang, known, provider, effects, redis, history>>

(* ... the status, with a reason that a hang-up has given kept, ...        *)
EndReasons(t) ==
    IF t.event = "endedAnswered" THEN {"COMPLETED"}
    ELSE IF t.seen = "IN_PROGRESS" THEN {"CANCELLED"}
    ELSE IF t.seen \in {"INITIATED", "RINGING"}
         THEN IF direction = "INBOUND" THEN {"CANCELLED", "NO_ANSWER"} ELSE {"NO_ANSWER"}
    ELSE {"COMPLETED"}

EndStatus(t) ==
    /\ t.at = "endStatus" /\ t.event # "endFailed"
    /\ \E why \in EndReasons(t) :
           IF status \in Live
           THEN /\ status' = "TERMINATED"
                /\ reason' = IF reason = None THEN why ELSE reason
                /\ work' = (work \ {t}) \cup {[t EXCEPT !.at = "endCorrect", !.why = why]}
           ELSE UNCHANGED <<status, reason>> /\ Goto(t, "endCorrect")
    /\ UNCHANGED <<answered, rang, known, provider, effects, redis, history>>

EndFailed(t) ==
    /\ \/ t.at = "endStatus" /\ t.event = "endFailed"
       \/ t.at = "fail"
    /\ IF status # "FAILED"
       THEN /\ status' = "FAILED" /\ reason' = "PROVIDER_ERROR"
            /\ Goto(t, "settle") /\ UNCHANGED claimed
       ELSE /\ Finish(t)
            /\ claimed' = (claimed /\ t.at = "fail")
            /\ UNCHANGED <<status, reason>>
    /\ UNCHANGED <<answered, rang, known, provider, effects, tomb, history>>

(* ... and correctNoAnswerIfAnswered.                                      *)
Corrected == IF status = "TERMINATED" /\ reason = "NO_ANSWER" /\ answered
             THEN "COMPLETED" ELSE reason

(* Fault: the end does not look for an answer.                             *)
EndUncorrected(t) ==
    /\ t.at = "endCorrect"
    /\ IF t.why # None THEN Goto(t, "settle") /\ UNCHANGED claimed
       ELSE Finish(t) /\ claimed' = FALSE
    /\ UNCHANGED <<row, provider, effects, tomb, history>>

EndCorrect(t) ==
    /\ t.at = "endCorrect"
    /\ reason' = Corrected
    /\ IF t.why # None THEN Goto(t, "settle") /\ UNCHANGED claimed
       ELSE Finish(t) /\ claimed' = FALSE
    /\ UNCHANGED <<status, answered, rang, known, provider, effects, tomb, history>>

-----------------------------------------------------------------------------
(* Statuses of the provider (statusChanged).  Whether the row moves on is  *)
(* decided on the status that was read first.                              *)

RingTime(t) ==
    /\ t.at = "ringTime"
    /\ rang' = TRUE
    /\ IF t.seen = "INITIATED" THEN Goto(t, "ringStatus") ELSE Finish(t)
    /\ UNCHANGED <<status, reason, answered, known, provider, effects, redis, history>>

RingStatus(t) ==
    /\ t.at = "ringStatus"
    /\ status' = "RINGING"
    /\ Finish(t)
    /\ UNCHANGED <<reason, answered, rang, known, provider, effects, redis, history>>

AnswerTime(t) ==
    /\ t.at = "answerTime"
    /\ rang' = TRUE /\ answered' = TRUE
    /\ Goto(t, "answerCorrect")
    /\ UNCHANGED <<status, reason, known, provider, effects, redis, history>>

AnswerCorrect(t) ==
    /\ t.at = "answerCorrect"
    /\ reason' = Corrected
    /\ IF t.seen \in {"INITIATED", "RINGING"} THEN Goto(t, "answerStatus") ELSE Finish(t)
    /\ UNCHANGED <<status, answered, rang, known, provider, effects, redis, history>>

AnswerStatus(t) ==
    /\ t.at = "answerStatus"
    /\ status' = "IN_PROGRESS"
    /\ Finish(t)
    /\ UNCHANGED <<reason, answered, rang, known, provider, effects, redis, history>>

Decline(t) ==
    /\ t.at = "reject"
    /\ EndCall(t, status \in Live, "TERMINATED", "REJECTED")
    /\ UNCHANGED <<answered, rang, known, provider, effects, redis, history>>

-----------------------------------------------------------------------------
(* An agent starts an outbound call (handleCallStart), which then dials    *)
(* the customer (triggerCustomerConnection) whatever has become of it.     *)
Starting == \E t \in work : t.at \in DialStages

StartCall ==
    /\ direction = "OUTBOUND" /\ status = "INITIATED"
    /\ ~rang /\ ~known /\ ~Starting
    /\ Begin("hold", 0, None, None)
    /\ UNCHANGED <<row, provider, effects, redis, history>>

(* Fault: the hold does not look at the call's status.                     *)
HoldUnguarded(t) ==
    /\ t.at = "hold"
    /\ held' = TRUE /\ Goto(t, "dialTime")
    /\ UNCHANGED <<row, provider, client, legs, bridged, ringTimer, redis, history>>

Hold(t) ==
    /\ t.at = "hold"
    /\ IF status \in Live THEN held' = TRUE /\ Goto(t, "dialTime")
       ELSE Finish(t) /\ UNCHANGED held
    /\ UNCHANGED <<row, provider, client, legs, bridged, ringTimer, redis, history>>

DialTime(t) ==
    /\ t.at = "dialTime"
    /\ rang' = TRUE
    /\ Goto(t, "dialLeg")
    /\ UNCHANGED <<status, reason, answered, known, provider, effects, redis, history>>

(* The agent's leg, or the start fails here.                               *)
DialLeg(t) ==
    /\ t.at = "dialLeg"
    /\ \/ legs' = TRUE /\ Goto(t, "dial")
       \/ UNCHANGED legs /\ Finish(t)
    /\ UNCHANGED <<row, provider, client, bridged, held, ringTimer, redis, history>>

Dial(t) ==
    /\ t.at = "dial"
    /\ \/ legs /\ line' = "calling" /\ Goto(t, "dialled")
       \/ legs /\ Goto(t, "dialFailed") /\ UNCHANGED line
       \/ ~legs /\ Finish(t) /\ UNCHANGED line
    /\ UNCHANGED <<row, net, repeats, effects, redis, history>>

Dialled(t) ==
    /\ t.at = "dialled"
    /\ known' = TRUE
    /\ Finish(t)
    /\ UNCHANGED <<status, reason, answered, rang, provider, effects, redis, history>>

DialFailed(t) ==
    /\ t.at = "dialFailed"
    /\ EndCall(t, status \in Live, "FAILED", "PROVIDER_ERROR")
    /\ UNCHANGED <<answered, rang, known, provider, effects, redis, history>>

-----------------------------------------------------------------------------
(* Callio ends the call.                                                   *)

(* An end without a word to the provider.                                  *)
Untold(at) == [at |-> at, n |-> 0, event |-> None, seen |-> status, told |-> FALSE,
               why |-> "CANCELLED"]

(* An agent, a supervisor or the consumer hangs up: through the inbox, so  *)
(* only where a worker has the call (TerminationEventHandler).             *)
HangUp ==
    /\ legs /\ status \in Live /\ repeats + hangUps < MaxExtras
    /\ hangUps' = hangUps + 1
    /\ \E why \in {"CANCELLED",
                   IF ~answered /\ status # "IN_PROGRESS" THEN "NO_ANSWER" ELSE "COMPLETED"} :
           Begin("hang", 0, None, why)
    /\ UNCHANGED <<row, provider, effects, redis, direction, endedFirst, lapsed>>

(* The consumer cancels an intent that no worker has (POST .../terminate). *)
CancelIntent ==
    /\ direction = "OUTBOUND" /\ status = "INITIATED" /\ ~legs /\ repeats + hangUps < MaxExtras
    /\ hangUps' = hangUps + 1
    /\ Cardinality(work) < MaxInFlight
    /\ work' = work \cup {Untold("cancel")}
    /\ UNCHANGED <<row, provider, effects, redis, direction, endedFirst, lapsed>>

(* The scan of CallCleanupService, its end of an intent that was never     *)
(* started, and a personal line that rings out.                            *)
StuckScan ==
    /\ ~ \E t \in work : t.at \in {"hang", "timeOut", "expire"}
    /\ \/ status = "RINGING" /\ rang /\ Begin("timeOut", 0, None, "NO_ANSWER")
       \/ status = "IN_PROGRESS" /\ reason # None
           /\ Begin(IF reason = "NO_ANSWER" THEN "timeOut" ELSE "hang", 0, None, reason)
       \/ direction = "OUTBOUND" /\ status = "INITIATED" /\ ~rang /\ ~known
           /\ Begin("expire", 0, None, "CANCELLED")
    /\ UNCHANGED <<row, provider, effects, redis, history>>

LineRingExpired ==
    /\ ringTimer
    /\ ringTimer' = FALSE
    /\ IF status # "none" THEN Begin("timeOut", 0, None, "NO_ANSWER") ELSE UNCHANGED work
    /\ UNCHANGED <<row, provider, client, legs, bridged, held, redis, history>>

(* CallTerminator.end: its commit, guarded by the status that it asks for. *)
Terminate(t) ==
    /\ t.at \in {"hang", "timeOut", "expire", "cancel"}
    /\ LET asked == CASE t.at = "hang" -> Live [] t.at = "timeOut" -> {"RINGING"}
                      [] OTHER -> {"INITIATED"}
       IN  EndCall(t, status \in asked, "TERMINATED", t.why)
    /\ UNCHANGED <<answered, rang, known, provider, effects, redis, history>>

(* settle: the clients are told, the agent is released, the provider is    *)
(* told by whoever ended the call here, the media and its timers go.       *)
TellsProvider(t) ==
    t.told /\ t.event \in {None, "offer"} /\ t.why \notin {None, "PROVIDER_ERROR"}

Settle(t) ==
    /\ t.at = "settle"
    /\ client' = FALSE /\ legs' = FALSE /\ held' = FALSE /\ ringTimer' = FALSE
    /\ IF TellsProvider(t) /\ line \in Unanswered \cup {"answered"}
       THEN /\ line' = "over"
            /\ net' = net \cup {IF line = "answered" THEN "endedAnswered" ELSE "ended"}
       ELSE UNCHANGED <<line, net>>
    /\ claimed' = (claimed /\ t.event \notin Ends \cup {"offer"})
    /\ Finish(t)
    /\ UNCHANGED <<row, repeats, bridged, tomb, history>>

(* A worker finds that the call whose media it has is over                 *)
(* (_reconcileOrphanedLegs).                                               *)
Reconcile ==
    /\ legs /\ status \in Final
    /\ legs' = FALSE /\ client' = FALSE
    /\ UNCHANGED <<row, provider, bridged, held, ringTimer, redis, history, work>>

(* releaseAgentsOfEndedCalls.                                              *)
ReleaseAgent ==
    /\ held /\ status \in Final
    /\ held' = FALSE
    /\ UNCHANGED <<row, provider, client, legs, bridged, ringTimer, redis, history, work>>

(* The five-minute scan takes the claims of calls that are over, or not    *)
(* there yet (cleanupOrphanedCalls).                                       *)
SweepClaims ==
    /\ claimed /\ (~known \/ status \in Final)
    /\ claimed' = FALSE
    /\ UNCHANGED <<row, provider, effects, tomb, history, work>>

(* The tombstone's time runs out.                                          *)
TombstoneLapses ==
    /\ tomb # "none"
    /\ tomb' = "none" /\ lapsed' = TRUE
    /\ UNCHANGED <<row, provider, effects, claimed, direction, hangUps, endedFirst, work>>

-----------------------------------------------------------------------------
Receive(n) ==
    \/ ReceiveOffer(n) \/ ReceiveAnswer(n)
    \/ \E e \in Ends : ReceiveEnd(e, n)
    \/ \E e \in {"RINGING", "ACCEPTED", "REJECTED", "FAILED"} : ReceiveStatus(e, n)

Continue(t) ==
    \/ CheckTombstone(t) \/ CreateOver(t) \/ CreateCall(t) \/ LateCheck(t) \/ EndLate(t)
    \/ EndDuplicate(t) \/ RejectCall(t) \/ MissLine(t) \/ OfferLeg(t) \/ ShowCall(t)
    \/ LookUpAgain(t) \/ Entomb(t) \/ EndTimes(t) \/ EndStatus(t) \/ EndFailed(t)
    \/ EndCorrect(t) \/ RingTime(t) \/ RingStatus(t) \/ AnswerTime(t) \/ AnswerCorrect(t)
    \/ AnswerStatus(t) \/ Decline(t) \/ PostAnswer(t) \/ Hold(t) \/ DialTime(t)
    \/ DialLeg(t) \/ Dial(t) \/ Dialled(t) \/ DialFailed(t) \/ Terminate(t) \/ Settle(t)

Next ==
    \/ CustomerCalls \/ CustomerRings \/ CustomerAnswers \/ CustomerDeclines
    \/ LineEnds \/ AgentAnswers
    \/ \E n \in 0 .. MaxExtras : Receive(n)
    \/ \E t \in work : Continue(t)
    \/ StartCall \/ HangUp \/ CancelIntent
    \/ StuckScan \/ LineRingExpired \/ Reconcile \/ ReleaseAgent
    \/ SweepClaims \/ TombstoneLapses

(* Handlers go on, the provider delivers, and the timers of every worker   *)
(* run; nobody has to call, answer or hang up.                             *)
Fairness ==
    /\ WF_vars(\E t \in work : Continue(t)) /\ WF_vars(Receive(0))
    /\ WF_vars(StuckScan) /\ WF_vars(LineRingExpired)
    /\ WF_vars(Reconcile) /\ WF_vars(ReleaseAgent)

Spec == Init /\ [][Next]_vars /\ Fairness

-----------------------------------------------------------------------------
(* A call that the provider ended before its offer arrived rings nobody,   *)
(* whenever the end and the offer overtake each other (ChannelIngress,     *)
(* the two looks at the tombstone).                                        *)
EndedFirstRingsNobody == endedFirst /\ ~lapsed => ~client

(* The agent that an outbound call holds is let go when it is over: a hold *)
(* never lands on a call whose end has been settled (holdForOwnCall).      *)
HeldAgentIsSettled ==
    held /\ status \in Final => \E t \in work : t.at \in {"settle", "endCorrect"}

(* NO_ANSWER of a call that was answered does not last: whoever writes     *)
(* last, the answer's time or the reason, an inbound call's end puts it    *)
(* right (correctNoAnswerIfAnswered).                                      *)
NoAnswerOfAnswered == status = "TERMINATED" /\ reason = "NO_ANSWER" /\ answered
InboundNoAnswerIsCorrected ==
    (direction = "INBOUND" /\ NoAnswerOfAnswered) ~> ~NoAnswerOfAnswered

-----------------------------------------------------------------------------
(* The inductive invariant behind the first two.                           *)

(* Offers arrive for inbound calls, outbound ones are dialled and held.    *)
SidesInv ==
    /\ "offer" \in net => direction = "INBOUND"
    /\ \A t \in work : t.at \in ArrivalStages => direction = "INBOUND"
    /\ held \/ (\E t \in work : t.at \in DialStages) => direction = "OUTBOUND"

(* One offer writes the row and takes it from there, after a look at the   *)
(* tombstone.                                                              *)
Created == {"late", "lateEnd", "offerLeg", "show"}
Buried == endedFirst /\ ~lapsed
ArrivalInv ==
    /\ status = "none" => ~client /\ \A t \in work : t.at \notin Created
    /\ \A t, u \in work : t.at \in Created /\ u.at \in Created => t = u
    /\ Buried => /\ ~client /\ \A t \in work : t.at \notin {"offerLeg", "show"}
                 /\ status = "none" \/ (\E t \in work : t.at = "late") => tomb # "none"

(* Whoever ends a call goes on to settle it.                               *)
Settles(t) == t.at = "settle" \/ (t.at = "endCorrect" /\ t.why # None)
HeldInv == held /\ status \in Final => \E t \in work : Settles(t)

IInv == TypeOK /\ SidesInv /\ ArrivalInv /\ HeldInv

=============================================================================
