---------------------------- MODULE CallHandover ----------------------------
(***************************************************************************)
(* An answered call changes hands: transfers (TransferEventHandler), the   *)
(* target's accept (AgentEventHandler), unaccepted handovers               *)
(* (QueueTimeoutService), agents whose page is gone and who return         *)
(* (ConnectionEventHandler), customers whose audio stops                   *)
(* (CustomerNetworkLossPolicy), and the stored timers of the last two      *)
(* (Deadlines).                                                            *)
(*                                                                         *)
(* One call.  A handler between two awaits is a record of "work", as in    *)
(* CallRouting, and inputs of the inbox are started in their order.  How   *)
(* a queue chooses the next agent is CallRouting's; here it is one step.   *)
(* Time is left out: a timer that is set may fire at any moment.           *)
(***************************************************************************)
EXTENDS Integers, FiniteSets

CONSTANTS
    Agents,
    None,           \* SQL NULL
    MaxEvents,      \* bound: transfers asked for, pages that lose their connection,
                    \* losses of the customer's audio, and handlers lost with
                    \* their worker, altogether
    MaxWork         \* bound: handlers in flight when a free choice adds one

ASSUME NoneAssumption == None \notin Agents
ASSUME BoundsAssumption == MaxEvents \in Nat

VARIABLES
    status,     \* calls.status, ENDED for TERMINATED and FAILED
    agent,      \* calls.agent_id
    offered,    \* calls.offered_at: 0 for NULL, else a stamp
    inbound,    \* the call came in through a queue
    held,       \* agents whose busy_call_id is this call
    onShift,    \* agents whose availability is AVAILABLE
    pending,    \* the room has an agent leg that nobody has answered
    joined,     \* agents with a leg in the room
    invited,    \* agents whose client shows the call as incoming
    bound,      \* agents with a connected page bound to the call
    taken,      \* history: the agent, once they have accepted the call
    remarked,   \* history: a transfer marked it as offered after that
    audio,      \* the customer's packets arrive
    deadlines,  \* this call's members of callio:deadlines
    work,       \* handlers in flight
    crashed,    \* history: a worker died
    events

row == <<status, agent, offered, inbound>>
agents == <<held, onShift>>
media == <<pending, joined>>
clients == <<invited, bound>>
history == <<taken, remarked, crashed>>
vars == <<row, agents, media, clients, history, audio, deadlines, work, events>>

Statuses == {"RINGING", "IN_PROGRESS", "ENDED"}
Stamps == 1 .. 2

(* The next statement of a handler, by operation.                          *)
TransferStages == {"claim", "move", "undo", "mark", "free", "drop", "offer"}
AcceptStages == {"accept", "hold", "media", "confirm", "live"}
ScanStages == {"return", "expire", "withdraw", "release"}
EndStages == {"end", "endLost", "endAnswered", "settle", "settleLost"}
LossStages == {"gone", "dropLost", "setTimer"}
ReturnStages == {"back", "rejoin"}
CustomerStages == {"silent", "audible"}
TimerStages == {"reconnect", "network"}
Stages == UNION {TransferStages, AcceptStages, ScanStages, EndStages,
                 LossStages, ReturnStages, CustomerStages, TimerStages}

(* seen and live: the offered_at and whether the status was IN_PROGRESS,   *)
(* as the handler read them.                                               *)
Work == [at : Stages, agent : Agents \cup {None}, target : Agents \cup {None},
         seen : {0} \cup Stamps, live : BOOLEAN]

TypeOK == /\ status \in Statuses
          /\ agent \in Agents \cup {None}
          /\ offered \in {0} \cup Stamps
          /\ inbound \in BOOLEAN
          /\ held \subseteq Agents /\ onShift \subseteq Agents
          /\ pending \in BOOLEAN /\ joined \subseteq Agents
          /\ invited \subseteq Agents /\ bound \subseteq Agents
          /\ taken \in Agents \cup {None} /\ remarked \in BOOLEAN
          /\ audio \in BOOLEAN
          /\ deadlines \subseteq TimerStages
          /\ work \subseteq Work
          /\ crashed \in BOOLEAN /\ events \in 0 .. MaxEvents

(* Agent a talks with the customer.                                        *)
Init == /\ status = "IN_PROGRESS" /\ offered = 0
        /\ inbound \in BOOLEAN
        /\ \E a \in Agents : /\ agent = a /\ taken = a
                             /\ held = {a} /\ joined = {a} /\ bound = {a}
        /\ onShift = Agents
        /\ pending = FALSE /\ invited = {}
        /\ audio = TRUE /\ deadlines = {} /\ work = {}
        /\ remarked = FALSE /\ crashed = FALSE /\ events = 0

-----------------------------------------------------------------------------
Live == status \in {"RINGING", "IN_PROGRESS"}

Free(a) == a \in onShift \ held

Task(at, a, b, seen) ==
    [at |-> at, agent |-> a, target |-> b, seen |-> seen, live |-> status = "IN_PROGRESS"]

Room == Cardinality(work) < MaxWork

Begin(t) == work' = work \cup {t}
Goto(t, at) == work' = (work \ {t}) \cup {[t EXCEPT !.at = at]}
Finish(t) == work' = work \ {t}

(* A handler is about to give the call to somebody or to take it away.     *)
(* Such statements follow one another within milliseconds: nobody answers, *)
(* and no time-out of seconds passes, before the last of them.             *)
Moving == \E t \in work : t.at \in {"mark", "free", "drop", "offer",
                                    "accept", "hold", "release"}

(* An offered_at later than every one a scan in flight has read.           *)
FreshStamp == IF \E t \in work : t.at \in ScanStages /\ t.seen = 1 THEN 2 ELSE 1

-----------------------------------------------------------------------------
(* Transfer (handleCallTransferred).  An agent or supervisor asks for it;  *)
(* the source is the agent that the row names now.                         *)

Transfer(b) ==
    /\ Live /\ events < MaxEvents /\ Room
    /\ Begin(Task("claim", agent, b, 0))
    /\ events' = events + 1
    /\ UNCHANGED <<row, agents, media, clients, history, audio, deadlines>>

(* claimAgentForCall, for a named agent or a member of the target queue.   *)
(* A call that is the target's already is an error, which leaves the claim.*)
ClaimTarget(t) ==
    /\ t.at = "claim" /\ Free(t.target)
    /\ held' = held \cup {t.target}
    /\ IF t.target = t.agent
       THEN Finish(t)
       ELSE Goto(t, "move")
    /\ UNCHANGED <<row, onShift, media, clients, history, audio, deadlines, events>>

TargetUnavailable(t) ==
    /\ t.at = "claim" /\ ~Free(t.target)
    /\ Finish(t)
    /\ UNCHANGED <<row, agents, media, clients, history, audio, deadlines, events>>

(* assignCallToAgentIfUnassigned or updateCallAgentIfCurrent.              *)
Movable(t) == IF t.agent = None
              THEN agent = None /\ status = "RINGING" /\ inbound
              ELSE agent = t.agent /\ Live

Move(t) ==
    /\ t.at = "move" /\ Movable(t)
    /\ agent' = t.target /\ taken' = None /\ remarked' = FALSE
    /\ offered' = IF t.agent = None THEN FreshStamp ELSE offered
    /\ Goto(t, IF t.live THEN "mark" ELSE IF t.agent = None THEN "offer" ELSE "free")
    /\ UNCHANGED <<status, inbound, agents, media, clients, crashed, audio, deadlines, events>>

MoveConflict(t) ==
    /\ t.at = "move" /\ ~Movable(t)
    /\ Goto(t, "undo")
    /\ UNCHANGED <<row, agents, media, clients, history, audio, deadlines, events>>

UndoClaim(t) ==
    /\ t.at = "undo"
    /\ held' = held \ {t.target}
    /\ Finish(t)
    /\ UNCHANGED <<row, onShift, media, clients, history, audio, deadlines, events>>

(* markHandoverOffered, if the call was IN_PROGRESS when the handler began.*)
MarkHandover(t) ==
    /\ t.at = "mark"
    /\ IF agent = t.target /\ status = "IN_PROGRESS"
       THEN offered' = FreshStamp /\ remarked' = (remarked \/ taken = agent)
       ELSE UNCHANGED <<offered, remarked>>
    /\ Goto(t, "free")
    /\ UNCHANGED <<status, agent, inbound, agents, media, clients, taken, crashed, audio, deadlines, events>>

FreeSource(t) ==
    /\ t.at = "free"
    /\ held' = held \ {t.agent}
    /\ Goto(t, "drop")
    /\ UNCHANGED <<row, onShift, media, clients, history, audio, deadlines, events>>

DropSource(t) ==
    /\ t.at = "drop"
    /\ joined' = joined \ {t.agent}
    /\ Goto(t, "offer")
    /\ UNCHANGED <<row, agents, pending, clients, history, audio, deadlines, events>>

(* offerAgent; then the source's clients drop the call (call:room:leave    *)
(* unbinds their sockets) and the target's show it.                        *)
OfferTarget(t) ==
    /\ t.at = "offer"
    /\ pending' = TRUE
    /\ invited' = (invited \ {t.agent}) \cup {t.target}
    /\ bound' = bound \ {t.agent}
    /\ Finish(t)
    /\ UNCHANGED <<row, agents, joined, history, audio, deadlines, events>>

-----------------------------------------------------------------------------
(* Accept (handleAgentJoined), of a handover or of an offer from a queue.  *)

(* call:accept binds the page; a call without an offered leg is skipped.   *)
PostAccept(a) ==
    /\ a \in invited /\ agent = a /\ Live /\ Room
    /\ ~Moving
    /\ invited' = invited \ {a} /\ bound' = bound \cup {a}
    /\ work' = IF pending THEN work \cup {Task("accept", a, None, 0)} ELSE work
    /\ UNCHANGED <<row, agents, media, history, audio, deadlines, events>>

(* claimHandover, for a call that was IN_PROGRESS at the first check.      *)
ClaimHandover(t) ==
    /\ t.at = "accept" /\ t.live
    /\ status = "IN_PROGRESS" /\ agent = t.agent
    /\ offered' = 0 /\ taken' = t.agent /\ remarked' = FALSE
    /\ Goto(t, "media")
    /\ UNCHANGED <<status, agent, inbound, agents, media, clients, crashed, audio, deadlines, events>>

(* assignCallToAgentIfEligible.                                            *)
CanTake(a) == Live /\ agent \in {None, a}

ClaimOffer(t) ==
    /\ t.at = "accept" /\ ~t.live
    /\ CanTake(t.agent)
    /\ agent' = t.agent /\ offered' = 0 /\ taken' = t.agent /\ remarked' = FALSE
    /\ Goto(t, "hold")
    /\ UNCHANGED <<status, inbound, agents, media, clients, crashed, audio, deadlines, events>>

AcceptConflict(t) ==
    /\ t.at = "accept"
    /\ IF t.live THEN ~(status = "IN_PROGRESS" /\ agent = t.agent) ELSE ~CanTake(t.agent)
    /\ Finish(t)
    /\ UNCHANGED <<row, agents, media, clients, history, audio, deadlines, events>>

(* holdForOwnCall.                                                         *)
HoldAgent(t) ==
    /\ t.at = "hold"
    /\ held' = IF agent = t.agent /\ Live THEN held \cup {t.agent} ELSE held
    /\ Goto(t, "media")
    /\ UNCHANGED <<row, onShift, media, clients, history, audio, deadlines, events>>

(* agentAccepted: the agent's audio arrives, so their page is there.  Then *)
(* the row is read again: a handover that came back to the queue meanwhile *)
(* is answered like a call of the queue.                                   *)
MediaUp(t) ==
    /\ t.at = "media" /\ pending /\ t.agent \in bound
    /\ pending' = FALSE
    /\ joined' = joined \cup {t.agent}
    /\ IF status = "RINGING" THEN Goto(t, "confirm") ELSE Finish(t)
    /\ UNCHANGED <<row, agents, clients, history, audio, deadlines, events>>

(* The offered leg is gone; the error path releases the agent of a call    *)
(* that ended.                                                             *)
MediaGone(t) ==
    /\ t.at = "media" /\ ~pending
    /\ held' = IF Live THEN held ELSE held \ {t.agent}
    /\ Finish(t)
    /\ UNCHANGED <<row, onShift, media, clients, history, audio, deadlines, events>>

(* No microphone audio in time: #abortAcceptOnMediaFailure ends the call.  *)
MicrophoneSilent(t) ==
    /\ t.at = "media" /\ pending
    /\ pending' = FALSE
    /\ work' = (work \ {t}) \cup {Task("end", IF agent = None THEN t.agent ELSE agent, None, 0)}
    /\ UNCHANGED <<row, agents, joined, clients, history, audio, deadlines, events>>

Confirm(t) ==
    /\ t.at = "confirm"
    /\ IF CanTake(t.agent)
       THEN /\ agent' = t.agent /\ offered' = 0 /\ taken' = t.agent /\ remarked' = FALSE
            /\ Goto(t, "live")
       ELSE Finish(t) /\ UNCHANGED <<agent, offered, taken, remarked>>
    /\ UNCHANGED <<status, inbound, agents, media, clients, crashed, audio, deadlines, events>>

GoLive(t) ==
    /\ t.at = "live"
    /\ status' = IF status = "RINGING" THEN "IN_PROGRESS" ELSE status
    /\ held' = IF Live THEN held ELSE held \ {t.agent}
    /\ Finish(t)
    /\ UNCHANGED <<agent, offered, inbound, onShift, media, clients, history, audio, deadlines, events>>

-----------------------------------------------------------------------------
(* Handovers and offers that are not answered (QueueTimeoutService).       *)

(* findExpiredHandovers.                                                   *)
HandoverScan ==
    /\ status = "IN_PROGRESS" /\ agent # None /\ offered # 0
    /\ ~Moving /\ Room
    /\ Begin(Task(IF inbound THEN "return" ELSE "expire", agent, None, offered))
    /\ UNCHANGED <<row, agents, media, clients, history, audio, deadlines, events>>

(* Faults: returned because it is still theirs, accepted or not; and an    *)
(* offered_at compared with < instead of <=.                               *)
StillTheirs(t) == status = "IN_PROGRESS" /\ agent = t.agent
OfferedEarlier(t) == StillTheirs(t) /\ offered # 0 /\ offered < t.seen

(* The guard of returnHandoverToQueue and expireHandover.                  *)
Unaccepted(t) == /\ status = "IN_PROGRESS" /\ agent = t.agent
                 /\ offered # 0 /\ offered = t.seen

(* The offer stays for passOffer to withdraw, whatever its time is.        *)
ReturnHandover(t) ==
    /\ t.at = "return" /\ Unaccepted(t)
    /\ status' = "RINGING"
    /\ work' = (work \ {t}) \cup {[t EXCEPT !.at = "withdraw", !.seen = 0]}
    /\ UNCHANGED <<agent, offered, inbound, agents, media, clients, history, audio, deadlines, events>>

ExpireHandover(t) ==
    /\ t.at = "expire" /\ Unaccepted(t)
    /\ offered' = 0
    /\ Goto(t, "endAnswered")
    /\ UNCHANGED <<status, agent, inbound, agents, media, clients, history, audio, deadlines, events>>

HandoverMovedOn(t) ==
    /\ t.at \in {"return", "expire"} /\ ~Unaccepted(t)
    /\ Finish(t)
    /\ UNCHANGED <<row, agents, media, clients, history, audio, deadlines, events>>

(* A queue's ring timeout, and a decline, of a page that is not answering. *)
RingTimeout ==
    /\ status = "RINGING" /\ inbound /\ agent # None /\ offered # 0
    /\ Room
    /\ Begin(Task("withdraw", agent, None, offered))
    /\ UNCHANGED <<row, agents, media, clients, history, audio, deadlines, events>>

Decline(a) ==
    /\ status = "RINGING" /\ inbound /\ agent = a /\ a \in invited
    /\ \A t \in work : t.at \in AcceptStages => t.agent # a
    /\ Room
    /\ invited' = invited \ {a} /\ bound' = bound \ {a}
    /\ Begin(Task("withdraw", a, None, 0))
    /\ UNCHANGED <<row, agents, media, history, audio, deadlines, events>>

(* withdrawOffer.                                                          *)
CanWithdraw(t) == /\ agent = t.agent /\ status = "RINGING" /\ offered # 0
                  /\ t.seen # 0 => offered = t.seen

WithdrawOffer(t) ==
    /\ t.at = "withdraw"
    /\ IF CanWithdraw(t)
       THEN /\ agent' = None /\ offered' = 0
            /\ invited' = invited \ {t.agent}
            /\ Goto(t, "release")
       ELSE Finish(t) /\ UNCHANGED <<agent, offered, invited>>
    /\ UNCHANGED <<status, inbound, agents, media, bound, history, audio, deadlines, events>>

ReleaseOffered(t) ==
    /\ t.at = "release"
    /\ held' = held \ {t.agent}
    /\ Finish(t)
    /\ UNCHANGED <<row, onShift, media, clients, history, audio, deadlines, events>>

(* claimAgentAndAssignCall in a drain; the leg offered last is reused.     *)
QueueOffers(a) ==
    /\ status = "RINGING" /\ inbound /\ agent = None /\ Free(a)
    /\ agent' = a /\ offered' = FreshStamp /\ taken' = None /\ remarked' = FALSE
    /\ held' = held \cup {a}
    /\ invited' = invited \cup {a}
    /\ UNCHANGED <<status, inbound, onShift, media, bound, crashed, audio, deadlines, work, events>>

-----------------------------------------------------------------------------
(* The end (TerminationEventHandler, CallTerminator).                      *)

(* A hang-up or the provider's end; CALL_TERMINATED clears the reconnect   *)
(* deadline before anything else.                                          *)
HangUp ==
    /\ Live /\ Room
    /\ deadlines' = deadlines \ {"reconnect"}
    /\ Begin(Task("end", agent, None, 0))
    /\ UNCHANGED <<row, agents, media, clients, history, audio, events>>

MayEnd(t) == IF t.at = "endAnswered" THEN status = "IN_PROGRESS" ELSE Live

CommitEnd(t) ==
    /\ t.at \in {"end", "endLost", "endAnswered"} /\ MayEnd(t)
    /\ status' = "ENDED"
    /\ Goto(t, IF t.at = "endLost" THEN "settleLost" ELSE "settle")
    /\ UNCHANGED <<agent, offered, inbound, agents, media, clients, history, audio, deadlines, events>>

(* Someone else ended it: only the media and the timers are closed.        *)
EndLost(t) ==
    /\ t.at \in {"end", "endLost", "endAnswered"} /\ ~MayEnd(t)
    /\ IF Live THEN UNCHANGED <<media, deadlines>>
       ELSE deadlines' = {} /\ pending' = FALSE /\ joined' = {}
    /\ Finish(t)
    /\ UNCHANGED <<row, agents, clients, history, audio, events>>

(* settle: the agent of the row as read before; an agent who never came    *)
(* back goes OFFLINE.                                                      *)
Settle(t) ==
    /\ t.at \in {"settle", "settleLost"}
    /\ held' = held \ {t.agent}
    /\ onShift' = IF t.at = "settleLost" THEN onShift \ {t.agent} ELSE onShift
    /\ deadlines' = {} /\ pending' = FALSE /\ joined' = {}
    /\ Finish(t)
    /\ UNCHANGED <<row, clients, history, audio, events>>

(* releaseAgentsOfEndedCalls.                                              *)
Sweep ==
    /\ status = "ENDED" /\ held # {}
    /\ held' = {}
    /\ UNCHANGED <<row, onShift, media, clients, history, audio, deadlines, work, events>>

-----------------------------------------------------------------------------
(* Pages that are gone and come back (ConnectionEventHandler).             *)

PageLost(a) ==
    /\ a \in bound /\ events < MaxEvents
    /\ bound' = bound \ {a}
    /\ Begin(Task("gone", a, None, 0))
    /\ events' = events + 1
    /\ UNCHANGED <<row, agents, media, invited, history, audio, deadlines>>

(* handleFrontendDisconnected: only the call's agent is waited for.        *)
NoticeLoss(t) ==
    /\ t.at = "gone"
    /\ IF agent = t.agent THEN Goto(t, "dropLost") ELSE Finish(t)
    /\ UNCHANGED <<row, agents, media, clients, history, audio, deadlines, events>>

DropLost(t) ==
    /\ t.at = "dropLost"
    /\ joined' = joined \ {t.agent}
    /\ Goto(t, "setTimer")
    /\ UNCHANGED <<row, agents, pending, clients, history, audio, deadlines, events>>

(* Fault: the drop of the leg ends the handler.                            *)
NoTimer(t) == /\ t.at = "setTimer" /\ Finish(t)
              /\ UNCHANGED <<row, agents, media, clients, history, audio, deadlines, events>>

SetReconnectTimer(t) ==
    /\ t.at = "setTimer"
    /\ deadlines' = deadlines \cup {"reconnect"}
    /\ Finish(t)
    /\ UNCHANGED <<row, agents, media, clients, history, audio, events>>

(* call:reconnect; clearReconnectTimer is the handler's first statement.   *)
PageBack(a) ==
    /\ a \notin bound /\ agent = a /\ taken = a /\ status = "IN_PROGRESS" /\ Room
    /\ bound' = bound \cup {a}
    /\ deadlines' = deadlines \ {"reconnect"}
    /\ Begin(Task("back", a, None, 0))
    /\ UNCHANGED <<row, agents, media, invited, history, audio, events>>

(* handleAgentReconnected: getUserActiveCall, then answerAgent.            *)
CheckReturn(t) ==
    /\ t.at = "back"
    /\ IF agent = t.agent /\ Live THEN Goto(t, "rejoin") ELSE Finish(t)
    /\ UNCHANGED <<row, agents, media, clients, history, audio, deadlines, events>>

Rejoin(t) ==
    /\ t.at = "rejoin"
    /\ joined' = joined \cup {t.agent}
    /\ Finish(t)
    /\ UNCHANGED <<row, agents, pending, clients, history, audio, deadlines, events>>

(* Deadlines._tick claims a member; _reconnectExpired reads the row, and   *)
(* ends the call with the agent it names.                                  *)
DeadlineDue(k) ==
    /\ k \in deadlines
    /\ deadlines' = deadlines \ {k}
    /\ Begin(Task(k, None, None, 0))
    /\ UNCHANGED <<row, agents, media, clients, history, audio, events>>

ReconnectExpired(t) ==
    /\ t.at = "reconnect"
    /\ work' = (work \ {t}) \cup {Task("endLost", agent, None, 0)}
    /\ UNCHANGED <<row, agents, media, clients, history, audio, deadlines, events>>

-----------------------------------------------------------------------------
(* The customer's audio (CustomerNetworkLossPolicy); each change of the    *)
(* media state is handled on its own.                                      *)

CustomerDrops ==
    /\ status = "IN_PROGRESS" /\ audio /\ events < MaxEvents
    /\ audio' = FALSE /\ events' = events + 1
    /\ Begin(Task("silent", None, None, 0))
    /\ UNCHANGED <<row, agents, media, clients, history, deadlines>>

CustomerReturns ==
    /\ ~audio /\ status # "ENDED"
    /\ audio' = TRUE
    /\ Begin(Task("audible", None, None, 0))
    /\ UNCHANGED <<row, agents, media, clients, history, deadlines, events>>

(* The grace period starts or is cancelled once the change was logged.     *)
SetGrace(t) ==
    /\ t.at = "silent"
    /\ deadlines' = deadlines \cup {"network"}
    /\ Finish(t)
    /\ UNCHANGED <<row, agents, media, clients, history, audio, events>>

CancelGrace(t) ==
    /\ t.at = "audible"
    /\ deadlines' = deadlines \ {"network"}
    /\ Finish(t)
    /\ UNCHANGED <<row, agents, media, clients, history, audio, events>>

(* _end posts CALL_TERMINATED to the call's inbox.                         *)
GraceOver(t) ==
    /\ t.at = "network"
    /\ IF Live
       THEN /\ deadlines' = deadlines \ {"reconnect"}
            /\ work' = (work \ {t}) \cup {Task("end", agent, None, 0)}
       ELSE Finish(t) /\ UNCHANGED deadlines
    /\ UNCHANGED <<row, agents, media, clients, history, audio, events>>

(* A worker dies between two statements of a handler.                      *)
Crash ==
    /\ events < MaxEvents
    /\ \E t \in work : Finish(t)
    /\ crashed' = TRUE /\ events' = events + 1
    /\ UNCHANGED <<row, agents, media, clients, taken, remarked, audio, deadlines>>

-----------------------------------------------------------------------------
TransferStep(t) ==
    \/ ClaimTarget(t) \/ TargetUnavailable(t) \/ Move(t) \/ MoveConflict(t)
    \/ UndoClaim(t) \/ MarkHandover(t) \/ FreeSource(t) \/ DropSource(t)
    \/ OfferTarget(t)

AcceptStep(t) ==
    \/ ClaimHandover(t) \/ ClaimOffer(t) \/ AcceptConflict(t) \/ HoldAgent(t)
    \/ MediaUp(t) \/ MediaGone(t) \/ MicrophoneSilent(t) \/ Confirm(t)
    \/ GoLive(t)

ScanStep(t) ==
    \/ ReturnHandover(t) \/ ExpireHandover(t) \/ HandoverMovedOn(t)
    \/ WithdrawOffer(t) \/ ReleaseOffered(t)

EndStep(t) == CommitEnd(t) \/ EndLost(t) \/ Settle(t)

ConnectionStep(t) ==
    \/ NoticeLoss(t) \/ DropLost(t) \/ SetReconnectTimer(t)
    \/ CheckReturn(t) \/ Rejoin(t)

DeadlineStep(t) == \/ ReconnectExpired(t) \/ SetGrace(t) \/ CancelGrace(t)
                   \/ GraceOver(t)

Requests == \/ \E a \in Agents : \/ Transfer(a) \/ PostAccept(a) \/ Decline(a)
                                 \/ PageLost(a) \/ PageBack(a)
            \/ HangUp \/ CustomerDrops \/ CustomerReturns

Next == \/ Requests
        \/ \E t \in work : \/ TransferStep(t) \/ AcceptStep(t) \/ ScanStep(t)
                           \/ EndStep(t) \/ ConnectionStep(t) \/ DeadlineStep(t)
        \/ HandoverScan \/ RingTimeout \/ Sweep
        \/ \E a \in Agents : QueueOffers(a)
        \/ \E k \in TimerStages : DeadlineDue(k)
        \/ Crash

(* Workers keep running: their handlers go on, and the scans, the sweep    *)
(* and the ticks of the deadlines come round.                              *)
Fairness == /\ WF_vars(\E t \in work : TransferStep(t))
            /\ WF_vars(\E t \in work : AcceptStep(t))
            /\ WF_vars(\E t \in work : ScanStep(t))
            /\ WF_vars(\E t \in work : EndStep(t))
            /\ WF_vars(\E t \in work : ConnectionStep(t))
            /\ WF_vars(\E t \in work : DeadlineStep(t))
            /\ WF_vars(HandoverScan) /\ WF_vars(Sweep)
            /\ \A k \in TimerStages : WF_vars(DeadlineDue(k))

Spec == Init /\ [][Next]_vars /\ Fairness

-----------------------------------------------------------------------------
(* A transfer's time-out never takes the call from an agent who has        *)
(* accepted it, not back to the queue and not to its end: unless another   *)
(* transfer to them, made while their accept was under way, marks the call *)
(* as offered once they have accepted (markHandoverOffered does not ask).  *)
AcceptedHandoverStays ==
    [][ \A t \in work :
            ReturnHandover(t) \/ ExpireHandover(t) => taken # agent \/ remarked ]_vars

(* While no worker dies, an agent whose page is gone for good does not     *)
(* leave the customer with the reconnect tone for ever: they return, the   *)
(* call goes to another agent, or it ends.                                 *)
LostAgentIsNotAwaitedForever ==
    [](~crashed) =>
        \A a \in Agents :
            (status = "IN_PROGRESS" /\ agent = a /\ taken = a /\ a \notin bound)
                ~> (a \in bound \/ agent # a \/ status = "ENDED")

(* A handover that waits for its target does not wait for ever: it is      *)
(* accepted or moved on, its call goes back to a queue, or it ends.        *)
HandoverComesToAnEnd ==
    (status = "IN_PROGRESS" /\ offered # 0) ~> (offered = 0 \/ status # "IN_PROGRESS")

-----------------------------------------------------------------------------
(* The inductive invariant behind the first of them.                       *)

(* What the fields of a handler hold at each of its stages.                *)
TaskConsistent(t) ==
    /\ t.at \in TransferStages => t.target \in Agents
    /\ t.at \in AcceptStages \cup {"return", "expire", "back", "rejoin"} => t.agent \in Agents

(* A call that its agent has accepted is not offered, unless it was marked *)
(* again: every accept takes offered_at away.                              *)
AcceptedIsNotOffered == taken # None /\ taken = agent /\ offered # 0 => remarked

IInv == TypeOK /\ (\A t \in work : TaskConsistent(t)) /\ AcceptedIsNotOffered

=============================================================================
