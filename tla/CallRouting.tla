----------------------------- MODULE CallRouting -----------------------------
(***************************************************************************)
(* Inbound queue calls and the agents they are offered to: the calls and   *)
(* agents tables (CallRepository, AgentRepository), the routing that       *)
(* matches them (QueueRouter, AgentAssignmentCoordinator, OfferHistory,    *)
(* QueueTimeoutService, AutoOfflinePolicy) and the handlers that answer,   *)
(* decline and end a call (AgentEventHandler, RejectionEventHandler,       *)
(* TerminationEventHandler, CallTerminator, CallCleanupService).           *)
(*                                                                         *)
(* Workers share only the two tables and Redis, and every handler awaits   *)
(* between its statements.  So each SQL statement or transaction is one    *)
(* step here, and a handler between two of them is a record of "work" that *)
(* keeps what the handler read: any other step may come in between.        *)
(*                                                                         *)
(* Left out: IVR calls and transfers (state 'IVR', handovers), personal    *)
(* lines, outbound calls; the order in which equal candidates are tried;   *)
(* time (a timer may fire at any moment once its subject exists).          *)
(***************************************************************************)
EXTENDS Integers, FiniteSets

CONSTANTS
    Calls,          \* call ids in order of arrival
    Agents, Queues,
    None,           \* SQL NULL
    Tenant,         \* "every queue of the tenant", for a drain
    Members,        \* the agents of each queue
    Entries,        \* queues that channels route new calls to
    RingAll,        \* queues with strategy RING_ALL
    RingTimeout,    \* queues with ring_timeout_seconds
    MaxWait,        \* queues with max_wait_seconds
    Overflow,       \* overflow_queue_id of each queue
    MaxOverflows,   \* MAX_OVERFLOWS
    DrainAttempts,  \* tries of drainQueue when it loses claim races
    MaxMessages,    \* bound: handlers in flight when a message is accepted
    MaxWork,        \* bound: handlers in flight when a scan starts one
    MaxDrains,      \* bound: drains in flight
    MaxRequests,    \* bound: agents' shift changes and resyncs, provider failures
    MaxCrashes      \* bound: handlers lost with their worker

ASSUME CallsAssumption == Calls \subseteq Nat \ {0}
ASSUME NoneAssumption == None \notin Agents /\ None \notin Queues /\ None \notin Calls
ASSUME TenantAssumption == Tenant \notin Queues
ASSUME QueuesAssumption == /\ Members \in [Queues -> SUBSET Agents]
                           /\ Overflow \in [Queues -> Queues \cup {None}]
                           /\ Entries \subseteq Queues
                           /\ RingAll \subseteq Queues
                           /\ RingTimeout \subseteq Queues
                           /\ MaxWait \subseteq Queues
ASSUME BoundsAssumption == /\ MaxOverflows \in Nat
                           /\ DrainAttempts \in Nat \ {0}
                           /\ MaxRequests \in Nat
                           /\ MaxCrashes \in Nat

VARIABLES
    status,    \* calls.status; "NEW" before the row exists
    agent,     \* calls.agent_id
    offered,   \* calls.offered_at: 0 for NULL, else a stamp
    rung,      \* the current offer has rung for its queue's ring timeout
    queue,     \* calls.queue_id
    hops,      \* calls.overflow_count
    leg,       \* the agent's media leg of the call: "none", "ready" or "used"
    shift,     \* agents.availability: TRUE for AVAILABLE
    busy,      \* agents.busy_call_id
    declined,  \* OfferHistory: who declined the call
    missed,    \* OfferHistory: who let it ring out this round
    work,      \* handlers in flight
    due,       \* drains about to start: a queue, or Tenant for all of them
    drains,    \* drains in flight
    requests, crashes

callVars == <<status, agent, offered, rung, queue, hops, leg>>
agentVars == <<shift, busy>>
history == <<declined, missed>>
draining == <<due, drains>>
bounds == <<requests, crashes>>
vars == <<callVars, agentVars, history, work, draining, bounds>>

Statuses == {"NEW", "RINGING", "IN_PROGRESS", "TERMINATED", "FAILED"}
Stamps == 1 .. 2

Stages == {"new", "claimNew",                                     \* a new call
           "join", "claim", "hold", "media", "answer", "confirm", "live", "fail",
           "decline", "reject", "withdraw", "record", "release", "miss",
           "wait", "moved", "enter",                              \* max wait
           "end", "endRinging", "endFailed", "endNetwork",         \* the end
          "endCustomer", "endProvider", "settle"}

Work == [at : Stages, call : Calls, agent : Agents \cup {None},
         queue : Queues \cup {None}, seen : {0} \cup Stamps]

Drain == [at : {"members", "read", "next", "claim"}, queues : SUBSET Queues,
          queue : Queues, members : SUBSET Agents, todo : SUBSET Calls,
          call : Calls \cup {None}, pool : SUBSET Agents,
          try : 1 .. DrainAttempts, lost : BOOLEAN]

TypeOK == /\ status \in [Calls -> Statuses]
          /\ agent \in [Calls -> Agents \cup {None}]
          /\ offered \in [Calls -> {0} \cup Stamps]
          /\ rung \in [Calls -> BOOLEAN]
          /\ queue \in [Calls -> Queues \cup {None}]
          /\ hops \in [Calls -> 0 .. MaxOverflows]
          /\ leg \in [Calls -> {"none", "ready", "used"}]
          /\ shift \in [Agents -> BOOLEAN]
          /\ busy \in [Agents -> Calls \cup {None}]
          /\ declined \in [Calls -> SUBSET Agents]
          /\ missed \in [Calls -> SUBSET Agents]
          /\ work \subseteq Work
          /\ due \subseteq Queues \cup {Tenant}
          /\ drains \subseteq Drain
          /\ requests \in 0 .. MaxRequests
          /\ crashes \in 0 .. MaxCrashes

Init == /\ status = [c \in Calls |-> "NEW"]
        /\ agent = [c \in Calls |-> None]
        /\ offered = [c \in Calls |-> 0]
        /\ rung = [c \in Calls |-> FALSE]
        /\ queue = [c \in Calls |-> None]
        /\ hops = [c \in Calls |-> 0]
        /\ leg = [c \in Calls |-> "none"]
        /\ shift = [a \in Agents |-> TRUE]
        /\ busy = [a \in Agents |-> None]
        /\ declined = [c \in Calls |-> {}]
        /\ missed = [c \in Calls |-> {}]
        /\ work = {} /\ due = {} /\ drains = {}
        /\ requests = 0 /\ crashes = 0

-----------------------------------------------------------------------------
(* Conditions the SQL guards and the handlers test.                        *)

Live(c) == status[c] \in {"RINGING", "IN_PROGRESS"}

Final(c) == status[c] \in {"TERMINATED", "FAILED"}

(* WAITING_IN_QUEUE.                                                       *)
Unassigned(c) == status[c] = "RINGING" /\ agent[c] = None

WaitingIn(q) == {c \in Calls : Unassigned(c) /\ queue[c] = q}

(* The status an agent reports (reportedAvailability) is AVAILABLE.        *)
Available(a) == shift[a] /\ busy[a] = None

OnOtherCall(a, c) == \E o \in Calls \ {c} : agent[o] = a /\ Live(o)

(* The guard of the agent's row in claimAgentAndAssignCall.                *)
Claimable(a) == Available(a) /\ \A c \in Calls : agent[c] = a => ~Live(c)

(* CallAccess.asAgent: a call's agent, or a member of the RING_ALL queue   *)
(* an unassigned call is offered to.                                       *)
MayAct(c, a) == /\ Live(c)
                /\ \/ agent[c] = a
                   \/ /\ agent[c] = None
                      /\ queue[c] \in RingAll
                      /\ a \in Members[queue[c]]

(* The guard of assignCallToAgentIfEligible.                               *)
CanTake(c, a) == Live(c) /\ agent[c] \in {None, a}

(* Faults: a withdrawal that forgets that offered_at is cleared when the   *)
(* agent starts to answer, and one that forgets expiredBefore.             *)
WithdrawsAnswered(t) == agent[t.call] = t.agent /\ status[t.call] = "RINGING"
WithdrawsAnyOffer(t) == WithdrawsAnswered(t) /\ offered[t.call] # 0

(* The guard of withdrawOffer.  A ring timeout passes the offered_at that  *)
(* its scan read, and an offer made again since then is left alone.        *)
CanWithdraw(t) == /\ agent[t.call] = t.agent
                  /\ status[t.call] = "RINGING"
                  /\ offered[t.call] # 0
                  /\ t.seen # 0 => offered[t.call] = t.seen

(* OfferHistory.eligible, of the members that are available: those that    *)
(* neither declined nor missed the call, else a new round of those that    *)
(* did not decline.                                                        *)
Fresh(c, members) == members \ (declined[c] \cup missed[c])
Eligible(c, members) == IF Fresh(c, members) # {}
                        THEN Fresh(c, members) ELSE members \ declined[c]
NewRound(c, members) == Fresh(c, members) = {} /\ members \ declined[c] # {}

(* An offered_at later than every one a scan in flight has read.           *)
FreshStamp(c) ==
    IF \E t \in work : t.at = "withdraw" /\ t.call = c /\ t.seen = 1 THEN 2 ELSE 1

-----------------------------------------------------------------------------
(* Updates of the rows, and of the handlers in flight.                     *)

Task(at, c, a, q, seen) ==
    [at |-> at, call |-> c, agent |-> a, queue |-> q, seen |-> seen]

Goto(t, at) == work' = (work \ {t}) \cup {[t EXCEPT !.at = at]}
Finish(t) == work' = work \ {t}

(* claimAgentAndAssignCall, both of its updates in one transaction.        *)
MakeOffer(c, a) == /\ busy' = [busy EXCEPT ![a] = c]
                   /\ agent' = [agent EXCEPT ![c] = a]
                   /\ offered' = [offered EXCEPT ![c] = FreshStamp(c)]
                   /\ rung' = [rung EXCEPT ![c] = FALSE]

(* assignCallToAgentIfEligible: clearing offered_at stops the ring timeout.*)
TakeCall(c, a) == /\ agent' = [agent EXCEPT ![c] = a]
                  /\ offered' = [offered EXCEPT ![c] = 0]
                  /\ rung' = [rung EXCEPT ![c] = FALSE]

(* withdrawOffer; overflowToQueue also takes the offer back.               *)
DropOffer(c) == /\ agent' = [agent EXCEPT ![c] = None]
                /\ offered' = [offered EXCEPT ![c] = 0]
                /\ rung' = [rung EXCEPT ![c] = FALSE]

(* Fault: a release that does not ask which call holds the agent.          *)
InexactRelease(a, c) == [x \in Agents |-> IF x = a /\ c # None THEN None ELSE busy[x]]

(* releaseFromCall: exact, only the call that holds the agent lets go.     *)
Released(a, c) ==
    [x \in Agents |-> IF x = a /\ busy[x] = c THEN None ELSE busy[x]]

(* holdForOwnCall: only while the call is active and theirs, and they are  *)
(* on no other.  The accept flow goes on whether or not it holds.          *)
Held(a, c) == IF /\ busy[a] \in {None, c}
                 /\ ~OnOtherCall(a, c)
                 /\ agent[c] = a /\ Live(c)
              THEN [busy EXCEPT ![a] = c] ELSE busy

(* mediaLegs.storedAgentOffer: a leg offered once is never offered again.  *)
LegOffered(c) == leg' = [leg EXCEPT ![c] = IF @ = "none" THEN "ready" ELSE @]

-----------------------------------------------------------------------------
(* A new call (ChannelIngress._handleIncomingCall, QueueRouter).           *)

Arrive(c) ==
    /\ status[c] = "NEW"
    /\ \A o \in Calls : o < c => status[o] # "NEW"
    /\ Cardinality(work) < MaxMessages
    /\ status' = [status EXCEPT ![c] = "RINGING"]
    /\ \E q \in Entries :
          /\ queue' = [queue EXCEPT ![c] = q]
          /\ work' = work \cup {Task("new", c, None, q, 0)}
    /\ UNCHANGED <<agent, offered, rung, hops, leg, agentVars, history, draining, bounds>>

(* Nobody is claimed for a RING_ALL queue: its members are rung at once.   *)
NewRingAll(t) ==
    /\ t.at = "new" /\ t.queue \in RingAll
    /\ leg' = [leg EXCEPT ![t.call] = "ready"]
    /\ Finish(t)
    /\ UNCHANGED <<status, agent, offered, rung, queue, hops, agentVars, history, draining, bounds>>

(* hasUnassignedCalls: a new call never jumps ahead of a waiting one.      *)
OlderWaiting(t) == \E o \in WaitingIn(t.queue) : o < t.call

NewInOrder(t) ==
    /\ t.at = "new" /\ t.queue \notin RingAll
    /\ ~OlderWaiting(t)
    /\ Goto(t, "claimNew")
    /\ UNCHANGED <<callVars, agentVars, history, draining, bounds>>

NewAssigned(t) ==
    /\ t.at = "claimNew"
    /\ Unassigned(t.call)
    /\ \E a \in Members[t.queue] : Claimable(a) /\ MakeOffer(t.call, a)
    /\ leg' = [leg EXCEPT ![t.call] = "ready"]
    /\ Finish(t)
    /\ UNCHANGED <<status, queue, hops, shift, history, draining, bounds>>

(* Nobody claimed on arrival: the call waits and the queues are drained.   *)
NewWaits(t) ==
    /\ \/ t.at = "new" /\ t.queue \notin RingAll /\ OlderWaiting(t)
       \/ /\ t.at = "claimNew"
          /\ Unassigned(t.call) => \A a \in Members[t.queue] : ~Claimable(a)
    /\ leg' = [leg EXCEPT ![t.call] = "ready"]
    /\ due' = due \cup {Tenant}
    /\ Finish(t)
    /\ UNCHANGED <<status, agent, offered, rung, queue, hops, agentVars, history, drains, bounds>>

-----------------------------------------------------------------------------
(* An agent accepts: call:accept posts AGENT_JOINED to the call's worker   *)
(* (AgentEventHandler.handleAgentJoined).                                  *)

PostJoin(c, a) ==
    /\ MayAct(c, a)
    /\ Cardinality(work) < MaxMessages
    /\ work' = work \cup {Task("join", c, a, None, 0)}
    /\ UNCHANGED <<callVars, agentVars, history, draining, bounds>>

(* A call already IN_PROGRESS is a transfer accept; there is no transfer   *)
(* here, but the call's own agent may send it (a second device).           *)
Join(t) ==
    /\ t.at = "join"
    /\ leg[t.call] = "ready"
    /\ ~OnOtherCall(t.agent, t.call)
    /\ \/ status[t.call] = "RINGING" /\ Goto(t, "claim")
       \/ status[t.call] = "IN_PROGRESS" /\ agent[t.call] = t.agent /\ Goto(t, "media")
    /\ UNCHANGED <<callVars, agentVars, history, draining, bounds>>

(* No leg to answer on, another active call, or the call is not ringing.   *)
JoinIgnored(t) ==
    /\ t.at = "join"
    /\ \/ leg[t.call] # "ready"
       \/ OnOtherCall(t.agent, t.call)
       \/ status[t.call] # "RINGING" /\ ~(status[t.call] = "IN_PROGRESS" /\ agent[t.call] = t.agent)
    /\ Finish(t)
    /\ UNCHANGED <<callVars, agentVars, history, draining, bounds>>

(* queues.max_active_calls is reached.                                     *)
JoinOverCapacity(t) ==
    /\ t.at = "join" /\ leg[t.call] = "ready"
    /\ Goto(t, "fail")
    /\ UNCHANGED <<callVars, agentVars, history, draining, bounds>>

ClaimForJoin(t) ==
    /\ t.at = "claim" /\ CanTake(t.call, t.agent)
    /\ TakeCall(t.call, t.agent)
    /\ Goto(t, "hold")
    /\ UNCHANGED <<status, queue, hops, leg, agentVars, history, draining, bounds>>

Hold(t) ==
    /\ t.at = "hold"
    /\ busy' = Held(t.agent, t.call)
    /\ Goto(t, "media")
    /\ UNCHANGED <<callVars, shift, history, draining, bounds>>

(* mediaLegs.agentAccepted uses the leg up, whether or not it succeeds: by *)
(* the agent's audio arriving, by another error, or by the microphone      *)
(* staying silent, which ends the call (#abortAcceptOnMediaFailure).       *)
Media(t) ==
    /\ t.at = "media" /\ leg[t.call] = "ready"
    /\ leg' = [leg EXCEPT ![t.call] = "used"]
    /\ \E next \in {"answer", "fail", "endFailed"} : Goto(t, next)
    /\ UNCHANGED <<status, agent, offered, rung, queue, hops, agentVars, history, draining, bounds>>

NoLeg(t) ==
    /\ t.at = "media" /\ leg[t.call] # "ready"
    /\ Goto(t, "fail")
    /\ UNCHANGED <<callVars, agentVars, history, draining, bounds>>

(* The provider round trip that answers the customer, or its failure.      *)
AnswerCustomer(t) ==
    /\ t.at = "answer" /\ status[t.call] = "RINGING"
    /\ \E next \in {"confirm", "fail"} : Goto(t, next)
    /\ UNCHANGED <<callVars, agentVars, history, draining, bounds>>

(* The call is not ringing any more when its row is read again: nothing to *)
(* answer, and bridging the legs of an ended call may fail.                *)
NothingToAnswer(t) ==
    /\ t.at = "answer" /\ status[t.call] # "RINGING"
    /\ Finish(t) \/ (Final(t.call) /\ Goto(t, "fail"))
    /\ UNCHANGED <<callVars, agentVars, history, draining, bounds>>

ConfirmClaim(t) ==
    /\ t.at = "confirm" /\ CanTake(t.call, t.agent)
    /\ TakeCall(t.call, t.agent)
    /\ Goto(t, "live")
    /\ UNCHANGED <<status, queue, hops, leg, agentVars, history, draining, bounds>>

(* A lost claim only tells the agent (an assignment conflict releases      *)
(* nobody); a call seen ended after the provider's answer goes to "fail".  *)
ClaimLost(t) ==
    /\ t.at \in {"claim", "confirm"} /\ ~CanTake(t.call, t.agent)
    /\ Finish(t) \/ (t.at = "confirm" /\ Final(t.call) /\ Goto(t, "fail"))
    /\ UNCHANGED <<callVars, agentVars, history, draining, bounds>>

(* Fault: updateStatus instead of transitionStatus.                        *)
UnguardedGoLive(t) ==
    /\ t.at = "live"
    /\ status' = [status EXCEPT ![t.call] = "IN_PROGRESS"]
    /\ Finish(t)
    /\ UNCHANGED <<agent, offered, rung, queue, hops, leg, agentVars, history, draining, bounds>>

(* transitionStatus(RINGING -> IN_PROGRESS).                               *)
GoLive(t) ==
    /\ t.at = "live" /\ status[t.call] = "RINGING"
    /\ status' = [status EXCEPT ![t.call] = "IN_PROGRESS"]
    /\ Finish(t)
    /\ UNCHANGED <<agent, offered, rung, queue, hops, leg, agentVars, history, draining, bounds>>

LiveTooLate(t) ==
    /\ t.at = "live" /\ status[t.call] # "RINGING"
    /\ Goto(t, "fail")
    /\ UNCHANGED <<callVars, agentVars, history, draining, bounds>>

(* The error path of the accept: an ended call releases the agent.         *)
Failed(t) ==
    /\ t.at = "fail"
    /\ IF Final(t.call)
       THEN busy' = Released(t.agent, t.call) /\ due' = due \cup {Tenant}
       ELSE UNCHANGED <<busy, due>>
    /\ Finish(t)
    /\ UNCHANGED <<callVars, shift, history, drains, bounds>>

(* A ringing agent's client reconnects: its leg is offered again           *)
(* (handleRingingAgentReconnect).                                          *)
RingingAgentReconnect(c) ==
    /\ status[c] = "RINGING" /\ agent[c] # None /\ leg[c] = "used"
    /\ requests < MaxRequests /\ requests' = requests + 1
    /\ leg' = [leg EXCEPT ![c] = "ready"]
    /\ UNCHANGED <<status, agent, offered, rung, queue, hops, agentVars, history, work, draining, crashes>>

-----------------------------------------------------------------------------
(* An agent declines (RejectionEventHandler), or an offer rings out        *)
(* (QueueTimeoutService.#expireOffers): AgentAssignmentCoordinator         *)
(* .passOffer.  A task's "seen" is the offered_at the scan read, 0 for a   *)
(* decline.  (A decline sent after the call was answered is not modelled:  *)
(* its handler reads the status and does nothing.)                         *)

PostDecline(c, a) ==
    /\ MayAct(c, a) /\ status[c] = "RINGING"
    /\ Cardinality(work) < MaxMessages
    /\ work' = work \cup {Task("decline", c, a, None, 0)}
    /\ UNCHANGED <<callVars, agentVars, history, draining, bounds>>

(* What a decline does depends on the row as the handler reads it.         *)
DeclineOffer(t) ==
    /\ t.at = "decline" /\ status[t.call] = "RINGING"
    /\ queue[t.call] \notin RingAll /\ agent[t.call] = t.agent
    /\ work' = (work \ {t}) \cup {Task("withdraw", t.call, t.agent, queue[t.call], 0)}
    /\ UNCHANGED <<callVars, agentVars, history, draining, bounds>>

DeclineCall(t) ==
    /\ t.at = "decline" /\ status[t.call] = "RINGING"
    /\ queue[t.call] \in RingAll /\ agent[t.call] # None
    /\ Goto(t, "reject")
    /\ UNCHANGED <<callVars, agentVars, history, draining, bounds>>

(* A RING_ALL call nobody has taken is only dismissed; an offer that moved *)
(* on, or a call already answered or ended, is not the agent's to decline. *)
DeclineIgnored(t) ==
    /\ t.at = "decline"
    /\ \/ status[t.call] # "RINGING"
       \/ IF queue[t.call] \in RingAll THEN agent[t.call] = None ELSE agent[t.call] # t.agent
    /\ Finish(t)
    /\ UNCHANGED <<callVars, agentVars, history, draining, bounds>>

(* The agent who took a RING_ALL call rejects it: it ends.                 *)
RejectCall(t) ==
    /\ t.at = "reject"
    /\ IF CanTake(t.call, t.agent)
       THEN TakeCall(t.call, t.agent) /\ Goto(t, "end")
       ELSE UNCHANGED <<agent, offered, rung>> /\ Finish(t)
    /\ UNCHANGED <<status, queue, hops, leg, agentVars, history, draining, bounds>>

RingOut(c) ==
    /\ status[c] = "RINGING" /\ offered[c] # 0 /\ ~rung[c]
    /\ queue[c] \in RingTimeout \ RingAll
    /\ rung' = [rung EXCEPT ![c] = TRUE]
    /\ UNCHANGED <<status, agent, offered, queue, hops, leg, agentVars, history, work, draining, bounds>>

(* findExpiredOffers; the scan awaits each pass before it reads again.     *)
ExpireScan(c) ==
    /\ status[c] = "RINGING" /\ offered[c] # 0 /\ rung[c]
    /\ agent[c] # None /\ queue[c] \in RingTimeout \ RingAll
    /\ Cardinality(work) < MaxWork
    /\ \A t \in work : t.call = c /\ t.queue # None => t.seen = 0
    /\ work' = work \cup {Task("withdraw", c, agent[c], queue[c], offered[c])}
    /\ UNCHANGED <<callVars, agentVars, history, draining, bounds>>

Withdraw(t) ==
    /\ t.at = "withdraw"
    /\ IF CanWithdraw(t)
       THEN DropOffer(t.call) /\ Goto(t, "record")
       ELSE UNCHANGED <<agent, offered, rung>> /\ Finish(t)
    /\ UNCHANGED <<status, queue, hops, leg, agentVars, history, draining, bounds>>

Record(t) ==
    /\ t.at = "record"
    /\ IF t.seen = 0
       THEN /\ declined' = [declined EXCEPT ![t.call] = @ \cup {t.agent}]
            /\ UNCHANGED missed
       ELSE /\ missed' = [missed EXCEPT ![t.call] = @ \cup {t.agent}]
            /\ UNCHANGED declined
    /\ Goto(t, "release")
    /\ UNCHANGED <<callVars, agentVars, draining, bounds>>

(* A decline is routed on at once, a miss is first counted.                *)
Release(t) ==
    /\ t.at = "release"
    /\ busy' = Released(t.agent, t.call)
    /\ IF t.seen = 0
       THEN Finish(t) /\ due' = due \cup {t.queue}
       ELSE Goto(t, "miss") /\ UNCHANGED due
    /\ UNCHANGED <<callVars, shift, history, drains, bounds>>

(* AutoOfflinePolicy.recordMiss: a miss while on another active call does  *)
(* not count; one that reaches the tenant's threshold ends the shift.  Then*)
(* the queue is drained, if the call is still to be offered.               *)
Miss(t) ==
    /\ t.at = "miss"
    /\ \/ UNCHANGED shift
       \/ ~OnOtherCall(t.agent, t.call) /\ shift' = [shift EXCEPT ![t.agent] = FALSE]
    /\ due' = due \cup ({t.queue} \ {None})
    /\ Finish(t)
    /\ UNCHANGED <<callVars, busy, history, drains, bounds>>

-----------------------------------------------------------------------------
(* max_wait_seconds (QueueTimeoutService.#expireWaits): the call moves to  *)
(* its overflow queue, or ends.                                            *)

(* Fault: overflow without MAX_OVERFLOWS.                                  *)
UnboundedOverflow(c) ==
    IF Overflow[queue[c]] \notin {None, queue[c]} THEN Overflow[queue[c]] ELSE None

OverflowTarget(c) == IF /\ Overflow[queue[c]] \notin {None, queue[c]}
                        /\ hops[c] < MaxOverflows
                     THEN Overflow[queue[c]] ELSE None

WaitScan(c) ==
    /\ status[c] = "RINGING" /\ queue[c] \in MaxWait
    /\ agent[c] = None \/ offered[c] # 0
    /\ Cardinality(work) < MaxWork
    /\ \A t \in work : t.call = c => t.at \notin {"wait", "moved", "enter", "endRinging"}
    /\ work' = work \cup
         {Task(IF OverflowTarget(c) = None THEN "endRinging" ELSE "wait", c, agent[c], queue[c], 0)}
    /\ UNCHANGED <<callVars, agentVars, history, draining, bounds>>

(* Fault: overflow_count is not counted up.                                *)
UncountedOverflow(t) ==
    /\ t.at = "wait"
    /\ status[t.call] = "RINGING" /\ queue[t.call] = t.queue
    /\ agent[t.call] = t.agent /\ (agent[t.call] = None \/ offered[t.call] # 0)
    /\ queue' = [queue EXCEPT ![t.call] = Overflow[t.queue]]
    /\ DropOffer(t.call)
    /\ work' = (work \ {t}) \cup {Task("moved", t.call, t.agent, Overflow[t.queue], 0)}
    /\ UNCHANGED <<status, hops, leg, agentVars, history, draining, bounds>>

(* overflowToQueue, guarded on the queue and the offer the scan saw.       *)
MoveToOverflow(t) ==
    /\ t.at = "wait"
    /\ status[t.call] = "RINGING" /\ queue[t.call] = t.queue
    /\ agent[t.call] = t.agent /\ (agent[t.call] = None \/ offered[t.call] # 0)
    /\ queue' = [queue EXCEPT ![t.call] = Overflow[t.queue]]
    /\ hops' = [hops EXCEPT ![t.call] = @ + 1]
    /\ DropOffer(t.call)
    /\ work' = (work \ {t}) \cup {Task("moved", t.call, t.agent, Overflow[t.queue], 0)}
    /\ UNCHANGED <<status, leg, agentVars, history, draining, bounds>>

NotMoved(t) ==
    /\ t.at = "wait"
    /\ \/ status[t.call] # "RINGING" \/ queue[t.call] # t.queue
       \/ agent[t.call] # t.agent \/ (agent[t.call] # None /\ offered[t.call] = 0)
    /\ Finish(t)
    /\ UNCHANGED <<callVars, agentVars, history, draining, bounds>>

(* callOverflowed: whoever it was ringing is released.                     *)
Moved(t) ==
    /\ t.at = "moved"
    /\ busy' = IF t.agent = None THEN busy ELSE Released(t.agent, t.call)
    /\ Goto(t, "enter")
    /\ UNCHANGED <<callVars, shift, history, draining, bounds>>

(* A new queue is a new round.  RING_ALL rings every member that is        *)
(* available, another queue is drained (routeWaitingCall).                 *)
EnterQueue(t) ==
    /\ t.at = "enter"
    /\ missed' = [missed EXCEPT ![t.call] = {}]
    /\ IF t.queue \in RingAll
       THEN LegOffered(t.call) /\ UNCHANGED due
       ELSE due' = due \cup {t.queue} /\ UNCHANGED leg
    /\ Finish(t)
    /\ UNCHANGED <<status, agent, offered, rung, queue, hops, agentVars, declined, drains, bounds>>

-----------------------------------------------------------------------------
(* The end of a call (TerminationEventHandler, CallCleanupService,         *)
(* CallTerminator.end): the status flip is the commit, and whoever commits *)
(* it settles the call with the row as it was read before.                 *)

(* An agent, a supervisor or the consumer hangs up.                        *)
HangUp(c) ==
    /\ Live(c)
    /\ Cardinality(work) < MaxMessages
    /\ work' = work \cup {Task("end", c, agent[c], None, 0)}
    /\ UNCHANGED <<callVars, agentVars, history, draining, bounds>>

(* The media is lost: the client of the call's agent gave up reconnecting  *)
(* ('system_failed'), or the customer fell silent.                         *)
MediaLost(c) ==
    /\ Live(c) /\ agent[c] # None
    /\ Cardinality(work) < MaxMessages
    /\ work' = work \cup {Task("endNetwork", c, agent[c], None, 0)}
    /\ UNCHANGED <<callVars, agentVars, history, draining, bounds>>

(* The provider reports that the customer hung up, or that the call failed *)
(* on its side, be it ended here already (ChannelIngress._handleCallEnded).*)
(* seen = 2: it was still ringing one agent, who may have missed it.       *)
ProviderEnd(c) ==
    /\ Cardinality(work) < MaxMessages
    /\ \/ /\ Live(c)
          /\ LET seen == IF status[c] = "RINGING" /\ queue[c] \notin RingAll THEN 2 ELSE 0
             IN  work' = work \cup {Task("endCustomer", c, agent[c], None, seen)}
          /\ UNCHANGED requests
       \/ /\ status[c] # "NEW"
          /\ requests < MaxRequests /\ requests' = requests + 1
          /\ work' = work \cup {Task("endProvider", c, agent[c], None, 0)}
    /\ UNCHANGED <<callVars, agentVars, history, draining, crashes>>

(* findAllStuckCalls: ringing too long in a queue without max_wait.        *)
NoAnswerScan(c) ==
    /\ status[c] = "RINGING" /\ queue[c] \notin MaxWait
    /\ Cardinality(work) < MaxWork
    /\ \A t \in work : t.call = c => t.at # "endRinging"
    /\ work' = work \cup {Task("endRinging", c, agent[c], None, 0)}
    /\ UNCHANGED <<callVars, agentVars, history, draining, bounds>>

(* Fault: an end that ends ended calls.                                    *)
EndsAgain(t) == status[t.call] # "NEW"

(* The guards of terminateCallIfNotTerminated, for a timer only while still*)
(* RINGING (onlyIfStatus), of markCallFailedIfNotFinal, finalizeFromWebhook*)
(* and finalizeCallAsFailed: a failure of the provider overrides any other *)
(* end.                                                                    *)
CanEnd(t) == CASE t.at = "endRinging" -> status[t.call] = "RINGING"
               [] t.at = "endProvider" -> Live(t.call) \/ status[t.call] = "TERMINATED"
               [] OTHER -> Live(t.call)

Ending(t) ==
    t.at \in {"end", "endRinging", "endFailed", "endNetwork", "endCustomer", "endProvider"}

FinalStatus(t) ==
    IF t.at \in {"endFailed", "endNetwork", "endProvider"} THEN "FAILED" ELSE "TERMINATED"

CommitEnd(t) ==
    /\ Ending(t) /\ CanEnd(t)
    /\ status' = [status EXCEPT ![t.call] = FinalStatus(t)]
    /\ offered' = [offered EXCEPT ![t.call] = IF t.at \in {"end", "endRinging"} THEN 0 ELSE @]
    /\ rung' = [rung EXCEPT ![t.call] = FALSE]
    /\ work' = (work \ {t}) \cup
         {Task("settle", t.call, t.agent, None, IF t.at = "endFailed" THEN 1 ELSE t.seen)}
    /\ UNCHANGED <<agent, queue, hops, leg, agentVars, history, draining, bounds>>

(* Somebody else ended it: CallTerminator.end closes only the media, unless*)
(* a timer finds the call answered, which is left alone.                   *)
EndLost(t) ==
    /\ Ending(t) /\ ~CanEnd(t)
    /\ leg' = [leg EXCEPT ![t.call] =
                 IF Final(t.call) /\ t.at \notin {"endCustomer", "endProvider"} THEN "used" ELSE @]
    /\ IF t.at = "endFailed" THEN Goto(t, "fail") ELSE Finish(t)
    /\ UNCHANGED <<status, agent, offered, rung, queue, hops, agentVars, history, draining, bounds>>

(* CallTerminator.settle; then the accept that failed on the microphone    *)
(* (seen = 1) runs its own error path, and a ringing agent's miss (2) is   *)
(* counted.                                                                *)
Settle(t) ==
    /\ t.at = "settle"
    /\ busy' = IF t.agent = None THEN busy ELSE Released(t.agent, t.call)
    /\ due' = IF t.agent = None THEN due ELSE due \cup {Tenant}
    /\ leg' = [leg EXCEPT ![t.call] = "used"]
    /\ CASE t.seen = 1 -> Goto(t, "fail")
         [] t.seen = 2 /\ t.agent # None -> Goto(t, "miss")
         [] OTHER -> Finish(t)
    /\ UNCHANGED <<status, agent, offered, rung, queue, hops, shift, history, drains, bounds>>

(* Fault: the sweep looks for TERMINATED calls only.                       *)
SweepTerminated(a) ==
    /\ busy[a] # None
    /\ status[busy[a]] = "TERMINATED"
    /\ busy' = [busy EXCEPT ![a] = None]
    /\ due' = due \cup {Tenant}
    /\ UNCHANGED <<callVars, shift, history, work, drains, bounds>>

(* releaseAgentsOfEndedCalls, from every worker's cleanup loop.            *)
Sweep(a) ==
    /\ busy[a] # None
    /\ ~Live(busy[a])
    /\ busy' = [busy EXCEPT ![a] = None]
    /\ due' = due \cup {Tenant}
    /\ UNCHANGED <<callVars, shift, history, work, drains, bounds>>

-----------------------------------------------------------------------------
(* setAvailability by the agent or a supervisor; becoming (or confirming)  *)
(* AVAILABLE drains the tenant's queues, as does a client's resync.        *)
SetAvailability(a) ==
    /\ requests < MaxRequests /\ requests' = requests + 1
    /\ \E available \in BOOLEAN :
          /\ shift' = [shift EXCEPT ![a] = available]
          /\ due' = IF available /\ busy[a] = None THEN due \cup {Tenant} ELSE due
    /\ UNCHANGED <<callVars, busy, history, work, drains, crashes>>

-----------------------------------------------------------------------------
(* Draining queues (AgentAssignmentCoordinator.drainForTenant, drainQueue).*)

NewDrain(queues, q, try) ==
    [at |-> "members", queues |-> queues, queue |-> q, members |-> {},
     todo |-> {}, call |-> None, pool |-> {}, try |-> try, lost |-> FALSE]

(* The drain d turns to one of the queues it has left, if any.             *)
NextQueue(others, queues) ==
    IF queues = {} THEN drains' = others
    ELSE \E q \in queues : drains' = others \cup {NewDrain(queues \ {q}, q, 1)}

QueueDone(d) == NextQueue(drains \ {d}, d.queues)
Becomes(d, e) == drains' = (drains \ {d}) \cup {e}

StartDrain(x) ==
    /\ x \in due /\ Cardinality(drains) < MaxDrains
    /\ due' = due \ {x}
    /\ NextQueue(drains, IF x = Tenant THEN {q \in Queues \ RingAll : WaitingIn(q) # {}} ELSE {x})
    /\ UNCHANGED <<callVars, agentVars, history, work, bounds>>

(* The members as they are now; the rest of the attempt works with this.   *)
DrainMembers(d) ==
    /\ d.at = "members"
    /\ LET members == {a \in Members[d.queue] : Available(a)}
       IN IF members = {} THEN QueueDone(d)
          ELSE Becomes(d, [d EXCEPT !.at = "read", !.members = members])
    /\ UNCHANGED <<callVars, agentVars, history, work, due, bounds>>

DrainRead(d) ==
    /\ d.at = "read"
    /\ IF WaitingIn(d.queue) = {} THEN QueueDone(d)
       ELSE Becomes(d, [d EXCEPT !.at = "next", !.todo = WaitingIn(d.queue)])
    /\ UNCHANGED <<callVars, agentVars, history, work, due, bounds>>

(* The oldest call of the list, and the members it may be offered to.      *)
DrainNext(d) ==
    /\ d.at = "next" /\ d.todo # {}
    /\ \E c \in d.todo :
          /\ \A o \in d.todo : c <= o
          /\ missed' = IF NewRound(c, d.members) THEN [missed EXCEPT ![c] = {}] ELSE missed
          /\ Becomes(d, [d EXCEPT !.at = "claim", !.todo = @ \ {c}, !.call = c,
                                  !.pool = Eligible(c, d.members)])
    /\ UNCHANGED <<callVars, agentVars, declined, work, due, bounds>>

(* The list is used up: once more if another worker took a call from it.   *)
DrainListDone(d) ==
    /\ d.at = "next" /\ d.todo = {}
    /\ IF d.lost /\ d.try < DrainAttempts
       THEN Becomes(d, NewDrain(d.queues, d.queue, d.try + 1)) ELSE QueueDone(d)
    /\ UNCHANGED <<callVars, agentVars, history, work, due, bounds>>

(* claimAgentAndAssignCall for one candidate: the call is offered, ...     *)
DrainAssign(d) ==
    /\ d.at = "claim"
    /\ Unassigned(d.call)
    /\ \E a \in d.pool : Claimable(a) /\ MakeOffer(d.call, a)
    /\ LegOffered(d.call)
    /\ QueueDone(d)
    /\ UNCHANGED <<status, queue, hops, shift, history, work, due, bounds>>

(* ... or the agent is not free, or the call was taken meanwhile.          *)
DrainSkip(d) ==
    /\ d.at = "claim"
    /\ \E a \in d.pool :
          /\ ~(Claimable(a) /\ Unassigned(d.call))
          /\ Becomes(d, [d EXCEPT !.pool = @ \ {a}, !.lost = @ \/ Claimable(a)])
    /\ UNCHANGED <<callVars, agentVars, history, work, due, bounds>>

DrainNobody(d) ==
    /\ d.at = "claim" /\ d.pool = {}
    /\ Becomes(d, [d EXCEPT !.at = "next", !.call = None])
    /\ UNCHANGED <<callVars, agentVars, history, work, due, bounds>>

-----------------------------------------------------------------------------
(* A worker dies: a handler or a drain of its ends where it was.           *)
Crash ==
    /\ crashes < MaxCrashes /\ crashes' = crashes + 1
    /\ \/ \E t \in work : Finish(t) /\ UNCHANGED draining
       \/ \E d \in drains : drains' = drains \ {d} /\ UNCHANGED <<work, due>>
       \/ \E x \in due : due' = due \ {x} /\ UNCHANGED <<work, drains>>
    /\ UNCHANGED <<callVars, agentVars, history, requests>>

NewStep(t) == NewRingAll(t) \/ NewInOrder(t) \/ NewAssigned(t) \/ NewWaits(t)
JoinStep(t) == \/ Join(t) \/ JoinIgnored(t) \/ JoinOverCapacity(t)
               \/ ClaimForJoin(t) \/ Hold(t) \/ Media(t) \/ NoLeg(t)
               \/ AnswerCustomer(t) \/ NothingToAnswer(t)
               \/ ConfirmClaim(t) \/ ClaimLost(t)
               \/ GoLive(t) \/ LiveTooLate(t) \/ Failed(t)
PassStep(t) == \/ DeclineOffer(t) \/ DeclineCall(t) \/ DeclineIgnored(t) \/ RejectCall(t)
               \/ Withdraw(t) \/ Record(t) \/ Release(t) \/ Miss(t)
WaitStep(t) == MoveToOverflow(t) \/ NotMoved(t) \/ Moved(t) \/ EnterQueue(t)
EndStep(t) == CommitEnd(t) \/ EndLost(t) \/ Settle(t)
WorkStep(t) == NewStep(t) \/ JoinStep(t) \/ PassStep(t) \/ WaitStep(t) \/ EndStep(t)

DrainStep(d) == \/ DrainMembers(d) \/ DrainRead(d) \/ DrainNext(d) \/ DrainListDone(d)
                \/ DrainAssign(d) \/ DrainSkip(d) \/ DrainNobody(d)

Scan(c) == RingOut(c) \/ ExpireScan(c) \/ WaitScan(c) \/ NoAnswerScan(c)

Message(c) == \/ Arrive(c) \/ HangUp(c) \/ MediaLost(c) \/ ProviderEnd(c)
              \/ RingingAgentReconnect(c)
              \/ \E a \in Agents : PostJoin(c, a) \/ PostDecline(c, a)

Next == \/ \E c \in Calls : Message(c) \/ Scan(c)
        \/ \E t \in work : WorkStep(t)
        \/ \E x \in due : StartDrain(x)
        \/ \E d \in drains : DrainStep(d)
        \/ \E a \in Agents : SetAvailability(a) \/ Sweep(a)
        \/ Crash

Spec == Init /\ [][Next]_vars

(* Every worker keeps running its handlers, drains and timers.  An offer   *)
(* rings for seconds and a scan takes milliseconds from reading the call   *)
(* to moving it, so the scan cannot lose to the next offer for ever (SF).  *)
(* Nothing obliges an agent, the customer or the provider to do anything.  *)
Handlers == {{"new", "claimNew"},
             {"join", "claim", "hold", "media", "answer", "confirm", "live", "fail"},
             {"decline", "reject"}, {"withdraw", "record", "release", "miss"},
             {"wait", "moved", "enter"},
             {"end", "endRinging", "endFailed", "endNetwork", "endCustomer", "endProvider", "settle"}}

Fairness ==
    /\ \A c \in Calls :
          /\ \A stages \in Handlers :
                WF_vars(\E t \in work : t.call = c /\ t.at \in stages /\ WorkStep(t))
          /\ WF_vars(RingOut(c)) /\ WF_vars(ExpireScan(c))
          /\ WF_vars(WaitScan(c)) /\ WF_vars(NoAnswerScan(c))
          /\ SF_vars(\E t \in work : t.call = c /\ MoveToOverflow(t))
    /\ \A a \in Agents : WF_vars(Sweep(a))
    /\ WF_vars(\E x \in due : StartDrain(x))
    /\ WF_vars(\E d \in drains : DrainStep(d))

FairSpec == Spec /\ Fairness

-----------------------------------------------------------------------------
(* Safety.                                                                 *)

Ringing(c) == Live(c) /\ offered[c] # 0

(* While a call rings an agent, busy_call_id of that agent is this call:   *)
(* the lock that keeps two routes from claiming one agent is never let go  *)
(* under a ringing offer, whatever late release of a passed, overflowed or *)
(* ended call is still on its way (AgentRepository.js:4-9).                *)
OfferHoldsAgent == \A c \in Calls :
    Ringing(c) => agent[c] # None /\ busy[agent[c]] = c

(* No agent is rung for two calls at once, by any mix of new-call claims,  *)
(* drains, passed offers and overflows.                                    *)
OneOfferPerAgent == \A c, d \in Calls :
    Ringing(c) /\ Ringing(d) /\ agent[c] = agent[d] => c = d

(* A handler that took an offer from an agent and has yet to release them. *)
Passing(t) == t.at \in {"record", "release", "moved"} /\ t.agent # None

(* From the accept claim on, a ringing call stays with the agent who is    *)
(* answering it: no ring timeout, decline, overflow or second accept takes *)
(* it away (CallRepository.assignCallToAgentIfEligible's comment).         *)
AnsweringCallIsKept == [][\A c \in Calls :
    status[c] = "RINGING" /\ agent[c] # None /\ offered[c] = 0
        => agent'[c] = agent[c]]_vars

(* An ended call stays ended: no accept in flight revives it, and no other *)
(* end hides a failure (finalizeCallAsFailed's comment).                   *)
FinalIsFinal == [][\A c \in Calls :
    /\ Final(c) => Final(c)'
    /\ status[c] = "FAILED" => status'[c] = "FAILED"]_vars

(* A handler settles a call only if its own update gave the call its final *)
(* status, however many race to end it (CallTerminator.end's committed,    *)
(* _handleCallEnded's finalizedByThisEvent).                               *)
SettledByItsEnder == [][\A t \in work' \ work :
    t.at = "settle" => Final(t.call)' /\ status'[t.call] # status[t.call]]_vars

(* Only an offer that rang its whole timeout counts as missed, though the  *)
(* call may have been passed on and offered anew to the same agent since   *)
(* the scan read it (withdrawOffer's expiredBefore).                       *)
OnlyRungOffersTimeOut == [][\A t \in work' \ work :
    t.at = "record" /\ t.seen # 0 => rung[t.call]]_vars

(* The rest of the inductive invariant: what the handlers in flight know.  *)

(* Until it releases them, a handler that passes an offer on knows that    *)
(* the call holds the agent and does not ring them again.                  *)
PassingHoldsAgent == \A t \in work :
    Passing(t) /\ Live(t.call) =>
        /\ busy[t.agent] = t.call
        /\ agent[t.call] = t.agent => offered[t.call] = 0

(* ... and it is the only one to pass this call's offer to that agent on.  *)
OnePassPerOffer == \A t, u \in work :
    Passing(t) /\ Passing(u) /\ t.call = u.call /\ t.agent = u.agent /\ Live(t.call)
        => t = u

(* From its claim on, an accept in flight has the call.                    *)
Answering(t) == t.at \in {"hold", "media", "answer", "confirm", "live"}
AnsweringOwnsCall == \A t \in work :
    Answering(t) /\ Live(t.call) => agent[t.call] = t.agent /\ offered[t.call] = 0

(* Only ended calls are settled; an answered call has an agent; a call     *)
(* that has not arrived has nothing, and nobody handles it.                *)
RowsConsistent ==
    /\ \A t \in work : status[t.call] # "NEW" /\ (t.at = "settle" => Final(t.call))
    /\ \A c \in Calls : status[c] = "IN_PROGRESS" => agent[c] # None /\ offered[c] = 0
    /\ \A c \in Calls : status[c] = "NEW" => agent[c] = None /\ offered[c] = 0

(* What the fields of a handler hold at each of its stages.                *)
TaskConsistent(t) ==
    /\ t.at \in {"new", "claimNew", "withdraw", "record", "release", "wait", "moved", "enter"}
          => t.queue \in Queues
    /\ t.at \in {"join", "claim", "hold", "media", "answer", "confirm", "live",
                  "decline", "reject", "withdraw", "record", "release"}
          => t.agent \in Agents
    /\ t.at = "wait" => Overflow[t.queue] \in Queues /\ hops[t.call] < MaxOverflows

(* Every handler is consistent; only one timer handler is about to overflow*)
(* a call; a drain claims for a call; a call that arrived is in a queue.   *)
HandlersConsistent ==
    /\ \A t \in work : TaskConsistent(t)
    /\ \A t, u \in work : t.at = "wait" /\ u.at = "wait" /\ t.call = u.call => t = u
    /\ \A d \in drains : d.at = "claim" => d.call \in Calls
    /\ \A c \in Calls : status[c] # "NEW" => queue[c] \in Queues

(* OfferHoldsAgent is not inductive by itself: a late release could let go *)
(* of an agent under a new offer of the same call.  It is with what every  *)
(* handler between a withdrawal and its release, or in an accept, relies on*)
(* (AgentAssignmentCoordinator.passOffer, handleAgentJoined).              *)
IInv == /\ TypeOK
        /\ HandlersConsistent
        /\ OfferHoldsAgent
        /\ PassingHoldsAgent
        /\ OnePassPerOffer
        /\ AnsweringOwnsCall
        /\ RowsConsistent

(* A scan passes one offer of a call at a time, and what it read of it is  *)
(* still true while the offer stands: no new offer has the old one's stamp.*)
Scanned(t) == t.at = "withdraw" /\ t.seen # 0
OneScanPerCall == \A t, u \in work :
    Scanned(t) /\ Scanned(u) /\ t.call = u.call => t = u
ScannedOffersRang == \A t \in work :
    Scanned(t) /\ status[t.call] = "RINGING" /\ offered[t.call] = t.seen => rung[t.call]

-----------------------------------------------------------------------------
(* Routing keeps the promise of CallOffers.                                *)

phase == [c \in Calls |->
            CASE status[c] = "NEW" -> "new"
              [] status[c] = "RINGING" /\ offered[c] # 0 -> "offered"
              [] status[c] = "RINGING" /\ offered[c] = 0 /\ agent[c] = None -> "waiting"
              [] status[c] = "RINGING" /\ offered[c] = 0 /\ agent[c] # None -> "answering"
              [] status[c] = "IN_PROGRESS" -> "connected"
              [] status[c] \in {"TERMINATED", "FAILED"} -> "ended"]

Offers == INSTANCE CallOffers WITH who <- agent

(* The steps of handlers, drains, scans and crashes are steps of CallOffers*)
(* or leave its state alone.                                               *)
OffersSpec == Offers!Spec

-----------------------------------------------------------------------------
(* Liveness.                                                               *)

(* An agent held by an ended call is released, even if the worker that     *)
(* ended it died first (releaseAgentsOfEndedCalls).                        *)
EndedCallsLetGo == \A a \in Agents, c \in Calls :
    busy[a] = c /\ Final(c) ~> busy[a] # c

(* A call does not wait, or ring one agent after the other, for ever:      *)
(* overflow chains may loop, but MAX_OVERFLOWS bounds them.                *)
WaitingComesToAnEnd == \A c \in Calls :
    status[c] = "RINGING" /\ (agent[c] = None \/ offered[c] # 0)
        ~> ~(status[c] = "RINGING" /\ (agent[c] = None \/ offered[c] # 0))
=============================================================================
