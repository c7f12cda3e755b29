------------------------------- MODULE CallRooms -------------------------------
(***************************************************************************)
(* The media of one call: its room on the media server, the operations on  *)
(* it, which run one after another (RoomMedia), and the handlers of agents *)
(* and supervisors that queue them (AgentEventHandler, TransferEventHandler,*)
(* ConnectionEventHandler, MonitorEventHandler).                           *)
(*                                                                         *)
(* The handlers of a call run side by side: what one has read of the room  *)
(* or the row may be old by the time its operation runs.                   *)
(***************************************************************************)
EXTENDS Naturals, FiniteSets, Sequences

CONSTANTS
    Agents, Supervisors, None,
    First,         \* the agent whom the call rings
    Slots,         \* bound: handlers in flight
    MaxEvents,     \* bound: what agents and supervisors ask for
    MaxFailures    \* bound: operations that fail on the media server

ASSUME PartiesAssumption ==
    /\ First \in Agents /\ Agents \cap Supervisors = {}
    /\ None \notin Agents \cup Supervisors
ASSUME BoundsAssumption == MaxEvents \in Nat /\ MaxFailures \in Nat /\ Slots \subseteq Nat \ {0}

VARIABLES
    status, agent,     \* of the call's row
    answered,          \* the row's answered_at, or the IVR's answer
    handover,          \* the row's offered_at while in progress
    room,              \* this worker's Room, and whether it is in the map
    inside,            \* who is in the conference
    muted, nospeak,    \* who is muted in it, or not heard by the customer
    sounds,            \* what plays to the customer in it
    chain,             \* operations queued on the room; the first is running
    begun,             \* it has taken what it replaces, and waits for the media server
    late,              \* operations queued on a room that has been closed since
    stray,             \* legs of a room that is no longer in the map
    work,              \* handlers in flight
    monitoring,        \* supervisors whose socket is bound to the call
    events, failures,
    unheard            \* a failed command left the customer without what it should have
                       \* played, or whom it should have joined; a bridge puts that right

row == <<status, agent, answered, handover>>
server == <<inside, muted, nospeak, sounds>>
queues == <<chain, begun, late, stray>>
clients == <<monitoring, events>>
history == <<failures, unheard>>
vars == <<row, room, server, queues, work, clients, history>>

Modes == {"listen", "whisper", "barge"}
Statuses == {"RINGING", "IN_PROGRESS", "OVER"}
Over == status = "OVER"

(* Operations that find nothing to do without a room; the others make one. *)
OnARoom == {"dropAgent", "mode", "private", "removeSupervisor", "close"}
Making == {"answerCustomer", "offerAgent", "answerAgent", "addSupervisor", "offerSupervisor"}
Answering == {"agentAccepted", "supervisorAnswered"}
Ops == OnARoom \cup Making \cup Answering \cup {"bridge", "startHold"}
Handlers == {"join", "reconnect", "offered", "rejoin", "disconnect", "transfer", "end",
             "add", "offer", "answer", "mode", "private", "stop"}
Args == Agents \cup Supervisors \cup Modes \cup {"on", "off", None}

Fresh == [known |-> FALSE, customer |-> FALSE, pending |-> FALSE, agents |-> {},
          supervisors |-> {}, awaited |-> {}, mode |-> "listen", private |-> FALSE,
          tone |-> FALSE, hold |-> FALSE]
Free == [kind |-> "none", who |-> None, op |-> "none", at |-> "none"]

HasLegs(r) == r.customer \/ r.pending \/ r.agents \cup r.supervisors \cup r.awaited # {}

TypeOK ==
    /\ status \in Statuses /\ agent \in Agents /\ answered \in BOOLEAN /\ handover \in BOOLEAN
    /\ room \in [known : BOOLEAN, customer : BOOLEAN, pending : BOOLEAN,
                 agents : SUBSET Agents, supervisors : SUBSET Supervisors,
                 awaited : SUBSET Supervisors, mode : Modes, private : BOOLEAN,
                 tone : BOOLEAN, hold : BOOLEAN]
    /\ HasLegs(room) => room.known
    /\ inside \subseteq room.agents \cup room.supervisors
                        \cup (IF room.customer THEN {"customer"} ELSE {})
    /\ muted \subseteq Supervisors /\ nospeak \subseteq Agents \cup Supervisors
    /\ sounds \subseteq {"tone", "hold"}
    /\ \A q \in {chain, late} : \A k \in 1 .. Len(q) :
           q[k].op \in Ops /\ q[k].who \in Args /\ q[k].by \in Slots \cup {0}
    /\ begun \in BOOLEAN /\ stray \in BOOLEAN /\ unheard \in BOOLEAN
    /\ \A i \in Slots : /\ work[i].kind \in Handlers \cup {"none"} /\ work[i].who \in Args
                        /\ work[i].op \in Ops \cup {"none"}
                        /\ work[i].at \in {"none", "go", "queued", "ok", "failed", "live"}
    /\ monitoring \subseteq Supervisors
    /\ events \in 0 .. MaxEvents /\ failures \in 0 .. MaxFailures

(* The call rings its first agent; an IVR has answered it, or nobody yet.  *)
Ringing ==
    /\ status = "RINGING" /\ answered \in BOOLEAN
    /\ room = [Fresh EXCEPT !.known = TRUE, !.pending = TRUE, !.customer = answered]
    /\ inside = {} /\ nospeak = {} /\ muted = {} /\ monitoring = {}
    /\ chain = IF answered THEN <<[op |-> "startHold", who |-> None, by |-> 0]>> ELSE <<>>

(* Or a supervisor listens, whispers or barges, and the agent may answer   *)
(* a whisper in private.                                                   *)
Monitored ==
    /\ status = "IN_PROGRESS" /\ answered = TRUE /\ chain = <<>>
    /\ \E s \in Supervisors, mode \in Modes, private \in BOOLEAN :
        /\ private => mode = "whisper"
        /\ room = [Fresh EXCEPT !.known = TRUE, !.customer = TRUE, !.agents = {First},
                                !.supervisors = {s}, !.mode = mode, !.private = private]
        /\ inside = {"customer", First, s} /\ monitoring = {s}
        /\ muted = IF mode = "listen" THEN {s} ELSE {}
        /\ nospeak = (IF mode = "whisper" THEN {s} ELSE {}) \cup (IF private THEN {First} ELSE {})

Init ==
    /\ Ringing \/ Monitored
    /\ agent = First /\ handover = FALSE
    /\ sounds = {} /\ begun = FALSE /\ late = <<>> /\ stray = FALSE
    /\ work = [i \in Slots |-> Free]
    /\ events = 0 /\ failures = 0 /\ unheard = FALSE

-----------------------------------------------------------------------------
(* The queue of operations.                                                *)

Queue(i, op, who) ==
    IF op \in OnARoom /\ ~room.known
    THEN /\ work' = [work EXCEPT ![i].op = op, ![i].at = "ok"]
         /\ UNCHANGED <<room, chain>>
    ELSE /\ work' = [work EXCEPT ![i].op = op, ![i].at = "queued"]
         /\ chain' = Append(chain, [op |-> op, who |-> who, by |-> i])
         /\ room' = [room EXCEPT !.known = TRUE]

Done(i) == work' = [work EXCEPT ![i] = Free] /\ UNCHANGED <<room, chain>>

Runs(op) == chain # <<>> /\ Head(chain).op = op
Arg == Head(chain).who

Result(entry, ok) ==
    IF entry.by = 0 THEN work
    ELSE [work EXCEPT ![entry.by].at = IF ok THEN "ok" ELSE "failed"]

Ends(ok) == chain' = Tail(chain) /\ begun' = FALSE /\ work' = Result(Head(chain), ok)

(* The media server or the other side's SDP fails the operation; a leg      *)
(* that failed half made may be left behind there.                         *)
Fault == failures < MaxFailures /\ failures' = failures + 1
HalfMade == stray' \in {stray, TRUE}

-----------------------------------------------------------------------------
(* Who hears whom, applied to those who are in the conference.             *)

Rules(r, in) ==
    /\ muted' = IF r.mode = "listen" THEN in \cap r.supervisors ELSE {}
    /\ nospeak' = IF "customer" \notin in THEN nospeak \cap in
                  ELSE (IF r.mode = "whisper" THEN in \cap r.supervisors ELSE {})
                       \cup (IF r.private THEN in \cap r.agents ELSE {})

(* An operation that ends with the rules, which may fail to be applied.    *)
EndsWithRules(r, in) ==
    \/ Ends(TRUE) /\ Rules(r, in) /\ UNCHANGED failures
    \/ Fault /\ Ends(FALSE) /\ muted' = muted \cap in /\ nospeak' = nospeak \cap in

Leave(who) == inside' = inside \ who /\ muted' = muted \ who /\ nospeak' = nospeak \ who

-----------------------------------------------------------------------------
(* Operations on the customer's and the agents' legs.                      *)

AnswerCustomer ==
    /\ Runs("answerCustomer")
    /\ \/ /\ Ends(TRUE) /\ room' = [room EXCEPT !.customer = TRUE]
          /\ UNCHANGED <<stray, failures>>
       \/ Fault /\ Ends(FALSE) /\ HalfMade /\ UNCHANGED room
    /\ Leave({"customer"})
    /\ UNCHANGED <<row, sounds, late, clients, unheard>>

(* A sound is noted as playing before it is asked for: a refusal is only   *)
(* logged, a lost connection fails the operation, and nobody asks again.   *)
Plays(sound, playing) ==
    IF playing THEN Ends(TRUE) /\ UNCHANGED <<sounds, history>>
    ELSE \/ Ends(TRUE) /\ sounds' = sounds \cup {sound} /\ UNCHANGED history
         \/ /\ Fault /\ unheard' = TRUE /\ UNCHANGED sounds
            /\ \E ok \in BOOLEAN : Ends(ok)

(* The customer's join may fail too; the music is then not asked for.      *)
StartHold ==
    /\ Runs("startHold")
    /\ IF room.customer /\ room.agents = {}
       THEN \/ /\ inside' = inside \cup {"customer"} /\ Plays("hold", room.hold)
               /\ room' = [room EXCEPT !.hold = TRUE]
            \/ /\ "customer" \notin inside /\ Fault /\ Ends(FALSE)
               /\ UNCHANGED <<inside, sounds, room, unheard>>
       ELSE Ends(TRUE) /\ UNCHANGED <<inside, sounds, room, history>>
    /\ UNCHANGED <<row, muted, nospeak, late, stray, clients>>

BeginOffer ==
    /\ Runs("offerAgent") /\ ~begun /\ begun' = TRUE
    /\ room' = [room EXCEPT !.pending = FALSE]
    /\ UNCHANGED <<row, server, chain, late, stray, work, clients, history>>

OfferAgent ==
    /\ Runs("offerAgent") /\ begun
    /\ \/ /\ Ends(TRUE) /\ room' = [room EXCEPT !.pending = TRUE]
          /\ UNCHANGED <<stray, failures>>
       \/ Fault /\ Ends(FALSE) /\ HalfMade /\ UNCHANGED room
    /\ UNCHANGED <<row, server, late, clients, unheard>>

BeginAccepted ==
    /\ Runs("agentAccepted") /\ ~begun
    /\ IF room.pending THEN begun' = TRUE /\ room' = [room EXCEPT !.pending = FALSE]
                            /\ UNCHANGED <<chain, work>>
       ELSE Ends(FALSE) /\ UNCHANGED room
    /\ UNCHANGED <<row, server, late, stray, clients, history>>

(* The answer is applied and the agent's audio arrives, or the leg goes.   *)
AgentAccepted ==
    /\ Runs("agentAccepted") /\ begun
    /\ \/ /\ Ends(TRUE) /\ room' = [room EXCEPT !.agents = @ \cup {Arg}]
          /\ Leave({Arg}) /\ UNCHANGED failures
       \/ Fault /\ Ends(FALSE) /\ UNCHANGED <<room, inside, muted, nospeak>>
    /\ UNCHANGED <<row, sounds, late, stray, clients, unheard>>

BeginAnswer ==
    /\ Runs("answerAgent") /\ ~begun /\ begun' = TRUE
    /\ room' = [room EXCEPT !.agents = @ \ {Arg}] /\ Leave({Arg})
    /\ UNCHANGED <<row, sounds, chain, late, stray, work, clients, history>>

AnswerAgent ==
    /\ Runs("answerAgent") /\ begun
    /\ \/ /\ Ends(TRUE) /\ room' = [room EXCEPT !.agents = @ \cup {Arg}]
          /\ UNCHANGED <<stray, history>>
       \/ Fault /\ Ends(FALSE) /\ HalfMade /\ unheard' = TRUE /\ UNCHANGED room
    /\ UNCHANGED <<row, server, late, clients>>

(* Fault: the last agent's leg goes without a sound.                       *)
DropAgentSilently ==
    /\ Runs("dropAgent") /\ Ends(TRUE)
    /\ room' = [room EXCEPT !.agents = @ \ {Arg},
                            !.private = @ /\ room.agents \ {Arg} # {}]
    /\ Leave({Arg})
    /\ UNCHANGED <<row, sounds, late, stray, clients, history>>

DropAgent ==
    /\ Runs("dropAgent")
    /\ LET left == room.agents \ {Arg}
           tone == left = {} /\ "customer" \in inside
       IN  /\ room' = [room EXCEPT !.agents = left, !.private = @ /\ left # {},
                                   !.tone = @ \/ tone]
           /\ Plays("tone", room.tone \/ ~tone)
    /\ Leave({Arg})
    /\ UNCHANGED <<row, late, stray, clients>>

Bridges == room.customer /\ room.agents # {}
Together == inside \cup {"customer"} \cup room.agents

Bridged == [room EXCEPT !.tone = FALSE, !.hold = FALSE]

(* Both sounds stop with one command, which the media server may refuse.   *)
Bridge ==
    /\ Runs("bridge") /\ Ends(TRUE)
    /\ \/ ~Bridges /\ UNCHANGED <<server, room, history>>
       \/ /\ Bridges /\ inside' = Together /\ Rules(room, Together) /\ room' = Bridged
          /\ unheard' = FALSE
          /\ \/ sounds' = (IF room.hold \/ room.tone THEN {} ELSE sounds) /\ UNCHANGED failures
             \/ TRUE \in {room.hold, room.tone} /\ Fault /\ UNCHANGED sounds
    /\ UNCHANGED <<row, late, stray, clients>>

(* It joins the customer, stops the hold music, joins the agents, stops    *)
(* the tone and applies the rules, and gives up at the first that fails.   *)
BridgeFails ==
    /\ Runs("bridge") /\ Bridges /\ Fault /\ Ends(FALSE)
    /\ LET unheld == IF room.hold THEN {} ELSE sounds
           missing == room.agents \ inside
       IN  \/ /\ "customer" \notin inside
              /\ UNCHANGED <<inside, room, sounds, unheard>>
           \/ /\ room.hold /\ inside' = inside \cup {"customer"}
              /\ room' = [room EXCEPT !.hold = FALSE] /\ UNCHANGED <<sounds, unheard>>
           \/ \E in \in SUBSET missing :
              /\ in # missing /\ inside' = inside \cup {"customer"} \cup in
              /\ room' = [room EXCEPT !.hold = FALSE]
              /\ sounds' = unheld /\ unheard' = TRUE
           \/ /\ inside' = Together /\ room' = Bridged
              /\ \/ room.tone /\ sounds' = unheld
                 \/ sounds' = IF room.tone THEN {} ELSE unheld
              /\ UNCHANGED unheard
    /\ UNCHANGED <<row, muted, nospeak, late, stray, clients>>

-----------------------------------------------------------------------------
(* Supervisors.  One who joins an unmonitored call puts it back to listen. *)

Without(s, r) == [r EXCEPT !.supervisors = @ \ {s}]
Alone(r) == [r EXCEPT !.mode = IF r.supervisors = {} THEN "listen" ELSE @]

Joins(s, r) ==
    LET joined == [Alone(Without(s, r)) EXCEPT !.supervisors = @ \cup {s}]
    IN  /\ room' = joined /\ inside' = inside \cup {s}
        /\ EndsWithRules(joined, inside \cup {s})

(* The old leg is gone, and the new one fails before or as it joins.       *)
JoinFailsHere(s, r) ==
    /\ Fault /\ Ends(FALSE) /\ Leave({s})
    /\ \/ room' = Without(s, r) /\ HalfMade
       \/ room' = Alone(Without(s, r)) /\ stray' = TRUE

AddSupervisor ==
    /\ Runs("addSupervisor")
    /\ \/ Joins(Arg, room) /\ UNCHANGED stray
       \/ JoinFailsHere(Arg, room)
    /\ UNCHANGED <<row, sounds, late, clients, unheard>>

OfferSupervisor ==
    /\ Runs("offerSupervisor")
    /\ \/ /\ Ends(TRUE) /\ room' = [room EXCEPT !.awaited = @ \cup {Arg}]
          /\ UNCHANGED <<stray, failures>>
       \/ Fault /\ Ends(FALSE) /\ HalfMade /\ UNCHANGED room
    /\ UNCHANGED <<row, server, late, clients, unheard>>

(* A leg whose answer fails is out of the map and still there.             *)
SupervisorAnswered ==
    /\ Runs("supervisorAnswered")
    /\ LET taken == [room EXCEPT !.awaited = @ \ {Arg}]
       IN  \/ /\ Arg \notin room.awaited /\ Ends(FALSE)
              /\ UNCHANGED <<room, inside, muted, nospeak, stray, failures>>
           \/ Arg \in room.awaited /\ Joins(Arg, taken) /\ UNCHANGED stray
           \/ /\ Arg \in room.awaited /\ Fault /\ Ends(FALSE)
              /\ room' = taken /\ stray' = TRUE /\ UNCHANGED <<inside, muted, nospeak>>
           \/ Arg \in room.awaited /\ stray' = TRUE /\ JoinFailsHere(Arg, taken)
    /\ UNCHANGED <<row, sounds, late, clients, unheard>>

SetSupervisorMode ==
    /\ Runs("mode")
    /\ room' = [room EXCEPT !.mode = Arg, !.private = @ /\ Arg = "whisper"]
    /\ EndsWithRules(room', inside)
    /\ UNCHANGED <<row, inside, sounds, late, stray, clients, unheard>>

SetAgentPrivate ==
    /\ Runs("private")
    /\ room' = [room EXCEPT !.private = Arg = "on" /\ room.mode = "whisper" /\ room.supervisors # {}]
    /\ EndsWithRules(room', inside)
    /\ UNCHANGED <<row, inside, sounds, late, stray, clients, unheard>>

(* Fault: the private reply outlasts the supervisor.                       *)
RemoveQuietly ==
    /\ Runs("removeSupervisor") /\ Ends(TRUE)
    /\ room' = [room EXCEPT !.supervisors = @ \ {Arg}]
    /\ inside' = inside \ {Arg} /\ Rules(room', inside')
    /\ UNCHANGED <<row, sounds, late, stray, clients, history>>

RemoveSupervisor ==
    /\ Runs("removeSupervisor")
    /\ LET left == Without(Arg, room)
       IN  room' = [Alone(left) EXCEPT !.private = @ /\ left.supervisors # {}]
    /\ inside' = inside \ {Arg} /\ EndsWithRules(room', inside')
    /\ UNCHANGED <<row, sounds, late, stray, clients, unheard>>

-----------------------------------------------------------------------------
(* The end of the room.  What is queued behind it runs on a room that is   *)
(* in no map: the legs it makes are nobody's, and a second close takes     *)
(* whatever room is in the map by then out of it.                          *)

Close ==
    /\ Runs("close")
    /\ room' = Fresh /\ inside' = {} /\ muted' = {} /\ nospeak' = {} /\ sounds' = {}
    /\ late' = late \o Tail(chain) /\ chain' = <<>> /\ begun' = FALSE
    /\ work' = Result(Head(chain), TRUE)
    /\ UNCHANGED <<row, stray, clients, history>>

LateOp ==
    /\ late # <<>>
    /\ LET h == Head(late)
       IN  \/ /\ h.op = "close" /\ room.known
              /\ room' = Fresh /\ stray' = (stray \/ HasLegs(room))
              /\ inside' = {} /\ muted' = {} /\ nospeak' = {} /\ sounds' = {}
              /\ late' = Tail(late) \o chain /\ chain' = <<>> /\ begun' = FALSE
              /\ work' = Result(h, TRUE)
           \/ /\ h.op # "close" \/ ~room.known
              /\ late' = Tail(late)
              /\ \E ok \in (IF h.op \in Answering \cup Making THEN BOOLEAN ELSE {TRUE}) :
                     /\ work' = Result(h, ok)
                     /\ stray' = (stray \/ (ok /\ h.op \in Making))
              /\ UNCHANGED <<room, server, chain, begun>>
    /\ UNCHANGED <<row, clients, history>>

(* Fault: the sweep's test of the call's end is the wrong way round.       *)
SweepLiveOnly ==
    /\ stray /\ ~Over /\ ~room.known
    /\ stray' = FALSE
    /\ UNCHANGED <<row, room, server, chain, begun, late, work, clients, history>>

(* The sweep spares the legs of a call that is live or has a room here.    *)
SweepOrphans ==
    /\ stray /\ Over /\ ~room.known
    /\ stray' = FALSE
    /\ UNCHANGED <<row, room, server, chain, begun, late, work, clients, history>>

Reconcile ==
    /\ Over /\ room.known /\ \A k \in 1 .. Len(chain) : chain[k].op # "close"
    /\ chain' = Append(chain, [op |-> "close", who |-> None, by |-> 0])
    /\ UNCHANGED <<row, room, server, begun, late, stray, work, clients, history>>

-----------------------------------------------------------------------------
(* The handlers.  Go: past its first reads.                                *)

Take(kind, who) ==
    \E i \in Slots : /\ work[i] = Free /\ \A j \in Slots : j < i => work[j] # Free
                     /\ work' = [work EXCEPT ![i] = [kind |-> kind, who |-> who,
                                                     op |-> "none", at |-> "go"]]

Asks == events < MaxEvents /\ events' = events + 1

(* The agent's accept; what became of its claim is in the row.             *)
Join ==
    /\ ~Over /\ room.pending /\ Take("join", agent)
    /\ \A i \in Slots : work[i].kind # "join" \/ work[i].who # agent
    /\ status = "RINGING" \/ handover
    /\ UNCHANGED <<row, room, server, queues, clients, history>>

(* A reconnect with an offer; one without is offered a leg, and rejoins.   *)
Reconnect(kind) ==
    /\ status = "IN_PROGRESS" /\ Asks
    /\ kind = "rejoin" => room.pending
    /\ Take(kind, agent)
    /\ UNCHANGED <<row, room, server, queues, monitoring, history>>

(* The agent's page is gone, or a late report of it.                       *)
Disconnect ==
    /\ status = "IN_PROGRESS" /\ Asks /\ Take("disconnect", agent)
    /\ UNCHANGED <<row, room, server, queues, monitoring, history>>

Transfer ==
    /\ status = "IN_PROGRESS" /\ Asks
    /\ Take("transfer", agent) /\ agent' \in Agents \ {agent} /\ handover' = TRUE
    /\ UNCHANGED <<status, answered, room, server, queues, monitoring, history>>

End ==
    /\ ~Over /\ status' = "OVER" /\ Take("end", None)
    /\ UNCHANGED <<agent, answered, handover, room, server, queues, clients, history>>

(* The end is committed elsewhere and nobody tells this worker.            *)
EndUntold ==
    /\ ~Over /\ status' = "OVER"
    /\ UNCHANGED <<agent, answered, handover, room, server, queues, work, clients, history>>

Monitor(kind, s) ==
    /\ Asks /\ Take(kind, s)
    /\ CASE kind \in {"add", "offer"} -> monitoring' = monitoring \cup {s}
         [] kind = "stop" -> s \in monitoring /\ monitoring' = monitoring \ {s}
         [] kind = "answer" -> s \in monitoring /\ UNCHANGED monitoring
    /\ UNCHANGED <<row, room, server, queues, history>>

SetMode(mode) ==
    /\ monitoring # {} /\ Asks /\ Take("mode", mode)
    /\ UNCHANGED <<row, room, server, queues, monitoring, history>>

SetPrivate(active) ==
    /\ status = "IN_PROGRESS" /\ Asks /\ Take("private", active)
    /\ UNCHANGED <<row, room, server, queues, monitoring, history>>

At(i, kinds, at) == work[i].kind \in kinds /\ work[i].at = at
Who(i) == work[i].who
Rest == <<server, begun, late, stray, events, history>>

(* An accept needs the ringing call, or the handover, to be its agent's.   *)
JoinGoes(i) ==
    /\ At(i, {"join"}, "go")
    /\ IF Over \/ agent # Who(i) \/ (status = "IN_PROGRESS" /\ ~handover)
       THEN Done(i) /\ UNCHANGED handover
       ELSE /\ Queue(i, "agentAccepted", Who(i))
            /\ handover' = (handover /\ status = "RINGING")
    /\ UNCHANGED <<status, agent, answered, monitoring, Rest>>

(* Without the agent's audio the call ends; otherwise the accept just fails. *)
JoinAccepted(i) ==
    /\ At(i, {"join"}, "ok") /\ work[i].op = "agentAccepted"
    /\ IF status # "RINGING" THEN Queue(i, "bridge", None)
       ELSE IF answered THEN /\ work' = [work EXCEPT ![i].at = "live"]
                             /\ UNCHANGED <<room, chain>>
       ELSE Queue(i, "answerCustomer", None)
    /\ UNCHANGED <<row, monitoring, Rest>>

JoinFails(i) ==
    /\ At(i, {"join"}, "failed")
    /\ \/ Done(i) /\ UNCHANGED status
       \/ /\ work[i].op = "agentAccepted" /\ ~Over /\ status' = "OVER"
          /\ work' = [work EXCEPT ![i] = [Free EXCEPT !.kind = "end", !.at = "go"]]
          /\ UNCHANGED <<room, chain>>
    /\ UNCHANGED <<agent, answered, handover, monitoring, Rest>>

(* The provider takes the answer, or refuses it.                           *)
ProviderAnswers(i) ==
    /\ At(i, {"join"}, "ok") /\ work[i].op = "answerCustomer"
    /\ \/ work' = [work EXCEPT ![i].at = "live"] /\ UNCHANGED <<room, chain, failures>>
       \/ Fault /\ Done(i)
    /\ UNCHANGED <<row, server, begun, late, stray, clients, unheard>>

GoLive(i) ==
    /\ At(i, {"join"}, "live")
    /\ IF status = "RINGING" /\ agent = Who(i)
       THEN status' = "IN_PROGRESS" /\ answered' = TRUE /\ Queue(i, "bridge", None)
       ELSE Done(i) /\ UNCHANGED <<status, answered>>
    /\ UNCHANGED <<agent, handover, monitoring, Rest>>

(* The row was read before the old socket was asked after.                 *)
ReconnectGoes(i) ==
    /\ At(i, {"reconnect", "offered", "rejoin"}, "go")
    /\ CASE ~room.known -> Done(i)
         [] work[i].kind = "reconnect" -> Queue(i, "answerAgent", Who(i))
         [] work[i].kind = "offered" -> Queue(i, "offerAgent", Who(i))
         [] work[i].kind = "rejoin" -> IF room.pending THEN Queue(i, "agentAccepted", Who(i))
                                       ELSE Done(i)
    /\ UNCHANGED <<row, monitoring, Rest>>

Reconnected(i) ==
    /\ At(i, {"reconnect", "rejoin"}, "ok") /\ work[i].op # "bridge"
    /\ Queue(i, "bridge", None)
    /\ UNCHANGED <<row, monitoring, Rest>>

DisconnectGoes(i) ==
    /\ At(i, {"disconnect"}, "go")
    /\ IF agent = Who(i) THEN Queue(i, "dropAgent", Who(i)) ELSE Done(i)
    /\ UNCHANGED <<row, monitoring, Rest>>

TransferGoes(i) ==
    /\ work[i].kind = "transfer"
    /\ \/ work[i].at = "go" /\ Queue(i, "dropAgent", Who(i))
       \/ work[i].op = "dropAgent" /\ work[i].at = "ok" /\ Queue(i, "offerAgent", None)
    /\ UNCHANGED <<row, monitoring, Rest>>

EndGoes(i) ==
    /\ At(i, {"end"}, "go") /\ Queue(i, "close", None)
    /\ UNCHANGED <<row, monitoring, Rest>>

(* Whether someone else monitors the call is looked up before the leg is   *)
(* made, and not when it is answered.                                      *)
MonitorGoes(i) ==
    /\ At(i, {"add", "offer"}, "go")
    /\ IF status # "IN_PROGRESS" \/ room.supervisors # {}
       THEN Done(i) /\ monitoring' = monitoring \ {Who(i)}
       ELSE /\ Queue(i, IF work[i].kind = "add" THEN "addSupervisor" ELSE "offerSupervisor",
                     Who(i))
            /\ UNCHANGED monitoring
    /\ UNCHANGED <<row, Rest>>

MonitorAnswers(i) ==
    /\ At(i, {"answer"}, "go")
    /\ IF status = "IN_PROGRESS" THEN Queue(i, "supervisorAnswered", Who(i))
       ELSE Queue(i, "removeSupervisor", Who(i))
    /\ UNCHANGED <<row, monitoring, Rest>>

MonitorFails(i) ==
    /\ At(i, {"add", "offer", "answer"}, "failed") /\ work[i].op # "removeSupervisor"
    /\ Queue(i, "removeSupervisor", Who(i))
    /\ UNCHANGED <<row, monitoring, Rest>>

MonitorRemoved(i) ==
    /\ work[i].kind \in {"add", "offer", "answer"} /\ work[i].op = "removeSupervisor"
    /\ work[i].at \in {"ok", "failed"}
    /\ Done(i) /\ monitoring' = monitoring \ {Who(i)}
    /\ UNCHANGED <<row, Rest>>

RulesGo(i) ==
    /\ At(i, {"mode", "private", "stop"}, "go")
    /\ Queue(i, CASE work[i].kind = "mode" -> "mode" [] work[i].kind = "private" -> "private"
                  [] work[i].kind = "stop" -> "removeSupervisor", Who(i))
    /\ UNCHANGED <<row, monitoring, Rest>>

(* A handler is done with its last operation, or gives up on a failed one. *)
Finished(i) ==
    \/ work[i].at = "failed" /\ work[i].kind \notin {"join", "add", "offer", "answer"}
    \/ work[i].at = "ok" /\ \/ work[i].op \in {"bridge", "close", "mode", "private"}
                            \/ work[i].kind \in {"disconnect", "stop", "offered"}
                            \/ work[i].kind = "transfer" /\ work[i].op = "offerAgent"
                            \/ work[i].kind \in {"add", "offer", "answer"}
                               /\ work[i].op # "removeSupervisor"

Finish(i) ==
    /\ Finished(i) /\ Done(i)
    /\ UNCHANGED <<row, monitoring, Rest>>

-----------------------------------------------------------------------------
Operation ==
    \/ AnswerCustomer \/ StartHold \/ BeginOffer \/ OfferAgent
    \/ BeginAccepted \/ AgentAccepted \/ BeginAnswer \/ AnswerAgent
    \/ DropAgent \/ Bridge \/ BridgeFails
    \/ AddSupervisor \/ OfferSupervisor \/ SupervisorAnswered
    \/ SetSupervisorMode \/ SetAgentPrivate \/ RemoveSupervisor \/ Close

Handle(i) ==
    \/ JoinGoes(i) \/ JoinAccepted(i) \/ JoinFails(i) \/ ProviderAnswers(i) \/ GoLive(i)
    \/ ReconnectGoes(i) \/ Reconnected(i) \/ DisconnectGoes(i) \/ TransferGoes(i)
    \/ EndGoes(i) \/ MonitorGoes(i) \/ MonitorAnswers(i) \/ MonitorFails(i)
    \/ MonitorRemoved(i) \/ RulesGo(i) \/ Finish(i)

Next ==
    \/ Operation \/ LateOp \/ SweepOrphans \/ Reconcile
    \/ Join \/ Disconnect \/ Transfer \/ End \/ EndUntold
    \/ \E kind \in {"reconnect", "offered", "rejoin"} : Reconnect(kind)
    \/ \E s \in Supervisors, kind \in {"add", "offer", "answer", "stop"} : Monitor(kind, s)
    \/ \E mode \in Modes : SetMode(mode)
    \/ \E active \in {"on", "off"} : SetPrivate(active)
    \/ \E i \in Slots : Handle(i)

(* Operations, handlers and the scans go on; what people do need not.      *)
Fairness ==
    /\ WF_vars(Operation) /\ WF_vars(LateOp) /\ WF_vars(SweepOrphans) /\ WF_vars(Reconcile)
    /\ \A i \in Slots : WF_vars(Handle(i))

Spec == Init /\ [][Next]_vars /\ Fairness

-----------------------------------------------------------------------------
(* An agent's private reply ends when no supervisor is left to hear it     *)
(* (handleMonitorStopped, removeSupervisor).                               *)
PrivateReplyEnds == (room.private /\ room.supervisors = {}) ~> ~room.private

(* A customer alone in the room hears a tone or music again, unless a      *)
(* command that failed left them so: an agent's new leg once the old one   *)
(* was gone, a bridge's join once the hold music was off, a sound that was *)
(* refused (answerAgent, bridge, startHold, dropAgent).                    *)
Silent == "customer" \in inside /\ inside \cap Agents = {} /\ sounds = {}
SilenceEnds == Silent ~> (~Silent \/ unheard)

(* Whatever was queued around the end, an ended call keeps no leg (close,  *)
(* sweepOrphans, _reconcileOrphanedLegs).                                  *)
EndedCallsKeepNoLegs == Over ~> [](~stray /\ ~room.known)

=============================================================================
