------------------------------- MODULE AgentLine -------------------------------
(***************************************************************************)
(* One inbound call of an agent's personal line (a DIRECT call, carried by *)
(* rtpengine alone) from the agent's side: the pages of the agent SDK on   *)
(* the agent's devices, their sockets, the gateway, the handlers of the    *)
(* call's worker and the media they set up.  Sockets drop and come back,   *)
(* pages reload, devices take the call over from one another, microphones  *)
(* are asked for and a worker dies during an accept.                       *)
(*                                                                         *)
(* A handler is one step, except where the code waits for the agent: the   *)
(* accept waits for the agent's audio, and calls:list is read in one step  *)
(* and sent in another.                                                    *)
(***************************************************************************)
EXTENDS Naturals, FiniteSets, Sequences

CONSTANTS
    None,          \* no device
    Devices,       \* the agent's devices, each with one page
    Openings,      \* the sets of devices whose page may be open when the call comes
    MaxFaults,     \* bound: drops, reloads, refused microphones, silent ones and worker deaths together
    MaxSwitches,   \* bound: switchHere
    MaxOnTheWay    \* bound: messages on their way to a page

ASSUME DevicesAssumption == None \notin Devices /\ Openings \subseteq SUBSET Devices \ {{}}
ASSUME BoundsAssumption == {MaxFaults, MaxSwitches, MaxOnTheWay} \subseteq Nat

VARIABLES
    status,     \* calls.status: RINGING, IN_PROGRESS or OVER
    device,     \* call_connections.device_id of the AGENT row
    media,      \* DirectCall: an offer waits; whose leg flows; an accept that waits for audio
    holder,     \* agentLegSockets: the device whose present socket has the leg
    timer,      \* the stored agent-reconnect deadline
    link,       \* each device's socket: off (page never opened), down or up
    bound,      \* socket.callId of the present socket is this call
    ghost,      \* an earlier socket whose end the gateway has not noticed
    list,       \* what calls:sync has read and not sent yet
    page,       \* the SDK's Call on each device
    up, down,   \* messages to the gateway, handled side by side, and to the page, in order
    faults, switches,
    overtaken   \* history: a list that had the call went out after its end

vars == <<status, device, media, holder, timer, link, bound, ghost, list, page, up, down,
          faults, switches, overtaken>>

Server == <<status, device, media, holder, timer>>
Sockets == <<link, bound, ghost, list>>
Bounds == <<faults, switches>>

(***************************************************************************)
(* A page.  asks: microphone prompts that are open, for an accept or a     *)
(* reconnect; void: those whose peer connection is gone by now.            *)
(***************************************************************************)
Prompts == {"accept", "recover", "switch"}

NoCall == [call |-> "none", pc |-> "none", mic |-> FALSE, asks |-> {}, void |-> {},
           asked |-> FALSE, armed |-> FALSE, tries |-> 0]

PageOver == [NoCall EXCEPT !.call = "ended"]

Ringing == [NoCall EXCEPT !.call = "ringing"]

Elsewhere(p) == [p EXCEPT !.call = "elsewhere", !.pc = "none", !.armed = FALSE, !.void = p.asks]

Recovering(p) == p.asks \cap {"recover", "switch"} # {}

NewPeer(p) == [p EXCEPT !.call = "connecting", !.pc = "new", !.armed = TRUE, !.void = p.asks]

Reconnecting(p, why) ==
    IF p.mic THEN [NewPeer(p) EXCEPT !.asked = TRUE]
    ELSE [NewPeer(p) EXCEPT !.asks = @ \cup {why}]

Msg(kind) == [kind |-> kind, live |-> TRUE]

NoList == Msg("none")

AsksServer(p) == IF p.mic THEN {Msg("reconnect")} ELSE {}

Stale(msgs) == {[m EXCEPT !.live = FALSE] : m \in msgs}

Unlinked(d) ==
    [media EXCEPT !.leg = IF @ = d THEN None ELSE @,
                  !.accepting = IF @.dev = d THEN [@ EXCEPT !.live = FALSE] ELSE @]

\* Page d goes on as p and sends msgs.  Without a peer connection that has
\* answered, no leg of the page is left, and answers on their way are void.
PageStep(d, p, msgs) ==
    /\ page' = [page EXCEPT ![d] = p]
    /\ IF p.pc = "answered" THEN up' = [up EXCEPT ![d] = @ \cup msgs] /\ UNCHANGED media
       ELSE up' = [up EXCEPT ![d] = Stale(@) \cup msgs] /\ media' = Unlinked(d)

\* A step of the page alone.
Alone(d, p, msgs) ==
    /\ PageStep(d, p, msgs)
    /\ UNCHANGED <<status, device, holder, timer, Sockets, down, overtaken>>

Fault == faults < MaxFaults /\ faults' = faults + 1

(***************************************************************************)
(* Init: the call was offered and rings on every page that is open.        *)
(***************************************************************************)
NoAccept == [dev |-> None, live |-> FALSE]

Init ==
    /\ status = "RINGING"
    /\ device = None
    /\ media = [offered |-> TRUE, leg |-> None, accepting |-> NoAccept]
    /\ holder = None
    /\ timer = FALSE
    /\ \E open \in Openings : link = [d \in Devices |-> IF d \in open THEN "up" ELSE "off"]
    /\ bound = [d \in Devices |-> FALSE]
    /\ ghost = [d \in Devices |-> FALSE]
    /\ list = [d \in Devices |-> NoList]
    /\ page = [d \in Devices |-> IF link[d] = "up" THEN Ringing ELSE NoCall]
    /\ up = [d \in Devices |-> {}]
    /\ down = [d \in Devices |-> <<>>]
    /\ faults = 0 /\ switches = 0
    /\ overtaken = FALSE

(***************************************************************************)
(* What the agent does on a page.                                          *)
(***************************************************************************)
Accept(d) ==
    /\ page[d].call = "ringing"
    /\ Alone(d, [NewPeer(page[d]) EXCEPT !.asks = {"accept"}], {})
    /\ UNCHANGED Bounds

Decline(d) ==
    /\ page[d].call = "ringing"
    /\ Alone(d, PageOver, {Msg("reject")})
    /\ UNCHANGED Bounds

HangUp(d) ==
    /\ page[d].call \in {"connecting", "active", "elsewhere"}
    /\ Alone(d, PageOver, {Msg("terminate")})
    /\ UNCHANGED Bounds

\* Bound: nobody switches again while the page still asks for the microphone.
SwitchHere(d) ==
    /\ page[d].call = "elsewhere" /\ page[d].asks = {}
    /\ switches < MaxSwitches /\ switches' = switches + 1
    /\ Alone(d, Reconnecting(page[d], "switch"), AsksServer(page[d]))
    /\ UNCHANGED faults

(***************************************************************************)
(* The microphone.  A prompt whose peer connection was replaced meanwhile  *)
(* fails on addTrack: an accept or a recovery ends the page's call, a      *)
(* switch only rejects.                                                    *)
(***************************************************************************)
PromptGranted(d, a) ==
    LET p == [page[d] EXCEPT !.mic = TRUE, !.asks = @ \ {a}, !.void = @ \ {a}] IN
    /\ a \in page[d].asks
    /\ CASE a \in page[d].void /\ a = "switch" -> Alone(d, p, {})
         [] a \in page[d].void /\ a # "switch" -> Alone(d, PageOver, {})
         [] a \notin page[d].void /\ a = "accept" ->
                Alone(d, [p EXCEPT !.pc = "answered"], {Msg("accept")})
         [] a \notin page[d].void /\ a # "accept" ->
                Alone(d, [p EXCEPT !.asked = TRUE], {Msg("reconnect")})
    /\ UNCHANGED Bounds

PromptDenied(d, a) ==
    /\ a \in page[d].asks
    /\ Fault
    /\ IF a = "switch" THEN Alone(d, [page[d] EXCEPT !.asks = @ \ {a}, !.void = @ \ {a}], {})
       ELSE Alone(d, PageOver, {})
    /\ UNCHANGED switches

(***************************************************************************)
(* The page's peer connection.                                             *)
(***************************************************************************)
PcConnects(d) ==
    /\ media.leg = d
    /\ page[d].call = "connecting" \/ page[d].armed
    /\ Alone(d, [page[d] EXCEPT !.call = "active", !.armed = FALSE, !.tries = 0], {})
    /\ UNCHANGED Bounds

\* _mediaFailed: one reconnect, then the call is given up.
MediaFailed(d) ==
    IF page[d].tries = 0
    THEN Alone(d, Reconnecting([page[d] EXCEPT !.tries = 1], "recover"), AsksServer(page[d]))
    ELSE Alone(d, PageOver, {Msg("terminate")})

\* The 15 s timer of _newPeer; a recovery that is under way ignores it.
ConnectTimeout(d) ==
    /\ page[d].armed /\ media.leg # d
    /\ IF Recovering(page[d]) THEN Alone(d, [page[d] EXCEPT !.armed = FALSE], {})
       ELSE MediaFailed(d)
    /\ UNCHANGED Bounds

IceFails(d) ==
    /\ page[d].pc = "answered" /\ media.leg # d
    /\ page[d].call \in {"connecting", "active"} /\ ~Recovering(page[d])
    /\ MediaFailed(d)
    /\ UNCHANGED Bounds

(***************************************************************************)
(* What the page receives.                                                 *)
(***************************************************************************)
Offered(p) == IF p.call = "none" THEN Ringing ELSE p

\* calls:list: a call known here stays if it is listed; a new one rings, is
\* shown as elsewhere, or is taken up again after a reload.
Listed(d, s) ==
    CASE page[d].call # "none" -> page[d]
      [] page[d].call = "none" /\ s.status = "RINGING" /\ s.device = None -> Ringing
      [] page[d].call = "none" /\ s.device \notin {None, d} -> Elsewhere(page[d])
      [] page[d].call = "none" /\ s.device = d -> Reconnecting(page[d], "recover")
      [] OTHER -> page[d]

\* Fault: a call that is no longer listed is kept.
ReconcileKnown(d, s) == IF s.status = "OVER" THEN page[d] ELSE Listed(d, s)

Reconcile(d, s) ==
    IF s.status = "OVER" THEN IF page[d].call = "none" THEN NoCall ELSE PageOver
    ELSE Listed(d, s)

Received(d, m) ==
    LET p == page[d]
        here == p.call \notin {"none", "ended"}
    IN CASE m.kind = "incoming" -> PageStep(d, Offered(p), {})
         [] m.kind = "handled" /\ p.call = "ringing" -> PageStep(d, PageOver, {})
         [] m.kind \in {"terminated", "error"} /\ here -> PageStep(d, PageOver, {})
         [] m.kind = "superseded" /\ here -> PageStep(d, Elsewhere(p), {})
         [] m.kind = "offer" /\ p.asked /\ p.pc # "none" ->
                PageStep(d, [p EXCEPT !.asked = FALSE, !.pc = "answered"], {Msg("answer")})
         [] m.kind = "list" -> PageStep(d, Reconcile(d, m), {})
         [] OTHER -> UNCHANGED <<page, up, media>>

Receive(d) ==
    /\ down[d] # <<>>
    /\ Received(d, Head(down[d]))
    /\ down' = [down EXCEPT ![d] = Tail(@)]
    /\ UNCHANGED <<status, device, holder, timer, Sockets, Bounds, overtaken>>

(***************************************************************************)
(* The sockets.                                                            *)
(***************************************************************************)
LiveSockets == {d \in Devices : link[d] = "up"}

\* The gateway counts a socket that dropped until it notices.
OnlySocket(d) == LiveSockets \ {d} = {} /\ \A e \in Devices : ~ghost[e]

Opens(d, from) ==
    /\ link[d] = from
    /\ link' = [link EXCEPT ![d] = "up"]
    /\ up' = [up EXCEPT ![d] = @ \cup {Msg("sync")}
                  \cup (IF status = "RINGING" /\ OnlySocket(d) THEN {Msg("redeliver")} ELSE {})]
    /\ UNCHANGED <<Server, bound, ghost, list, page, down, Bounds, overtaken>>

Open(d) == Opens(d, "off")
Connect(d) == Opens(d, "down")

\* Bound: a socket drops only after the end of the one before was noticed.
SocketLost(d) ==
    /\ link[d] = "up" /\ ~ghost[d]
    /\ Fault
    /\ link' = [link EXCEPT ![d] = "down"]
    /\ ghost' = [ghost EXCEPT ![d] = bound[d]]
    /\ bound' = [bound EXCEPT ![d] = FALSE]
    /\ list' = [list EXCEPT ![d] = NoList]
    /\ down' = [down EXCEPT ![d] = <<>>]
    /\ up' = [up EXCEPT ![d] = {}]
    /\ holder' = IF holder = d THEN None ELSE holder
    /\ UNCHANGED <<status, device, timer, switches, overtaken>>

Drop(d) == SocketLost(d) /\ UNCHANGED <<page, media>>

Reload(d) ==
    /\ SocketLost(d)
    /\ page' = [page EXCEPT ![d] = NoCall]
    /\ media' = Unlinked(d)

\* Fault: the leg is dropped and no deadline is set.
NoticeLossUntimed(d) ==
    /\ ghost[d]
    /\ ghost' = [ghost EXCEPT ![d] = FALSE]
    /\ UNCHANGED <<status, device, media, timer, holder, link, bound, list, page, up, down, Bounds, overtaken>>

\* The gateway notices a dropped socket: handleFrontendDisconnected for one
\* that had the call.  dropAgent leaves rtpengine's flow as it is.
NoticeLoss(d) ==
    /\ ghost[d]
    /\ ghost' = [ghost EXCEPT ![d] = FALSE]
    /\ timer' = TRUE
    /\ UNCHANGED <<status, device, media, holder, link, bound, list, page, up, down, Bounds, overtaken>>

(***************************************************************************)
(* The gateway and the call's worker.                                      *)
(***************************************************************************)
\* A page that has ended its call ignores what comes for it.
Listens(d) == link[d] = "up" /\ page[d].call # "ended"

Told(ds, msgs) == [d \in Devices |-> IF d \in ds /\ Listens(d) THEN down[d] \o msgs ELSE down[d]]
Tell(ds, kind) == Told(ds, <<Msg(kind)>>)

Room == \A d \in Devices : Len(down[d]) < MaxOnTheWay

\* The call ends: its media is closed and every socket is told.  What the
\* gateway still knows of an ended call has no effect and is left out.
Closed == [offered |-> FALSE, leg |-> None, accepting |-> NoAccept]

EndsWith(accepting) ==
    /\ status' = "OVER" /\ timer' = FALSE /\ holder' = None /\ device' = None
    /\ media' = [Closed EXCEPT !.accepting = accepting]
    /\ bound' = [d \in Devices |-> FALSE]
    /\ ghost' = [d \in Devices |-> FALSE]
    /\ down' = Tell(Devices, "terminated")
    /\ UNCHANGED overtaken

Ends == EndsWith(media.accepting)

Same == UNCHANGED <<Server, bound, ghost, down, overtaken>>

\* Callio's offer to the agent, made again or for the first time.
OfferAgent == [media EXCEPT !.offered = TRUE]

\* The agent's answer uses the offer up; the leg flows unless it is void.
Answered(d, live) == [media EXCEPT !.offered = FALSE, !.leg = IF live THEN d ELSE None]

\* Packets of any leg the call has had count; before the first, one that is
\* void is awaited in vain.
Heard(live) == live \/ status = "IN_PROGRESS"

Bind(d) == bound' = [bound EXCEPT ![d] = TRUE] /\ UNCHANGED ghost

\* getOngoingCallsForAgent and the AGENT row, before the list is sent.  A
\* call that has rung for a minute is left out like one that is over, and
\* queued to be ended (RingTimeOver).
Sync(d) ==
    /\ \E listed \in {status} \cup (IF status = "RINGING" THEN {"OVER"} ELSE {}) :
           list' = [list EXCEPT ![d] = [kind |-> "list", live |-> TRUE, status |-> listed,
                                        device |-> device]]
    /\ Same

\* Without an offer on this worker an accept is skipped; one for a call that
\* is answered already is refused, except a transfer's.
Joined(d, live) ==
    \/ /\ status # "RINGING" /\ (status = "OVER" \/ media.offered)
       /\ down' = Tell({d}, "error")
       /\ bound' = [bound EXCEPT ![d] = status # "OVER"]
       /\ UNCHANGED <<Server, ghost, overtaken>>
    \/ /\ status # "OVER" /\ ~media.offered
       /\ Bind(d)
       /\ UNCHANGED <<Server, down, overtaken>>
    \/ /\ status = "RINGING" /\ media.offered
       /\ Bind(d)
       /\ holder' = d
       /\ media' = [Answered(d, live) EXCEPT !.accepting = [dev |-> d, live |-> live]]
       /\ UNCHANGED <<status, device, timer, down, overtaken>>

\* Fault: the device that had the leg is not told.
ReconnectUnannounced(d) ==
    IF status = "OVER" THEN Same
    ELSE /\ Bind(d)
         /\ timer' = FALSE /\ holder' = d
         /\ media' = OfferAgent
         /\ device' = None
         /\ down' = Tell({d}, "offer")
         /\ UNCHANGED <<status, overtaken>>

\* An offer-less reconnect: the deadline is cleared, a live socket of another
\* device that has the leg is told, and Callio offers.
Reconnect(d) ==
    IF status = "OVER" THEN Same
    ELSE /\ Bind(d)
         /\ timer' = FALSE /\ holder' = d
         /\ media' = OfferAgent
         /\ device' = None
         /\ down' = [Tell({holder} \ {d}, "superseded") EXCEPT ![d] = Tell({d}, "offer")[d]]
         /\ UNCHANGED <<status, overtaken>>

\* The answer to it.
ReconnectAnswered(d, live) ==
    IF status = "OVER" \/ ~bound[d] \/ ~media.offered THEN Same
    ELSE /\ holder' = d
         /\ media' = Answered(d, live)
         /\ device' = IF Heard(live) THEN d ELSE device
         /\ UNCHANGED <<status, timer, bound, ghost, down, overtaken>>

\* A decline of a personal line's call ends it; of an answered one, nothing.
Rejected(d) ==
    \/ status = "OVER" /\ Same
    \/ status = "RINGING" /\ Ends
    \/ /\ status = "IN_PROGRESS"
       /\ bound' = [bound EXCEPT ![d] = FALSE]
       /\ UNCHANGED <<Server, ghost, down, overtaken>>

Terminated(d) == IF status = "OVER" THEN Same ELSE Ends

\* A ringing call's offer is made again for the agent's first socket; the
\* handler does not look at the status again.
Redelivered(d) ==
    IF status = "OVER" THEN Same
    ELSE /\ media' = OfferAgent
         /\ device' = None
         /\ down' = Tell({d}, "incoming")
         /\ UNCHANGED <<status, holder, timer, bound, ghost, overtaken>>

\* A handler that needs the call's media waits for an accept that waits.
Handle(d, m) ==
    /\ link[d] = "up" /\ m \in up[d] /\ Room
    /\ m.kind \in {"reconnect", "answer", "redeliver"} => media.accepting = NoAccept
    /\ up' = [up EXCEPT ![d] = @ \ {m}]
    /\ CASE m.kind = "sync" -> Sync(d)
         [] m.kind = "accept" -> Joined(d, m.live)
         [] m.kind = "reconnect" -> Reconnect(d)
         [] m.kind = "answer" -> ReconnectAnswered(d, m.live)
         [] m.kind = "reject" -> Rejected(d)
         [] m.kind = "terminate" -> Terminated(d)
         [] m.kind = "redeliver" -> Redelivered(d)
    /\ (m.kind # "sync" => UNCHANGED list)
    /\ UNCHANGED <<link, page, Bounds>>

SendList(d) ==
    /\ list[d].kind = "list" /\ Room
    /\ down' = Told({d}, <<list[d]>>)
    /\ list' = [list EXCEPT ![d] = NoList]
    /\ overtaken' = (overtaken \/ (status = "OVER" /\ list[d].status # "OVER"))
    /\ UNCHANGED <<Server, link, bound, ghost, page, up, Bounds>>

(***************************************************************************)
(* The accept, once the agent's audio has arrived or has not in 5 s.  The  *)
(* device that answered keeps its page on call:handled.                    *)
(***************************************************************************)
AudioArrives ==
    LET d == media.accepting.dev IN
    /\ d # None /\ media.accepting.live /\ Room
    /\ media' = [media EXCEPT !.accepting = NoAccept]
    /\ IF status = "RINGING" THEN status' = "IN_PROGRESS" /\ device' = d ELSE UNCHANGED <<status, device>>
    /\ down' = Tell(Devices \ {d}, "handled")
    /\ UNCHANGED <<holder, timer, Sockets, page, up, Bounds, overtaken>>

NoAudio(silent) ==
    /\ media.accepting # NoAccept /\ Room
    /\ IF silent THEN media.accepting.live /\ Fault ELSE ~media.accepting.live /\ UNCHANGED faults
    /\ \/ /\ status = "OVER"
          /\ media' = Closed
          /\ down' = Tell({media.accepting.dev}, "error")
          /\ UNCHANGED <<status, device, holder, timer, bound, ghost, overtaken>>
       \/ /\ status # "OVER"
          /\ EndsWith(NoAccept)
    /\ UNCHANGED <<link, list, page, up, switches>>

\* What was saved last comes back: the state is saved after an operation, so
\* an accept that waited is forgotten and its offer waits again.
Saved == [media EXCEPT !.accepting = NoAccept, !.offered = @ \/ media.accepting # NoAccept]

\* The worker dies and another takes the call.
WorkerDies ==
    /\ status # "OVER"
    /\ Fault
    /\ media' = Saved
    /\ holder' = None
    /\ UNCHANGED <<status, device, timer, Sockets, page, up, down, switches, overtaken>>

(***************************************************************************)
(* Ends from elsewhere.                                                    *)
(***************************************************************************)
CustomerEnds ==
    /\ status # "OVER" /\ Room
    /\ Ends
    /\ UNCHANGED <<link, list, page, up, Bounds>>

RingTimeOver ==
    /\ status = "RINGING" /\ Room
    /\ Ends
    /\ UNCHANGED <<link, list, page, up, Bounds>>

ReconnectExpired ==
    /\ timer /\ status # "OVER" /\ Room
    /\ Ends
    /\ UNCHANGED <<link, list, page, up, Bounds>>

(***************************************************************************)
\* What page d sent is handled before it goes on, unless the handler waits.
Waits(m) == m.kind \in {"reconnect", "answer", "redeliver"} /\ media.accepting # NoAccept

\* Bound: a page whose socket is down stops after one request.
Quiet(d) == \A m \in up[d] : link[d] = "up" /\ (m.kind = "redeliver" \/ Waits(m))

Page(d) ==
    /\ Quiet(d)
    /\ \/ Accept(d) \/ Decline(d) \/ HangUp(d) \/ SwitchHere(d)
       \/ \E a \in Prompts : PromptGranted(d, a) \/ PromptDenied(d, a)
       \/ PcConnects(d) \/ ConnectTimeout(d) \/ IceFails(d) \/ Receive(d)

Gateway(d) ==
    \/ Open(d) \/ Connect(d) \/ Drop(d) \/ Reload(d) \/ NoticeLoss(d)
    \/ \E m \in up[d] : Handle(d, m)
    \/ SendList(d)

Next ==
    \/ \E d \in Devices : Page(d) \/ Gateway(d)
    \/ AudioArrives \/ NoAudio(FALSE) \/ NoAudio(TRUE) \/ WorkerDies
    \/ CustomerEnds \/ RingTimeOver \/ ReconnectExpired

(***************************************************************************)
(* Pages run their timers and handle what they receive, sockets come back  *)
(* and lost ones are noticed (ping timeout), the gateway handles what it   *)
(* received, deadlines fire, prompts are answered.  Nothing is assumed of  *)
(* what the agent or the customer does.                                    *)
(***************************************************************************)
Fairness ==
    /\ \A d \in Devices :
        /\ WF_vars(Receive(d)) /\ WF_vars(PcConnects(d)) /\ WF_vars(ConnectTimeout(d)) /\ WF_vars(IceFails(d))
        /\ WF_vars(Connect(d)) /\ WF_vars(NoticeLoss(d)) /\ WF_vars(\E m \in up[d] : Handle(d, m))
        /\ WF_vars(SendList(d))
        /\ \A a \in Prompts : WF_vars(PromptGranted(d, a))
    /\ WF_vars(AudioArrives) /\ WF_vars(NoAudio(FALSE))
    /\ WF_vars(RingTimeOver) /\ WF_vars(ReconnectExpired)

Spec == Init /\ [][Next]_vars /\ Fairness

(***************************************************************************)
(* Properties.                                                             *)
(***************************************************************************)
Messages == [kind : {"sync", "accept", "reconnect", "answer", "reject", "terminate", "redeliver"}, live : BOOLEAN]

PageType ==
    [call : {"none", "ringing", "connecting", "active", "elsewhere", "ended"},
     pc : {"none", "new", "answered"}, mic : BOOLEAN, asks : SUBSET Prompts, void : SUBSET Prompts,
     asked : BOOLEAN, armed : BOOLEAN, tries : 0 .. 1]

\* Types; a flowing leg belongs to a page that answered Callio's offer, and
\* an ended call has no leg left in rtpengine (callMedia.close).
TypeOK ==
    /\ status \in {"RINGING", "IN_PROGRESS", "OVER"}
    /\ {device, holder, media.leg} \subseteq Devices \cup {None}
    /\ \A d \in Devices : page[d] \in PageType /\ up[d] \subseteq Messages
    /\ media.leg # None => status # "OVER" /\ page[media.leg].pc = "answered"

\* A page whose 15 s timer was swallowed while a microphone prompt was open
\* (Call.js: _mediaFailed returns while _recovering): no timer runs for it.
Unwatched(d) == page[d].call = "connecting" /\ page[d].pc = "new" /\ ~page[d].armed

\* A page that gave the call up after a microphone it could not use, without
\* a call:terminate (Call.js: the catch of _reconnect only calls _end).
LetGo(d) == bound[d] /\ page[d].call = "ended"

\* Every page lets go of a call that is over, whatever messages were lost
\* with a socket: call:terminated tells it, or calls:list does after the next
\* connect (SDK README: "Resync on every connect").  Excused: a list that
\* was read before the end and sent after it, and a page nobody watches.
EndedCallIsLetGo ==
    (status = "OVER") ~>
        (\A d \in Devices : page[d].call \in {"none", "ended"} \/ overtaken \/ Unwatched(d))

\* After switches, reloads and reconnects one device at most goes on showing
\* the call as its own: call:connection_superseded, or its own failed peer
\* connection, takes the other off (Call.js: _superseded, _mediaFailed).
OnePageTalks == <>[](\A d, e \in Devices : d # e => ~(page[d].call = "active" /\ page[e].call = "active"))

\* A customer in an answered call does not hear silence for good: a page
\* brings its media back, or gives the call up, or the 120 s deadline ends it
\* (ConnectionEventHandler: "so the customer isn't left on a dead line").
\* Excused: a page that let go without saying so, or that nobody watches.
CustomerIsHeardAgain ==
    (status = "IN_PROGRESS" /\ media.leg = None)
        ~> (status = "OVER" \/ media.leg # None \/ \E d \in Devices : LetGo(d) \/ Unwatched(d))

================================================================================
