------------------------------ MODULE IvrSession ------------------------------
(***************************************************************************)
(* An inbound call that the system answers with an IVR flow: the accept at *)
(* the provider, the session and its engine, the transfer to a queue, the  *)
(* end of the session, and what a crash of the worker leaves for the one   *)
(* that takes the call over (IvrCoordinator, IvrEngine,                    *)
(* IvrTransferHandler, IvrTerminationHandler).                             *)
(*                                                                         *)
(* Everything the session does runs on the worker that owns the call; the  *)
(* call may end on that worker or on another, which only the first hears   *)
(* of as an event.                                                         *)
(***************************************************************************)
EXTENDS Naturals, FiniteSets

CONSTANTS
    Nodes,          \* nodes of the flow
    Kind,           \* Kind[n]: the type of node n
    First,          \* the node that ivr_start leads to
    Digits,         \* keys of the caller's phone
    Follow,         \* Follow[<<n, k>>]: where key k leads, "next" where a prompt does
    Hangups,        \* menus that hang up on a silent caller; the others play again
    Audible,        \* nodes whose audio is found
    None,
    MaxDigits,      \* bound: keys that the caller presses
    MaxCrashes      \* bound: crashes of the worker

Prompts == {"menu", "play"}
FlowKinds == Prompts \cup {"transfer", "hangup"}
ASSUME FlowAssumption ==
    /\ Kind \in [Nodes -> FlowKinds] /\ First \in Nodes /\ None \notin Nodes
    /\ DOMAIN Follow \subseteq Nodes \X (Digits \cup {"next"})
    /\ \A x \in DOMAIN Follow : Follow[x] \in Nodes
    /\ Hangups \subseteq Nodes /\ Audible \subseteq Nodes
ASSUME NoneAssumption == None \notin {"IVR", "QUEUE"}
ASSUME BoundsAssumption == MaxDigits \in Nat /\ MaxCrashes \in Nat

MaxReplays == 3

VARIABLES
    status, state,  \* of the call's row
    agent,          \* the row has an agent
    record,         \* the ivr_sessions row: "none", "open" or its outcome
    saved,          \* the node in callio:call:<id>:ivr
    leg,            \* the customer's leg is up
    setup,          \* how far the accept and startSession are
    sess,           \* the entry in _sessions
    latch,          \* the call is in _completedCallIds
    early,          \* startSession's guard has heard of the end
    engine,         \* the flow's engine
    hears,          \* events the session listens to: "complete", "end"
    transfer,       \* how far IvrTransferHandler.handle is, and to do what
    stops,          \* how far stopSession is, per caller of it
    told,           \* "here": this worker has yet to tell of an end of its own
    pressed, crashes, replayed

row == <<status, state, agent, record>>
session == <<sess, latch, early, engine, hears>>
bounds == <<pressed, crashes, replayed>>
vars == <<row, saved, leg, setup, session, transfer, stops, told, bounds>>

Statuses == {"RINGING", "IN_PROGRESS", "TERMINATED"}
Over == status = "TERMINATED"
Outcomes == {"transferred", "hung_up", "timeout", "error"}
Callers == {"flow", "end"}
Idle == [node |-> None, runs |-> FALSE, keys |-> "off", sound |-> "none",
         timer |-> "none", replays |-> 0]
NoStop == [at |-> "none", outcome |-> "hung_up"]

Setups == {"accept", "mark", "start", "prepare", "create", "establish", "adopt", "done"}
Transfers == {"none", "check", "hangup", "replay", "stopping", "queue"}
Engines == [node : Nodes \cup {None}, runs : BOOLEAN, keys : {"off", "on", "gone"},
            sound : {"none", "prompt", "error"}, timer : {"none", "wait", "grace"},
            replays : 0 .. MaxReplays]
Stops == [at : {"none", "close", "state", "forget", "drop", "end"}, outcome : Outcomes]

TypeOK ==
    /\ status \in Statuses /\ state \in {"IVR", "QUEUE", None} /\ agent \in BOOLEAN
    /\ record \in Outcomes \cup {"none", "open"} /\ saved \in Nodes \cup {None}
    /\ leg \in BOOLEAN /\ latch \in BOOLEAN /\ early \in BOOLEAN
    /\ setup \in Setups
    /\ sess \in {"none", "pending", "live"}
    /\ engine \in Engines
    /\ hears \subseteq {"complete", "end"}
    /\ transfer \in Transfers /\ stops \in [Callers -> Stops]
    /\ told \in BOOLEAN
    /\ pressed \in 0 .. MaxDigits /\ crashes \in 0 .. MaxCrashes /\ replayed \in BOOLEAN

Init ==
    /\ status = "RINGING" /\ state = "IVR" /\ agent = FALSE /\ record = "none"
    /\ saved = None /\ leg = FALSE /\ setup = "accept"
    /\ sess = "none" /\ latch = FALSE /\ early = FALSE /\ engine = Idle /\ hears = {}
    /\ transfer = "none" /\ stops = [c \in Callers |-> NoStop] /\ told = TRUE
    /\ pressed = 0 /\ crashes = 0 /\ replayed = FALSE

-----------------------------------------------------------------------------
(* stopSession(): at once the latch, the listeners and the engine; then    *)
(* one statement after another.  Without a session it does nothing.        *)

Stopped(e) == [e EXCEPT !.runs = FALSE, !.sound = "none", !.timer = "none",
                        !.keys = IF e.runs THEN "gone" ELSE @]

BeginStop(c, outcome) ==
    /\ stops' = [stops EXCEPT ![c] = [at |-> IF sess = "live" THEN "close" ELSE "end",
                                      outcome |-> outcome]]
    /\ IF sess = "live"
       THEN latch' = TRUE /\ hears' = {} /\ engine' = Stopped(engine)
       ELSE UNCHANGED <<latch, hears, engine>>

StopGoes(c, at) == stops' = [stops EXCEPT ![c].at = at]

CloseRecord(c) ==
    /\ stops[c].at = "close"
    /\ record' = stops[c].outcome /\ StopGoes(c, "state")
    /\ UNCHANGED <<status, state, agent, saved, leg, setup, session, transfer, told, bounds>>

SetState(c) ==
    /\ stops[c].at = "state"
    /\ IF stops[c].outcome = "transferred" THEN state' = "QUEUE" /\ status' = "RINGING"
       ELSE state' = None /\ UNCHANGED status
    /\ StopGoes(c, "forget")
    /\ UNCHANGED <<agent, record, saved, leg, setup, session, transfer, told, bounds>>

ForgetSession(c) ==
    /\ stops[c].at = "forget"
    /\ sess' = "none" /\ StopGoes(c, "drop")
    /\ UNCHANGED <<row, saved, leg, setup, latch, early, engine, hears, transfer, told, bounds>>

DropPosition(c) ==
    /\ stops[c].at = "drop"
    /\ saved' = None /\ StopGoes(c, "end")
    /\ UNCHANGED <<row, leg, setup, session, transfer, told, bounds>>

(* What waits for the session to be stopped goes on: the transfer, or the  *)
(* end of the call (IvrTerminationHandler).                                *)
AfterStop(c) ==
    /\ stops[c].at = "end"
    /\ stops' = [stops EXCEPT ![c] = NoStop]
    /\ IF c = "flow" /\ transfer = "stopping" /\ stops[c].outcome = "transferred"
       THEN transfer' = "queue" /\ UNCHANGED <<status, state, told>>
       ELSE /\ transfer' = IF c = "flow" THEN "none" ELSE transfer
            /\ IF Over THEN UNCHANGED <<status, state, told>>
               ELSE status' = "TERMINATED" /\ state' = None /\ told' = FALSE
    /\ UNCHANGED <<agent, record, saved, leg, setup, session, bounds>>

-----------------------------------------------------------------------------
(* The engine.  Complete: the session's listener starts the transfer or    *)
(* ends the session; with no listener nothing follows.                     *)

Complete(outcome, e) ==
    IF "complete" \notin hears
    THEN engine' = Stopped(e) /\ UNCHANGED <<hears, latch, transfer, stops>>
    ELSE IF outcome = "transferred"
         THEN /\ engine' = Stopped(e) /\ hears' = hears \ {"complete"}
              /\ transfer' = "check" /\ UNCHANGED <<latch, stops>>
         ELSE /\ engine' = Stopped(e) /\ hears' = {} /\ latch' = TRUE
              /\ stops' = [stops EXCEPT !["flow"] = [at |-> "close", outcome |-> outcome]]
              /\ UNCHANGED transfer

(* A node without audio, or whose prompt fails: the keys are off and an    *)
(* error message plays, if there is one.                                   *)
Fails(e) ==
    \/ engine' = [e EXCEPT !.sound = "error", !.timer = "none", !.keys = "gone"]
       /\ UNCHANGED <<hears, latch, transfer, stops>>
    \/ Complete("hung_up", e)

(* Entering node n saves the position.                                     *)
Enter(n, e) ==
    LET here == [e EXCEPT !.node = n, !.sound = "none", !.timer = "none",
                          !.replays = IF n = e.node THEN @ ELSE 0]
    IN  /\ saved' = n
        /\ CASE Kind[n] = "transfer" -> Complete("transferred", here)
             [] Kind[n] = "hangup" -> Complete("hung_up", here)
             [] Kind[n] \in Prompts /\ n \notin Audible -> Fails(here)
             [] OTHER -> /\ engine' = [here EXCEPT !.sound = "prompt"]
                         /\ UNCHANGED <<hears, latch, transfer, stops>>

Steps == <<row, leg, setup, sess, early, told, crashes, replayed>>

PressDigit(d) ==
    /\ leg /\ pressed < MaxDigits
    /\ engine.runs /\ engine.keys = "on" /\ engine.node # None
    /\ Kind[engine.node] = "menu"
    /\ pressed' = pressed + 1
    /\ IF <<engine.node, d>> \in DOMAIN Follow THEN Enter(Follow[<<engine.node, d>>], engine)
       ELSE UNCHANGED <<saved, engine, hears, latch, transfer, stops>>
    /\ UNCHANGED Steps

PromptEnds ==
    /\ leg /\ engine.sound = "prompt"
    /\ CASE Kind[engine.node] = "menu" ->
                /\ engine' = [engine EXCEPT !.sound = "none", !.timer = "wait"]
                /\ UNCHANGED <<saved, hears, latch, transfer, stops>>
         [] <<engine.node, "next">> \in DOMAIN Follow ->
                Enter(Follow[<<engine.node, "next">>], engine)
         [] OTHER -> Complete("hung_up", engine) /\ UNCHANGED saved
    /\ UNCHANGED <<Steps, pressed>>

PromptFails ==
    /\ engine.sound = "prompt"
    /\ Fails(engine)
    /\ UNCHANGED <<Steps, pressed, saved>>

ErrorEnds ==
    /\ engine.sound = "error"
    /\ Complete("hung_up", engine)
    /\ UNCHANGED <<Steps, pressed, saved>>

NoInput ==
    /\ engine.timer = "wait"
    /\ engine' = [engine EXCEPT !.timer = "grace"]
    /\ UNCHANGED <<row, saved, leg, setup, sess, latch, early, hears, transfer, stops, told,
                   bounds>>

(* Fault: a menu is played again without counting.                         *)
ReplayUncounted == engine.timer = "grace" /\ Enter(engine.node, engine)
                   /\ UNCHANGED <<Steps, pressed>>

(* A silent caller hears the menu again a few times, or is hung up on, at  *)
(* the flow's hang-up node where it has one.                               *)
GraceEnds ==
    /\ engine.timer = "grace"
    /\ IF engine.node \notin Hangups
       THEN IF engine.replays = MaxReplays THEN Complete("hung_up", engine) /\ UNCHANGED saved
            ELSE Enter(engine.node, [engine EXCEPT !.replays = @ + 1])
       ELSE IF \E n \in Nodes : Kind[n] = "hangup"
            THEN Enter(CHOOSE n \in Nodes : Kind[n] = "hangup", engine)
            ELSE Complete("timeout", engine) /\ UNCHANGED saved
    /\ UNCHANGED <<Steps, pressed>>

-----------------------------------------------------------------------------
(* The transfer.  Where the target is not there, a message is played and   *)
(* the flow starts over or the call ends.                                  *)

CheckTarget ==
    /\ transfer = "check"
    /\ \/ /\ transfer' = "stopping" /\ BeginStop("flow", "transferred")
       \/ /\ transfer' \in {"hangup", "replay"}
          /\ UNCHANGED <<stops, latch, hears, engine>>
    /\ UNCHANGED <<row, saved, leg, setup, sess, early, told, bounds>>

HangUpAfterMessage ==
    /\ transfer = "hangup"
    /\ transfer' = "stopping" /\ BeginStop("flow", "hung_up")
    /\ UNCHANGED <<row, saved, leg, setup, sess, early, told, bounds>>

(* restart() puts the engine back and registers its key handler, which     *)
(* completing has dropped: that throws, and no node is entered.            *)
Replay ==
    /\ transfer = "replay"
    /\ transfer' = "none" /\ replayed' = TRUE
    /\ IF sess = "live"
       THEN /\ hears' = hears \cup {"complete"}
            /\ engine' = [engine EXCEPT !.runs = TRUE, !.node = None, !.replays = 0]
       ELSE UNCHANGED <<hears, engine>>
    /\ UNCHANGED <<row, saved, leg, setup, sess, latch, early, stops, told, pressed, crashes>>

Claimable == status = "RINGING" /\ ~agent /\ state # "IVR"

(* The call enters its queue, an agent's leg is made and an agent claimed. *)
Assign ==
    /\ transfer = "queue" /\ transfer' = "none"
    /\ agent' \in {agent, agent \/ Claimable}
    /\ UNCHANGED <<status, state, record, saved, leg, setup, session, stops, told, bounds>>

(* Fault: a queue's scan does not skip calls that are in their IVR.        *)
ScanClaimsAny ==
    /\ status = "RINGING" /\ ~agent /\ agent' = TRUE
    /\ UNCHANGED <<status, state, record, saved, leg, setup, session, transfer, stops, told,
                   bounds>>

ScanClaims ==
    /\ Claimable /\ agent' = TRUE
    /\ UNCHANGED <<status, state, record, saved, leg, setup, session, transfer, stops, told,
                   bounds>>

-----------------------------------------------------------------------------
(* The accept, and startSession.                                           *)

Accept ==
    /\ setup = "accept"
    /\ leg' = TRUE /\ setup' \in {"mark", "done"}
    /\ UNCHANGED <<row, saved, session, transfer, stops, told, bounds>>

Mark ==
    /\ setup = "mark" /\ setup' = "start"
    /\ status' = IF state = "IVR" THEN "IN_PROGRESS" ELSE status
    /\ UNCHANGED <<state, agent, record, saved, leg, session, transfer, stops, told, bounds>>

Resumes == crashes > 0

StartSession ==
    /\ setup = "start"
    /\ IF sess # "none" \/ latch THEN setup' = "done" /\ UNCHANGED <<sess, early>>
       ELSE setup' = "prepare" /\ sess' = "pending" /\ early' = FALSE
    /\ UNCHANGED <<row, saved, leg, latch, engine, hears, transfer, stops, told, bounds>>

Prepare ==
    /\ setup = "prepare"
    /\ \/ setup' = "create" /\ UNCHANGED sess
       \/ setup' = "done" /\ sess' = "none"
    /\ UNCHANGED <<row, saved, leg, latch, early, engine, hears, transfer, stops, told, bounds>>

CreateRecord ==
    /\ setup = "create" /\ setup' = "establish"
    /\ record' = IF Resumes THEN record ELSE "open"
    /\ UNCHANGED <<status, state, agent, saved, leg, session, transfer, stops, told, bounds>>

(* The flow ends as soon as it begins.                                     *)
HangsUpAtOnce(e) ==
    /\ engine' = Stopped(e) /\ hears' = {} /\ latch' = TRUE
    /\ stops' = [stops EXCEPT !["flow"] = [at |-> "close", outcome |-> "hung_up"]]
    /\ UNCHANGED transfer

EstablishedAt(n) ==
    LET ready == [Idle EXCEPT !.runs = TRUE, !.keys = "on", !.node = n]
    IN  CASE Kind[n] = "transfer" -> /\ engine' = Stopped(ready) /\ hears' = {"end"}
                                     /\ transfer' = "check" /\ UNCHANGED <<latch, stops>>
          [] Kind[n] = "hangup" -> HangsUpAtOnce(ready)
          [] Kind[n] \in Prompts /\ n \notin Audible ->
                 \/ /\ engine' = [ready EXCEPT !.sound = "error", !.keys = "gone"]
                    /\ hears' = {"complete", "end"} /\ UNCHANGED <<latch, transfer, stops>>
                 \/ HangsUpAtOnce(ready)
          [] OTHER -> /\ engine' = [ready EXCEPT !.sound = "prompt"]
                      /\ hears' = {"complete", "end"} /\ UNCHANGED <<latch, transfer, stops>>

Establish ==
    /\ setup = "establish" /\ setup' = "done"
    /\ IF early THEN /\ record' = "hung_up" /\ sess' = "none"
                     /\ UNCHANGED <<saved, latch, engine, hears, transfer, stops>>
       ELSE LET n == IF Resumes /\ saved # None THEN saved ELSE First
            IN  sess' = "live" /\ saved' = n /\ EstablishedAt(n) /\ UNCHANGED record
    /\ UNCHANGED <<status, state, agent, leg, early, told, bounds>>

-----------------------------------------------------------------------------
(* The end of the call, on this worker or another.                         *)

Ended(here) ==
    /\ status' = "TERMINATED" /\ state' = None
    /\ told' = ~here
    /\ UNCHANGED <<agent, record, saved, leg, setup, session, transfer, stops, bounds>>

(* A hang-up, by anyone.                                                   *)
HangUp == ~Over /\ told /\ \E here \in BOOLEAN : Ended(here)

(* The scans end calls that ring for too long: those with an agent that an *)
(* IVR handed over, and those without, unless they are in their IVR.       *)
(* Fault: only calls that ring at an agent.                                *)
RingsAtAgentTooLong == status = "RINGING" /\ agent

RingsTooLong == status = "RINGING" /\ ~(state = "IVR" /\ ~agent)
StuckScan == RingsTooLong /\ told /\ Ended(TRUE)

(* call:terminated on this worker: the latch is cleared, the guard of a    *)
(* set-up is set, and the session is stopped.                              *)
TellHere ==
    /\ ~told /\ told' = TRUE
    /\ early' = (early \/ sess = "pending")
    /\ IF "end" \in hears THEN BeginStop("end", "hung_up")
       ELSE latch' = FALSE /\ UNCHANGED <<stops, hears, engine>>
    /\ UNCHANGED <<row, saved, leg, setup, sess, transfer, bounds>>

CloseMedia ==
    /\ Over /\ leg /\ leg' = FALSE
    /\ UNCHANGED <<row, saved, setup, session, transfer, stops, told, bounds>>

-----------------------------------------------------------------------------
(* The worker dies; another takes the call over, at the saved node.        *)

Crash ==
    /\ crashes < MaxCrashes /\ setup # "adopt" /\ leg
    /\ crashes' = crashes + 1 /\ setup' = "adopt"
    /\ sess' = "none" /\ latch' = FALSE /\ early' = FALSE /\ engine' = Idle /\ hears' = {}
    /\ transfer' = "none" /\ stops' = [c \in Callers |-> NoStop] /\ told' = TRUE
    /\ UNCHANGED <<row, saved, leg, pressed, replayed>>

Adopt ==
    /\ setup = "adopt"
    /\ setup' = IF ~Over /\ saved # None THEN "start" ELSE "done"
    /\ saved' = IF Over THEN None ELSE saved
    /\ UNCHANGED <<row, leg, session, transfer, stops, told, bounds>>

-----------------------------------------------------------------------------
Engine == PromptEnds \/ PromptFails \/ ErrorEnds \/ NoInput \/ GraceEnds
SetUp == Accept \/ Mark \/ StartSession \/ Prepare \/ CreateRecord \/ Establish \/ Adopt
Stop(c) == CloseRecord(c) \/ SetState(c) \/ ForgetSession(c) \/ DropPosition(c) \/ AfterStop(c)
Transfer == CheckTarget \/ HangUpAfterMessage \/ Replay \/ Assign

Next ==
    \/ SetUp \/ Engine \/ Transfer \/ ScanClaims \/ HangUp \/ StuckScan \/ TellHere
    \/ CloseMedia \/ Crash
    \/ \E d \in Digits : PressDigit(d)
    \/ \E c \in Callers : Stop(c)

(* Handlers in flight, prompts, timers and scans go on.                    *)
Fairness ==
    /\ WF_vars(SetUp) /\ WF_vars(Engine) /\ WF_vars(Transfer) /\ WF_vars(StuckScan)
    /\ WF_vars(TellHere) /\ WF_vars(CloseMedia)
    /\ \A c \in Callers : WF_vars(Stop(c))

Spec == Init /\ [][Next]_vars /\ Fairness

-----------------------------------------------------------------------------
(* While the flow runs, no agent has the call: it is out of every queue's  *)
(* reach until the session lets go of it (stopSession, findOldest-         *)
(* UnassignedCalls), but for a flow that a crash had run twice.            *)
NoAgentDuringTheFlow == engine.runs /\ ~Resumes => ~agent

(* A caller who says nothing is let go: the session comes to an end        *)
(* (_executeTimeout, terminationHandler), unless it was replayed.          *)
SessionComesToAnEnd == sess # "none" ~> (sess = "none" \/ replayed)

(* A call that ended in the middle of its transfer, which brings it back   *)
(* to RINGING, is ended again (findAllStuckCalls).                         *)
EndedCallsEndAgain == Over ~> [](status = "RINGING" => <>Over)

-----------------------------------------------------------------------------
(* The inductive invariant behind NoAgentDuringTheFlow.                    *)

(* An engine that nothing will ever wake: no sound, no timer, no keys.     *)
Silent(e) == e.sound = "none" /\ e.timer = "none" /\ e.keys # "on"

(* The call is still its flow's: the session is being set up, the engine   *)
(* runs, or the transfer may yet start it again.                           *)
InFlow == setup # "done" \/ engine.runs \/ transfer \in {"check", "hangup", "replay"}

FlowInv ==
    /\ InFlow => ~agent /\ (state = "IVR" \/ Over)
    /\ ~told /\ InFlow => Over
    /\ stops["flow"].at # "none" => ~InFlow
    /\ stops["end"].at # "none" => stops["end"].outcome = "hung_up" /\ (InFlow => Over)
    /\ transfer # "none" => ~engine.runs
    /\ setup # "done" => /\ engine = Idle /\ hears = {} /\ transfer = "none"
                         /\ \A c \in Callers : stops[c].at = "none"

IInv ==
    /\ TypeOK
    /\ Over => state # "IVR"
    /\ setup = "adopt" => Resumes
    /\ ~engine.runs => Silent(engine)
    /\ ~Resumes => FlowInv

=============================================================================
