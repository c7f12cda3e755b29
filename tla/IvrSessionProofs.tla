---------------------------- MODULE IvrSessionProofs ----------------------------
(***************************************************************************)
(* Theorems about IvrSession, for every flow, any number of keys and of    *)
(* crashes.                                                                *)
(***************************************************************************)
EXTENDS IvrSession, TLAPS

USE NoneAssumption, BoundsAssumption DEF MaxReplays

-----------------------------------------------------------------------------
(* The engine's records.                                                   *)

(* A stopped engine does not run and is silent.                            *)
LEMMA StoppedEngine ==
    ASSUME NEW e \in Engines, e.runs \/ Silent(e)
    PROVE  /\ Stopped(e) \in Engines /\ ~Stopped(e).runs /\ Silent(Stopped(e))
           /\ Stopped(e).node = e.node
  <1>1. PICK k \in {"off", "on", "gone"} : k = (IF e.runs THEN "gone" ELSE e.keys) /\ k # "on"
    BY DEF Engines, Silent
  <1>2. Stopped(e) = [e EXCEPT !.runs = FALSE, !.sound = "none", !.timer = "none", !.keys = k]
    BY <1>1 DEF Stopped
  <1> QED
    BY <1>1, <1>2 DEF Engines, Silent

(* An engine whose node changes is an engine.                              *)
LEMMA MovedEngine ==
    ASSUME NEW e \in Engines, e.runs, NEW n \in Nodes \cup {None}, NEW k \in 0 .. MaxReplays,
           NEW here, here = [e EXCEPT !.node = n, !.sound = "none", !.timer = "none", !.replays = k]
    PROVE  here \in Engines /\ here.runs
  <1>1. "none" \in {"none", "prompt", "error"} /\ "none" \in {"none", "wait", "grace"}
    OBVIOUS
  <1>2. here = [node |-> n, runs |-> e.runs, keys |-> e.keys, sound |-> "none", timer |-> "none",
                replays |-> k]
    BY DEF Engines
  <1>3. e.runs \in BOOLEAN /\ e.keys \in {"off", "on", "gone"}
    BY DEF Engines
  <1>4. here \in Engines
    BY <1>2, <1>3 DEF Engines
  <1> QED
    BY <1>2, <1>4

(* A running engine that plays.                                            *)
LEMMA PlayingEngine ==
    ASSUME NEW e \in Engines, e.runs
    PROVE  [e EXCEPT !.sound = "prompt"] \in Engines /\ [e EXCEPT !.sound = "prompt"].runs
  BY DEF Engines

(* A running engine that waits for a key.                                  *)
LEMMA WaitingEngine ==
    ASSUME NEW e \in Engines, e.runs
    PROVE  /\ [e EXCEPT !.sound = "none", !.timer = "wait"] \in Engines
           /\ [e EXCEPT !.sound = "none", !.timer = "wait"].runs
  BY DEF Engines

(* It waits a little longer.                                               *)
LEMMA GraceEngine ==
    ASSUME NEW e \in Engines, e.runs
    PROVE  [e EXCEPT !.timer = "grace"] \in Engines /\ [e EXCEPT !.timer = "grace"].runs
  BY DEF Engines

(* It plays its menu once more.                                            *)
LEMMA ReplayingEngine ==
    ASSUME NEW e \in Engines, e.runs, e.replays # MaxReplays
    PROVE  /\ [e EXCEPT !.replays = @ + 1] \in Engines
           /\ [e EXCEPT !.replays = @ + 1].runs
  BY DEF Engines

(* It starts over, with no node.                                           *)
LEMMA RestartedEngine ==
    ASSUME NEW e \in Engines
    PROVE  /\ [e EXCEPT !.runs = TRUE, !.node = None, !.replays = 0] \in Engines
           /\ [e EXCEPT !.runs = TRUE, !.node = None, !.replays = 0].runs
  <1>1. 0 \in 0 .. MaxReplays
    OBVIOUS
  <1> QED
    BY <1>1 DEF Engines

(* Its node fails.                                                         *)
LEMMA FailingEngine ==
    ASSUME NEW e \in Engines, e.runs
    PROVE  /\ [e EXCEPT !.sound = "error", !.keys = "gone"] \in Engines
           /\ [e EXCEPT !.sound = "error", !.keys = "gone"].runs
  BY DEF Engines

(* An engine at rest is silent.                                            *)
LEMMA IdleEngine == Idle \in Engines /\ ~Idle.runs /\ Silent(Idle)
  BY DEF Idle, Engines, Silent

(* How a step of the engine may leave the session: the engine runs on, or  *)
(* it is stopped, and the transfer or the session's end begins.            *)
Ending ==
    /\ ~engine'.runs /\ Silent(engine')
    /\ \/ transfer' = "check" /\ stops' = stops
       \/ transfer' = transfer /\ stops'["end"] = stops["end"]

Advances ==
    /\ engine' \in Engines /\ latch' \in BOOLEAN /\ hears' \subseteq {"complete", "end"}
    /\ stops' \in [Callers -> Stops] /\ transfer' \in Transfers
    /\ \/ engine'.runs /\ UNCHANGED <<transfer, stops>>
       \/ Ending

(* The flow is over.                                                       *)
LEMMA CompleteAdvances ==
    ASSUME TypeOK, NEW outcome \in Outcomes, NEW e \in Engines, e.runs, Complete(outcome, e)
    PROVE  Advances
  <1>1. /\ Stopped(e) \in Engines /\ ~Stopped(e).runs /\ Silent(Stopped(e))
        /\ engine' = Stopped(e)
    BY StoppedEngine DEF Complete
  <1>2. [at |-> "close", outcome |-> outcome] \in Stops
    BY DEF Stops
  <1>3. /\ latch' \in BOOLEAN /\ hears' \subseteq {"complete", "end"}
        /\ stops' \in [Callers -> Stops] /\ transfer' \in Transfers
    BY <1>2 DEF Complete, TypeOK, Callers, Transfers
  <1>4. \/ transfer' = "check" /\ stops' = stops
        \/ transfer' = transfer /\ stops'["end"] = stops["end"]
    BY DEF Complete, TypeOK, Callers
  <1> QED
    BY <1>1, <1>3, <1>4 DEF Advances, Ending

(* It runs on.                                                             *)
LEMMA RunsOn ==
    ASSUME TypeOK, engine' \in Engines, engine'.runs, UNCHANGED <<hears, latch, transfer, stops>>
    PROVE  Advances
  BY DEF Advances, TypeOK

(* A node fails.                                                           *)
LEMMA FailsAdvances ==
    ASSUME TypeOK, NEW e \in Engines, e.runs, Fails(e)
    PROVE  Advances
  <1>1. CASE /\ engine' = [e EXCEPT !.sound = "error", !.timer = "none", !.keys = "gone"]
             /\ UNCHANGED <<hears, latch, transfer, stops>>
    BY <1>1 DEF Advances, Engines, TypeOK
  <1>2. CASE Complete("hung_up", e)
    BY <1>2, CompleteAdvances DEF Outcomes
  <1> QED
    BY <1>1, <1>2 DEF Fails

(* A node is entered.                                                      *)
LEMMA EnterAdvances ==
    ASSUME TypeOK, NEW e \in Engines, e.runs, NEW n \in Nodes \cup {None}, Enter(n, e)
    PROVE  Advances /\ saved' \in Nodes \cup {None}
  <1> DEFINE here == [e EXCEPT !.node = n, !.sound = "none", !.timer = "none",
                               !.replays = IF n = e.node THEN @ ELSE 0]
  <1>1. here \in Engines /\ here.runs
    <2>1. PICK k \in 0 .. MaxReplays : k = (IF n = e.node THEN e.replays ELSE 0)
      BY DEF Engines
    <2>2. here = [e EXCEPT !.node = n, !.sound = "none", !.timer = "none", !.replays = k]
      BY <2>1
    <2> HIDE DEF here
    <2> QED
      BY <2>1, <2>2, MovedEngine
  <1>2. \/ Complete("transferred", here) \/ Complete("hung_up", here) \/ Fails(here)
        \/ /\ engine' = [here EXCEPT !.sound = "prompt"]
           /\ UNCHANGED <<hears, latch, transfer, stops>>
    BY DEF Enter
  <1>3. saved' \in Nodes \cup {None}
    BY DEF Enter
  <1> HIDE DEF here
  <1>4. CASE /\ engine' = [here EXCEPT !.sound = "prompt"]
             /\ UNCHANGED <<hears, latch, transfer, stops>>
    <2>1. engine' \in Engines /\ engine'.runs
      BY <1>1, <1>4, PlayingEngine
    <2>2. UNCHANGED <<hears, latch, transfer, stops>>
      BY <1>4
    <2> QED
      BY <1>3, <2>1, <2>2, RunsOn
  <1> QED
    BY <1>1, <1>2, <1>3, <1>4, CompleteAdvances, FailsAdvances DEF Outcomes

(* The engine begins at node n.                                            *)
LEMMA EstablishedEngine ==
    ASSUME TypeOK, NEW n \in Nodes \cup {None}, EstablishedAt(n)
    PROVE  /\ engine' \in Engines /\ (~engine'.runs => Silent(engine'))
           /\ latch' \in BOOLEAN /\ hears' \subseteq {"complete", "end"}
           /\ stops' \in [Callers -> Stops] /\ transfer' \in Transfers
           /\ \/ UNCHANGED <<transfer, stops>>
              \/ /\ ~engine'.runs
                 /\ \/ transfer' = "check" /\ stops' = stops
                    \/ transfer' = transfer /\ stops'["end"] = stops["end"]
  <1> DEFINE ready == [Idle EXCEPT !.runs = TRUE, !.keys = "on", !.node = n]
  <1>1. ready \in Engines /\ ready.runs
    <2>1. 0 \in 0 .. MaxReplays
      OBVIOUS
    <2> QED
      BY <2>1 DEF Idle, Engines
  <1>2. \/ /\ engine' = Stopped(ready) /\ hears' = {"end"} /\ transfer' = "check"
           /\ UNCHANGED <<latch, stops>>
        \/ /\ engine' = Stopped(ready) /\ hears' = {} /\ latch' = TRUE /\ UNCHANGED transfer
           /\ stops' = [stops EXCEPT !["flow"] = [at |-> "close", outcome |-> "hung_up"]]
        \/ /\ engine' = [ready EXCEPT !.sound = "error", !.keys = "gone"]
           /\ hears' = {"complete", "end"} /\ UNCHANGED <<latch, transfer, stops>>
        \/ /\ engine' = [ready EXCEPT !.sound = "prompt"]
           /\ hears' = {"complete", "end"} /\ UNCHANGED <<latch, transfer, stops>>
    BY DEF EstablishedAt, HangsUpAtOnce
  <1> HIDE DEF ready
  <1>3. Stopped(ready) \in Engines /\ ~Stopped(ready).runs /\ Silent(Stopped(ready))
    BY <1>1, StoppedEngine
  <1>4. /\ [ready EXCEPT !.sound = "prompt"] \in Engines
        /\ [ready EXCEPT !.sound = "prompt"].runs
    BY <1>1, PlayingEngine
  <1>5. /\ [ready EXCEPT !.sound = "error", !.keys = "gone"] \in Engines
        /\ [ready EXCEPT !.sound = "error", !.keys = "gone"].runs
    BY <1>1, FailingEngine
  <1>6. [at |-> "close", outcome |-> "hung_up"] \in Stops
    BY DEF Stops, Outcomes
  <1>7. engine' \in Engines /\ (~engine'.runs => Silent(engine'))
    BY <1>2, <1>3, <1>4, <1>5
  <1>8. /\ latch' \in BOOLEAN /\ hears' \subseteq {"complete", "end"}
        /\ stops' \in [Callers -> Stops] /\ transfer' \in Transfers
    BY <1>2, <1>6 DEF TypeOK, Callers, Transfers
  <1>9. \/ UNCHANGED <<transfer, stops>>
        \/ engine' = Stopped(ready) /\ transfer' = "check" /\ stops' = stops
        \/ engine' = Stopped(ready) /\ transfer' = transfer /\ stops'["end"] = stops["end"]
    BY <1>2 DEF TypeOK, Callers
  <1> QED
    BY <1>3, <1>7, <1>8, <1>9

-----------------------------------------------------------------------------
(* What a step may do to the invariant.                                    *)

(* The engine goes on.                                                     *)
LEMMA EngineGoesOn ==
    ASSUME IInv, engine.runs, Advances, saved' \in Nodes \cup {None},
           pressed' \in 0 .. MaxDigits, UNCHANGED Steps
    PROVE  IInv'
  <1>1. TypeOK'
    BY DEF IInv, TypeOK, Advances, Steps, row
  <1>2. /\ (Over => state # "IVR")' /\ (setup = "adopt" => Resumes)'
        /\ (~engine.runs => Silent(engine))'
    BY DEF IInv, Over, Resumes, Steps, row, Advances, Ending
  <1>3. ASSUME ~Resumes' PROVE FlowInv'
    <2>1. FlowInv /\ transfer = "none" /\ InFlow
      BY <1>3 DEF IInv, FlowInv, Resumes, Steps, InFlow
    <2>2. setup = "done" /\ setup' = "done"
      BY <2>1 DEF FlowInv, Idle, Steps
    <2>3. ~agent' /\ (state' = "IVR" \/ Over') /\ (~told' => Over')
      BY <2>1 DEF FlowInv, Over, Steps, row
    <2>4. CASE engine'.runs /\ UNCHANGED <<transfer, stops>>
      BY <2>1, <2>2, <2>3, <2>4 DEF FlowInv, InFlow, Over, Steps, row
    <2>5. CASE Ending
      BY <2>1, <2>2, <2>3, <2>5 DEF Ending, FlowInv, InFlow, Over, Steps, row
    <2> QED
      BY <2>4, <2>5 DEF Advances
  <1> QED
    BY <1>1, <1>2, <1>3 DEF IInv

-----------------------------------------------------------------------------
(* The steps of the engine.                                                *)

(* Nothing is heard of an engine that a step leaves as it is.              *)
LEMMA Still ==
    ASSUME TypeOK, engine.runs, UNCHANGED <<engine, hears, latch, transfer, stops>>
    PROVE  Advances
  <1>1. engine' \in Engines /\ engine'.runs
    BY DEF TypeOK
  <1> QED
    BY <1>1, RunsOn

(* What sounds or waits runs.                                              *)
LEMMA AwakeRuns == IInv /\ (engine.sound # "none" \/ engine.timer # "none") => engine.runs
  BY DEF IInv, Silent

(* A key is pressed.                                                       *)
LEMMA PressDigitStep == IInv /\ (\E d \in Digits : PressDigit(d)) => IInv'
  <1> SUFFICES ASSUME IInv, NEW d \in Digits, PressDigit(d) PROVE IInv'
    OBVIOUS
  <1>1. TypeOK /\ engine \in Engines /\ engine.runs
    BY DEF IInv, TypeOK, PressDigit
  <1>2. pressed' \in 0 .. MaxDigits /\ UNCHANGED Steps
    BY <1>1 DEF PressDigit, TypeOK
  <1>3. CASE <<engine.node, d>> \in DOMAIN Follow /\ Enter(Follow[<<engine.node, d>>], engine)
    <2>1. Follow[<<engine.node, d>>] \in Nodes
      BY <1>3, FlowAssumption
    <2>2. Advances /\ saved' \in Nodes \cup {None}
      BY <1>1, <1>3, <2>1, EnterAdvances
    <2> QED
      BY <1>1, <1>2, <2>2, EngineGoesOn
  <1>4. CASE UNCHANGED <<saved, engine, hears, latch, transfer, stops>>
    <2>1. Advances /\ saved' \in Nodes \cup {None}
      BY <1>1, <1>4, Still DEF TypeOK
    <2> QED
      BY <1>1, <1>2, <2>1, EngineGoesOn
  <1> QED
    BY <1>3, <1>4 DEF PressDigit

(* A prompt ends: a menu waits, a play leads on, or the flow is over.      *)
LEMMA PromptEndsStep == IInv /\ PromptEnds => IInv'
  <1> SUFFICES ASSUME IInv, PromptEnds PROVE IInv'
    OBVIOUS
  <1>1. engine.runs /\ TypeOK /\ engine \in Engines /\ saved \in Nodes \cup {None}
    BY AwakeRuns DEF IInv, TypeOK, PromptEnds
  <1>2. pressed' \in 0 .. MaxDigits /\ UNCHANGED Steps
    BY <1>1 DEF PromptEnds, TypeOK
  <1>3. \/ /\ engine' = [engine EXCEPT !.sound = "none", !.timer = "wait"]
           /\ UNCHANGED <<saved, hears, latch, transfer, stops>>
        \/ /\ <<engine.node, "next">> \in DOMAIN Follow
           /\ Enter(Follow[<<engine.node, "next">>], engine)
        \/ Complete("hung_up", engine) /\ UNCHANGED saved
    BY DEF PromptEnds
  <1>4. CASE /\ engine' = [engine EXCEPT !.sound = "none", !.timer = "wait"]
             /\ UNCHANGED <<saved, hears, latch, transfer, stops>>
    <2>1. engine' \in Engines /\ engine'.runs
      BY <1>1, <1>4, WaitingEngine
    <2>2. Advances
      BY <1>1, <1>4, <2>1, RunsOn
    <2> QED
      BY <1>1, <1>2, <1>4, <2>2, EngineGoesOn
  <1>5. CASE /\ <<engine.node, "next">> \in DOMAIN Follow
             /\ Enter(Follow[<<engine.node, "next">>], engine)
    <2>1. Follow[<<engine.node, "next">>] \in Nodes
      BY <1>5, FlowAssumption
    <2>2. Advances /\ saved' \in Nodes \cup {None}
      BY <1>1, <1>5, <2>1, EnterAdvances
    <2> QED
      BY <1>1, <1>2, <2>2, EngineGoesOn
  <1>6. CASE Complete("hung_up", engine) /\ UNCHANGED saved
    BY <1>1, <1>2, <1>6, CompleteAdvances, EngineGoesOn DEF Outcomes
  <1> QED
    BY <1>3, <1>4, <1>5, <1>6

(* A prompt fails, or an error message has been played.                    *)
LEMMA SoundFailsStep == IInv /\ (PromptFails \/ ErrorEnds) => IInv'
  <1> SUFFICES ASSUME IInv, PromptFails \/ ErrorEnds PROVE IInv'
    OBVIOUS
  <1>1. engine.runs /\ TypeOK /\ engine \in Engines /\ saved' \in Nodes \cup {None}
    BY AwakeRuns DEF IInv, TypeOK, PromptFails, ErrorEnds
  <1>2. pressed' \in 0 .. MaxDigits /\ UNCHANGED Steps
    BY <1>1 DEF PromptFails, ErrorEnds, TypeOK
  <1>3. Fails(engine) \/ Complete("hung_up", engine)
    BY DEF PromptFails, ErrorEnds
  <1>4. Advances
    BY <1>1, <1>3, FailsAdvances, CompleteAdvances DEF Outcomes
  <1> QED
    BY <1>1, <1>2, <1>4, EngineGoesOn

(* The caller has been silent for a while.                                 *)
LEMMA NoInputStep == IInv /\ NoInput => IInv'
  <1> SUFFICES ASSUME IInv, NoInput PROVE IInv'
    OBVIOUS
  <1>1. engine.runs /\ TypeOK /\ engine \in Engines /\ saved' \in Nodes \cup {None}
    BY AwakeRuns DEF IInv, TypeOK, NoInput
  <1>2. pressed' \in 0 .. MaxDigits /\ UNCHANGED Steps
    BY <1>1 DEF NoInput, TypeOK, Steps, bounds
  <1>3. engine' = [engine EXCEPT !.timer = "grace"] /\ UNCHANGED <<hears, latch, transfer, stops>>
    BY DEF NoInput
  <1>4. engine' \in Engines /\ engine'.runs
    BY <1>1, <1>3, GraceEngine
  <1>5. Advances
    BY <1>1, <1>3, <1>4, RunsOn
  <1> QED
    BY <1>1, <1>2, <1>5, EngineGoesOn

(* And for longer: the menu again, or the end.                             *)
LEMMA GraceEndsStep == IInv /\ GraceEnds => IInv'
  <1> SUFFICES ASSUME IInv, GraceEnds PROVE IInv'
    OBVIOUS
  <1>1. engine.runs /\ TypeOK /\ engine \in Engines /\ saved \in Nodes \cup {None}
    BY AwakeRuns DEF IInv, TypeOK, GraceEnds
  <1>2. pressed' \in 0 .. MaxDigits /\ UNCHANGED Steps
    BY <1>1 DEF GraceEnds, TypeOK
  <1>3. \/ (Complete("hung_up", engine) \/ Complete("timeout", engine)) /\ UNCHANGED saved
        \/ /\ engine.replays # MaxReplays
           /\ Enter(engine.node, [engine EXCEPT !.replays = @ + 1])
        \/ \E n \in Nodes : Enter(n, engine)
    BY DEF GraceEnds
  <1>4. CASE (Complete("hung_up", engine) \/ Complete("timeout", engine)) /\ UNCHANGED saved
    <2>1. Advances
      BY <1>1, <1>4, CompleteAdvances DEF Outcomes
    <2> QED
      BY <1>1, <1>2, <1>4, <2>1, EngineGoesOn
  <1>5. CASE /\ engine.replays # MaxReplays
             /\ Enter(engine.node, [engine EXCEPT !.replays = @ + 1])
    <2>1. PICK e \in Engines : e.runs /\ Enter(engine.node, e)
      BY <1>1, <1>5, ReplayingEngine
    <2>2. engine.node \in Nodes \cup {None}
      BY <1>1 DEF Engines
    <2>3. Advances /\ saved' \in Nodes \cup {None}
      BY <1>1, <2>1, <2>2, EnterAdvances
    <2> QED
      BY <1>1, <1>2, <2>3, EngineGoesOn
  <1>6. CASE \E n \in Nodes : Enter(n, engine)
    <2>1. PICK n \in Nodes : Enter(n, engine)
      BY <1>6
    <2>2. Advances /\ saved' \in Nodes \cup {None}
      BY <1>1, <2>1, EnterAdvances
    <2> QED
      BY <1>1, <1>2, <2>2, EngineGoesOn
  <1> QED
    BY <1>3, <1>4, <1>5, <1>6

-----------------------------------------------------------------------------
(* stopSession().                                                          *)

(* What a step of a stop does to the type: stops[c] is at another step.    *)
LEMMA StopGoesOn ==
    ASSUME TypeOK, NEW c \in Callers, NEW at \in {"close", "state", "forget", "drop", "end"},
           StopGoes(c, at)
    PROVE  /\ stops' \in [Callers -> Stops] /\ stops'[c].at = at
           /\ stops'[c].outcome = stops[c].outcome
           /\ \A b \in Callers : b # c => stops'[b] = stops[b]
  <1>1. stops[c] \in Stops
    BY DEF TypeOK
  <1>2. /\ [stops[c] EXCEPT !.at = at] \in Stops /\ [stops[c] EXCEPT !.at = at].at = at
        /\ [stops[c] EXCEPT !.at = at].outcome = stops[c].outcome
    BY <1>1 DEF Stops
  <1> QED
    BY <1>2 DEF StopGoes, TypeOK

(* A stop that has begun goes on without a change to the rest of the flow. *)
LEMMA StopStays ==
    ASSUME IInv, TypeOK', NEW c \in Callers, stops[c].at # "none",
           stops'[c].outcome = stops[c].outcome,
           \A b \in Callers : b # c => stops'[b] = stops[b],
           UNCHANGED <<status, state, agent, setup, engine, hears, transfer, told, crashes>>
    PROVE  IInv'
  <1>1. /\ (Over => state # "IVR")' /\ (setup = "adopt" => Resumes)'
        /\ (~engine.runs => Silent(engine))'
    BY DEF IInv, Over, Resumes
  <1>2. ASSUME ~Resumes' PROVE FlowInv'
    <2>1. FlowInv /\ InFlow' = InFlow /\ Over' = Over
      BY <1>2 DEF IInv, Resumes, InFlow, Over
    <2>2. setup = "done"
      BY <2>1 DEF FlowInv
    <2> QED
      BY <2>1, <2>2 DEF FlowInv, Callers
  <1> QED
    BY <1>1, <1>2 DEF IInv

(* The session's row is closed.                                            *)
LEMMA CloseRecordStep == IInv /\ (\E c \in Callers : CloseRecord(c)) => IInv'
  <1> SUFFICES ASSUME IInv, NEW c \in Callers, CloseRecord(c) PROVE IInv'
    OBVIOUS
  <1>1. TypeOK /\ stops[c].at = "close" /\ StopGoes(c, "state") /\ record' = stops[c].outcome
        /\ UNCHANGED <<status, state, agent, saved, leg, setup, session, transfer, told, bounds>>
    BY DEF IInv, CloseRecord
  <1>2. stops[c].outcome \in Outcomes
    BY <1>1 DEF TypeOK, Stops
  <1>3. TypeOK'
    BY <1>1, <1>2, StopGoesOn DEF TypeOK, session, bounds
  <1> QED
    BY <1>1, <1>3, StopGoesOn, StopStays DEF session, bounds

(* The session is forgotten, and its position.                             *)
LEMMA ForgetStep == IInv /\ (\E c \in Callers : ForgetSession(c) \/ DropPosition(c)) => IInv'
  <1> SUFFICES ASSUME IInv, NEW c \in Callers, ForgetSession(c) \/ DropPosition(c) PROVE IInv'
    OBVIOUS
  <1>1. PICK at \in {"drop", "end"} : StopGoes(c, at)
    BY DEF ForgetSession, DropPosition
  <1>2. /\ TypeOK /\ stops[c].at # "none" /\ sess' \in {"none", sess} /\ saved' \in {None, saved}
        /\ UNCHANGED <<row, leg, setup, latch, early, engine, hears, transfer, told, bounds>>
    BY DEF IInv, ForgetSession, DropPosition, session
  <1>3. TypeOK'
    BY <1>1, <1>2, StopGoesOn DEF TypeOK, row, bounds
  <1> QED
    BY <1>1, <1>2, <1>3, StopGoesOn, StopStays DEF row, bounds

(* The call's state: it rings in its queue, or has none.                   *)
LEMMA SetStateStep == IInv /\ (\E c \in Callers : SetState(c)) => IInv'
  <1> SUFFICES ASSUME IInv, NEW c \in Callers, SetState(c) PROVE IInv'
    OBVIOUS
  <1>1. /\ TypeOK /\ stops[c].at = "state" /\ StopGoes(c, "forget")
        /\ UNCHANGED <<agent, record, saved, leg, setup, session, transfer, told, bounds>>
    BY DEF IInv, SetState
  <1>2. \/ stops[c].outcome = "transferred" /\ state' = "QUEUE" /\ status' = "RINGING"
        \/ stops[c].outcome # "transferred" /\ state' = None /\ UNCHANGED status
    BY DEF SetState
  <1>3. TypeOK'
    BY <1>1, <1>2, StopGoesOn DEF TypeOK, session, bounds, Statuses
  <1>4. /\ (Over => state # "IVR")' /\ (setup = "adopt" => Resumes)'
        /\ (~engine.runs => Silent(engine))'
    BY <1>1, <1>2 DEF IInv, Over, Resumes, session, bounds
  <1>5. ASSUME ~Resumes' PROVE FlowInv'
    <2>1. FlowInv /\ InFlow' = InFlow
      BY <1>1, <1>5 DEF IInv, Resumes, InFlow, session, bounds
    <2>2. setup = "done" /\ (InFlow => Over /\ c = "end" /\ Over')
      BY <1>1, <1>2, <2>1 DEF FlowInv, Over, Callers
    <2> QED
      BY <1>1, <2>1, <2>2, StopGoesOn DEF FlowInv, Callers, session, bounds
  <1> QED
    BY <1>3, <1>4, <1>5 DEF IInv

(* What waited for the stop goes on.                                       *)
LEMMA AfterStopStep == IInv /\ (\E c \in Callers : AfterStop(c)) => IInv'
  <1> SUFFICES ASSUME IInv, NEW c \in Callers, AfterStop(c) PROVE IInv'
    OBVIOUS
  <1>1. /\ TypeOK /\ stops[c].at = "end" /\ stops' = [stops EXCEPT ![c] = NoStop]
        /\ UNCHANGED <<agent, record, saved, leg, setup, session, bounds>>
    BY DEF IInv, AfterStop
  <1>2. /\ stops' \in [Callers -> Stops] /\ stops'[c].at = "none"
        /\ \A b \in Callers : b # c => stops'[b] = stops[b]
    BY <1>1 DEF TypeOK, NoStop, Stops, Outcomes
  <1>3. /\ transfer' \in IF c = "flow" THEN {"queue", "none"} ELSE {transfer}
        /\ \/ UNCHANGED <<status, state, told>>
           \/ status' = "TERMINATED" /\ state' = None /\ told' = FALSE
    BY DEF AfterStop
  <1>4. TypeOK'
    <2>1. transfer' \in Transfers
      BY <1>1, <1>3 DEF TypeOK, Transfers
    <2>2. status' \in Statuses /\ state' \in {"IVR", "QUEUE", None} /\ told' \in BOOLEAN
      BY <1>1, <1>3 DEF TypeOK, Statuses
    <2> QED
      BY <1>1, <1>2, <2>1, <2>2 DEF TypeOK, session, bounds
  <1>5. /\ (Over => state # "IVR")' /\ (setup = "adopt" => Resumes)'
        /\ (~engine.runs => Silent(engine))'
    BY <1>1, <1>3 DEF IInv, Over, Resumes, session, bounds
  <1>6. ASSUME ~Resumes' PROVE FlowInv'
    <2>1. FlowInv /\ setup = "done" /\ setup' = "done"
      BY <1>1, <1>6 DEF IInv, Resumes, FlowInv, session, bounds
    <2>2. Over => Over'
      BY <1>3 DEF Over
    <2>3. CASE c = "flow"
      <3>1. ~InFlow /\ ~InFlow'
        BY <1>1, <1>3, <2>1, <2>3 DEF FlowInv, InFlow, session
      <3> QED
        BY <1>1, <1>2, <1>3, <2>1, <2>3, <3>1 DEF FlowInv, InFlow, Callers, session
    <2>4. CASE c = "end"
      <3>1. (InFlow' => InFlow) /\ (InFlow => Over)
        BY <1>1, <1>3, <2>1, <2>4 DEF FlowInv, InFlow, session
      <3> QED
        BY <1>1, <1>2, <1>3, <2>1, <2>2, <2>4, <3>1 DEF FlowInv, Callers, session
    <2> QED
      BY <2>3, <2>4 DEF Callers
  <1> QED
    BY <1>4, <1>5, <1>6 DEF IInv

-----------------------------------------------------------------------------
(* The transfer.                                                           *)

(* stopSession() at once.                                                  *)
LEMMA StopBegins ==
    ASSUME IInv, NEW c \in Callers, NEW outcome \in Outcomes, BeginStop(c, outcome)
    PROVE  /\ stops' \in [Callers -> Stops] /\ stops'[c].outcome = outcome
           /\ \A b \in Callers : b # c => stops'[b] = stops[b]
           /\ latch' \in BOOLEAN /\ hears' \subseteq {"complete", "end"} /\ engine' \in Engines
           /\ engine' = engine \/ ~engine'.runs
           /\ ~engine'.runs => Silent(engine')
  <1>1. PICK at \in {"close", "end"} :
            stops' = [stops EXCEPT ![c] = [at |-> at, outcome |-> outcome]]
    BY DEF BeginStop
  <1>2. [at |-> at, outcome |-> outcome] \in Stops
    BY DEF Stops
  <1>3. /\ stops' \in [Callers -> Stops] /\ stops'[c].outcome = outcome
        /\ \A b \in Callers : b # c => stops'[b] = stops[b]
    BY <1>1, <1>2 DEF IInv, TypeOK
  <1>4. /\ latch' \in BOOLEAN /\ hears' \subseteq {"complete", "end"}
        /\ engine' = engine \/ engine' = Stopped(engine)
    BY DEF BeginStop, IInv, TypeOK
  <1>5. engine \in Engines /\ (engine.runs \/ Silent(engine))
    BY DEF IInv, TypeOK
  <1> QED
    BY <1>3, <1>4, <1>5, StoppedEngine

(* The flow's transfer stops the session, unless there is none.            *)
LEMMA StoppingStep ==
    ASSUME IInv, transfer \in {"check", "hangup"}, transfer' = "stopping",
           NEW outcome \in Outcomes, BeginStop("flow", outcome),
           UNCHANGED <<row, saved, leg, setup, sess, early, told, bounds>>
    PROVE  IInv'
  <1>0. "flow" \in Callers
    BY DEF Callers
  <1>1. TypeOK'
    BY <1>0, StopBegins DEF IInv, TypeOK, row, bounds, Transfers
  <1>2. /\ (Over => state # "IVR")' /\ (setup = "adopt" => Resumes)'
        /\ (~engine.runs => Silent(engine))'
    BY <1>0, StopBegins DEF IInv, Over, Resumes, row, bounds
  <1>3. ASSUME ~Resumes' PROVE FlowInv'
    <2>1. FlowInv
      BY <1>3 DEF IInv, Resumes, bounds
    <2>2. ~engine.runs /\ setup = "done" /\ setup' = "done"
      BY <2>1 DEF FlowInv
    <2>3. ~engine'.runs
      BY <1>0, <2>2, StopBegins
    <2>4. ~InFlow'
      BY <2>2, <2>3 DEF InFlow
    <2>5. stops'["end"] = stops["end"]
      BY <1>0, StopBegins DEF Callers
    <2> QED
      BY <2>1, <2>2, <2>3, <2>4, <2>5 DEF FlowInv
  <1> QED
    BY <1>1, <1>2, <1>3 DEF IInv

(* The target is there, or a message is played.                            *)
LEMMA CheckTargetStep == IInv /\ CheckTarget => IInv'
  <1> SUFFICES ASSUME IInv, CheckTarget PROVE IInv'
    OBVIOUS
  <1>1. CASE transfer' = "stopping" /\ BeginStop("flow", "transferred")
    BY <1>1, StoppingStep DEF CheckTarget, Outcomes
  <1>2. CASE /\ transfer' \in {"hangup", "replay"} /\ UNCHANGED <<stops, latch, hears, engine>>
    <2>1. transfer = "check" /\ UNCHANGED <<row, saved, leg, setup, sess, early, told, bounds>>
      BY DEF CheckTarget
    <2>2. TypeOK'
      BY <1>2, <2>1 DEF IInv, TypeOK, row, bounds, Transfers
    <2>3. InFlow' /\ InFlow /\ Over' = Over
      BY <1>2, <2>1 DEF InFlow, Over, row
    <2> QED
      BY <1>2, <2>1, <2>2, <2>3 DEF IInv, FlowInv, Over, Resumes, row, bounds
  <1> QED
    BY <1>1, <1>2 DEF CheckTarget

(* The message has been played.                                            *)
LEMMA HangUpAfterMessageStep == IInv /\ HangUpAfterMessage => IInv'
  BY StoppingStep DEF HangUpAfterMessage, Outcomes

(* The flow starts over, with an engine that enters no node.               *)
LEMMA ReplayStep == IInv /\ Replay => IInv'
  <1> SUFFICES ASSUME IInv, Replay PROVE IInv'
    OBVIOUS
  <1>1. /\ TypeOK /\ engine \in Engines /\ transfer = "replay" /\ transfer' = "none"
        /\ UNCHANGED <<status, state, agent, record, saved, leg, setup, sess, latch, early, stops,
                       told, pressed, crashes>>
    BY DEF IInv, TypeOK, Replay, row
  <1>2. engine' \in Engines /\ (~engine'.runs => Silent(engine'))
    BY <1>1, RestartedEngine DEF Replay, IInv
  <1>3. hears' \subseteq {"complete", "end"} /\ replayed' \in BOOLEAN
    BY <1>1 DEF Replay, TypeOK
  <1>4. TypeOK'
    BY <1>1, <1>2, <1>3 DEF TypeOK, Transfers
  <1>5. /\ (Over => state # "IVR")' /\ (setup = "adopt" => Resumes)' /\ (Resumes' = Resumes)
    BY <1>1 DEF IInv, Over, Resumes
  <1>6. ASSUME ~Resumes' PROVE FlowInv'
    <2>1. FlowInv /\ InFlow /\ setup = "done" /\ setup' = "done"
      BY <1>1, <1>5, <1>6 DEF IInv, FlowInv, InFlow
    <2> QED
      BY <1>1, <2>1 DEF FlowInv, Over
  <1> QED
    BY <1>2, <1>4, <1>5, <1>6 DEF IInv

(* The call is no flow's any more: an agent may have it.                   *)
LEMMA AgentTakes ==
    ASSUME IInv, ~Resumes => ~InFlow /\ ~InFlow', agent' \in BOOLEAN, transfer' \in {transfer, "none"},
           UNCHANGED <<status, state, record, saved, leg, setup, session, stops, told, bounds>>
    PROVE  IInv'
  <1>1. TypeOK'
    BY DEF IInv, TypeOK, session, bounds, Transfers
  <1>2. setup # "done" => InFlow
    BY DEF InFlow
  <1> QED
    BY <1>1, <1>2 DEF IInv, FlowInv, Over, Resumes, session, bounds

(* The queue assigns an agent.                                             *)
LEMMA AssignStep == IInv /\ Assign => IInv'
  <1> SUFFICES ASSUME IInv, Assign PROVE IInv'
    OBVIOUS
  <1>1. ~Resumes => ~InFlow /\ ~InFlow'
    BY DEF Assign, IInv, FlowInv, InFlow, session
  <1>2. agent' \in BOOLEAN
    BY DEF Assign, IInv, TypeOK
  <1> QED
    BY <1>1, <1>2, AgentTakes DEF Assign

(* A scan of the queue does.                                               *)
LEMMA ScanClaimsStep == IInv /\ ScanClaims => IInv'
  <1> SUFFICES ASSUME IInv, ScanClaims PROVE IInv'
    OBVIOUS
  <1>1. ~Resumes => ~InFlow /\ ~InFlow'
    BY DEF ScanClaims, Claimable, IInv, FlowInv, InFlow, Over, session
  <1> QED
    BY <1>1, AgentTakes DEF ScanClaims

-----------------------------------------------------------------------------
(* The accept, and startSession.                                           *)

(* A step of the set-up, with the engine at rest.                          *)
LEMMA SetUpGoesOn ==
    ASSUME IInv, TypeOK', setup # "done", setup' # "adopt", state' = state,
           status' = status \/ (state = "IVR" /\ status' = "IN_PROGRESS"),
           UNCHANGED <<agent, engine, hears, transfer, stops, told, crashes>>
    PROVE  IInv'
  <1>1. /\ (Over => state # "IVR")' /\ (setup = "adopt" => Resumes)'
        /\ (~engine.runs => Silent(engine))' /\ Resumes' = Resumes
    BY DEF IInv, Over, Resumes
  <1>2. ASSUME ~Resumes' PROVE FlowInv'
    <2>1. FlowInv /\ InFlow /\ (Over => Over')
      BY <1>1, <1>2 DEF IInv, InFlow, Over
    <2>2. engine = Idle /\ hears = {} /\ transfer = "none" /\ \A c \in Callers : stops[c].at = "none"
      BY <2>1 DEF FlowInv
    <2>3. "flow" \in Callers /\ "end" \in Callers
      BY DEF Callers
    <2>4. ~agent' /\ (state' = "IVR" \/ Over') /\ (~told' => Over')
      BY <2>1 DEF FlowInv
    <2> QED
      BY <2>2, <2>3, <2>4 DEF FlowInv
  <1> QED
    BY <1>1, <1>2 DEF IInv

(* The customer's leg is made, or that fails.                              *)
LEMMA AcceptStep == IInv /\ Accept => IInv'
  <1> SUFFICES ASSUME IInv, Accept PROVE IInv'
    OBVIOUS
  <1>1. TypeOK' /\ setup # "done" /\ setup' # "adopt"
    BY DEF Accept, IInv, TypeOK, row, session, bounds, Setups
  <1>2. /\ state' = state /\ (status' = status \/ (state = "IVR" /\ status' = "IN_PROGRESS"))
        /\ UNCHANGED <<agent, engine, hears, transfer, stops, told, crashes>>
    BY DEF Accept, row, session, bounds
  <1> QED
    BY <1>1, <1>2, SetUpGoesOn

(* The call is in progress, if it is still its flow's.                     *)
LEMMA MarkStep == IInv /\ Mark => IInv'
  <1> SUFFICES ASSUME IInv, Mark PROVE IInv'
    OBVIOUS
  <1>1. TypeOK' /\ setup # "done" /\ setup' # "adopt"
    BY DEF Mark, IInv, TypeOK, Statuses, session, bounds, Setups
  <1>2. /\ state' = state /\ (status' = status \/ (state = "IVR" /\ status' = "IN_PROGRESS"))
        /\ UNCHANGED <<agent, engine, hears, transfer, stops, told, crashes>>
    BY DEF Mark, session, bounds
  <1> QED
    BY <1>1, <1>2, SetUpGoesOn

(* The session is looked for, prepared and written down.                   *)
LEMMA PrepareStep == IInv /\ (StartSession \/ Prepare \/ CreateRecord) => IInv'
  <1> SUFFICES ASSUME IInv, StartSession \/ Prepare \/ CreateRecord PROVE IInv'
    OBVIOUS
  <1>1. /\ setup \in {"start", "prepare", "create"}
        /\ setup' \in {"done", "prepare", "create", "establish"}
        /\ sess' \in {sess, "pending", "none"} /\ record' \in {record, "open"}
        /\ UNCHANGED <<status, state, agent, saved, leg, latch, engine, hears, transfer, stops, told,
                       bounds>>
    BY DEF StartSession, Prepare, CreateRecord, row, session
  <1>2. TypeOK'
    <2>1. setup' \in Setups /\ sess' \in {"none", "pending", "live"}
      BY <1>1 DEF IInv, TypeOK, Setups
    <2>2. early' \in BOOLEAN
      BY DEF StartSession, Prepare, CreateRecord, IInv, TypeOK, session
    <2>3. record' \in Outcomes \cup {"none", "open"}
      BY <1>1 DEF IInv, TypeOK
    <2> QED
      BY <1>1, <2>1, <2>2, <2>3 DEF IInv, TypeOK, bounds
  <1>3. /\ state' = state /\ (status' = status \/ (state = "IVR" /\ status' = "IN_PROGRESS"))
        /\ UNCHANGED <<agent, engine, hears, transfer, stops, told, crashes>>
    BY <1>1 DEF bounds
  <1>4. setup # "done" /\ setup' # "adopt"
    BY <1>1
  <1> QED
    BY <1>2, <1>3, <1>4, SetUpGoesOn

(* The engine starts, unless the call's end was heard of meanwhile.        *)
LEMMA EstablishStep == IInv /\ Establish => IInv'
  <1> SUFFICES ASSUME IInv, Establish PROVE IInv'
    OBVIOUS
  <1>1. /\ TypeOK /\ setup = "establish" /\ setup' = "done"
        /\ UNCHANGED <<status, state, agent, leg, early, told, bounds>>
    BY DEF IInv, Establish
  <1>2. CASE /\ record' = "hung_up" /\ sess' = "none"
             /\ UNCHANGED <<saved, latch, engine, hears, transfer, stops>>
    <2>1. TypeOK'
      BY <1>1, <1>2 DEF TypeOK, bounds, Outcomes, Setups
    <2>2. /\ state' = state /\ (status' = status \/ (state = "IVR" /\ status' = "IN_PROGRESS"))
          /\ UNCHANGED <<agent, engine, hears, transfer, stops, told, crashes>>
      BY <1>1, <1>2 DEF bounds
    <2>3. setup # "done" /\ setup' # "adopt"
      BY <1>1
    <2> QED
      BY <2>1, <2>2, <2>3, SetUpGoesOn
  <1>3. CASE \E n \in Nodes \cup {None} :
                 sess' = "live" /\ saved' = n /\ EstablishedAt(n) /\ UNCHANGED record
    <2>1. PICK n \in Nodes \cup {None} :
              sess' = "live" /\ saved' = n /\ EstablishedAt(n) /\ UNCHANGED record
      BY <1>3
    <2>2. /\ engine' \in Engines /\ (~engine'.runs => Silent(engine'))
          /\ latch' \in BOOLEAN /\ hears' \subseteq {"complete", "end"}
          /\ stops' \in [Callers -> Stops] /\ transfer' \in Transfers
          /\ \/ UNCHANGED <<transfer, stops>>
             \/ /\ ~engine'.runs
                /\ \/ transfer' = "check" /\ stops' = stops
                   \/ transfer' = transfer /\ stops'["end"] = stops["end"]
      BY <1>1, <2>1, EstablishedEngine
    <2>3. TypeOK'
      BY <1>1, <2>1, <2>2 DEF TypeOK, bounds, Setups
    <2>4. /\ (Over => state # "IVR")' /\ (setup = "adopt" => Resumes)' /\ Resumes' = Resumes
      BY <1>1 DEF IInv, Over, Resumes, bounds
    <2>5. ASSUME ~Resumes' PROVE FlowInv'
      <3>1. FlowInv /\ InFlow /\ Over' = Over
        BY <1>1, <2>4, <2>5 DEF IInv, InFlow, Over
      <3>2. transfer = "none" /\ stops["flow"].at = "none" /\ stops["end"].at = "none"
        BY <1>1, <3>1 DEF FlowInv, Callers
      <3>3. ~agent' /\ (state' = "IVR" \/ Over') /\ (~told' => Over')
        BY <1>1, <3>1 DEF FlowInv
      <3> QED
        BY <1>1, <2>2, <3>2, <3>3 DEF FlowInv, InFlow
    <2> QED
      BY <2>2, <2>3, <2>4, <2>5 DEF IInv
  <1>4. First \in Nodes /\ saved \in Nodes \cup {None}
    BY <1>1, FlowAssumption DEF TypeOK
  <1> QED
    BY <1>2, <1>3, <1>4 DEF Establish

(* Another worker takes the call over.                                     *)
LEMMA AdoptStep == IInv /\ Adopt => IInv'
  <1> SUFFICES ASSUME IInv, Adopt PROVE IInv'
    OBVIOUS
  <1>1. /\ TypeOK /\ setup = "adopt" /\ setup' \in {"start", "done"} /\ saved' \in {None, saved}
        /\ UNCHANGED <<row, leg, session, transfer, stops, told, bounds>>
    BY DEF IInv, Adopt
  <1>2. TypeOK'
    BY <1>1 DEF TypeOK, row, session, bounds, Setups
  <1>3. Resumes'
    BY <1>1 DEF IInv, Resumes, bounds
  <1>4. /\ (Over => state # "IVR")' /\ (~engine.runs => Silent(engine))'
    BY <1>1 DEF IInv, Over, row, session
  <1> QED
    BY <1>2, <1>3, <1>4 DEF IInv

-----------------------------------------------------------------------------
(* The end of the call, and of the worker.                                 *)

(* The call ends, on this worker or on another.                            *)
LEMMA EndedStep == IInv /\ (HangUp \/ StuckScan) => IInv'
  <1> SUFFICES ASSUME IInv, NEW here \in BOOLEAN, Ended(here) PROVE IInv'
    BY DEF HangUp, StuckScan
  <1>1. /\ TypeOK /\ status' = "TERMINATED" /\ state' = None /\ told' \in BOOLEAN
        /\ UNCHANGED <<agent, record, saved, leg, setup, session, transfer, stops, bounds>>
    BY DEF IInv, Ended
  <1>2. TypeOK'
    BY <1>1 DEF TypeOK, session, bounds, Statuses
  <1>3. /\ (Over => state # "IVR")' /\ (setup = "adopt" => Resumes)'
        /\ (~engine.runs => Silent(engine))'
    BY <1>1 DEF IInv, Over, Resumes, session, bounds
  <1>4. ASSUME ~Resumes' PROVE FlowInv'
    <2>1. FlowInv /\ InFlow' = InFlow /\ Over'
      BY <1>1, <1>4 DEF IInv, InFlow, Over, Resumes, session, bounds
    <2> QED
      BY <1>1, <2>1 DEF FlowInv, session
  <1> QED
    BY <1>2, <1>3, <1>4 DEF IInv

(* The worker tells of an end of its own.                                  *)
LEMMA TellHereStep == IInv /\ TellHere => IInv'
  <1> SUFFICES ASSUME IInv, TellHere PROVE IInv'
    OBVIOUS
  <1>1. /\ TypeOK /\ ~told /\ told' = TRUE
        /\ UNCHANGED <<row, saved, leg, setup, sess, transfer, bounds>>
    BY DEF IInv, TellHere
  <1>2. early' \in BOOLEAN
    BY <1>1 DEF TellHere, TypeOK
  <1>3. CASE latch' = FALSE /\ UNCHANGED <<stops, hears, engine>>
    <2>1. TypeOK'
      BY <1>1, <1>2, <1>3 DEF TypeOK, row, bounds
    <2> QED
      BY <1>1, <1>3, <2>1 DEF IInv, FlowInv, InFlow, Over, Resumes, row, bounds
  <1>4. CASE "end" \in hears /\ BeginStop("end", "hung_up")
    <2>1. /\ stops' \in [Callers -> Stops] /\ stops'["end"].outcome = "hung_up"
          /\ stops'["flow"] = stops["flow"]
          /\ latch' \in BOOLEAN /\ hears' \subseteq {"complete", "end"} /\ engine' \in Engines
          /\ (engine' = engine \/ ~engine'.runs) /\ (~engine'.runs => Silent(engine'))
      BY <1>4, StopBegins DEF Callers, Outcomes
    <2>2. TypeOK'
      BY <1>1, <1>2, <2>1 DEF TypeOK, row, bounds
    <2>3. /\ (Over => state # "IVR")' /\ (setup = "adopt" => Resumes)' /\ Resumes' = Resumes
      BY <1>1 DEF IInv, Over, Resumes, row, bounds
    <2>4. ASSUME ~Resumes' PROVE FlowInv'
      <3>1. FlowInv /\ Over' = Over
        BY <1>1, <2>3, <2>4 DEF IInv, Over, row
      <3>2. (InFlow' => InFlow) /\ (InFlow => Over)
        BY <1>1, <2>1, <3>1 DEF InFlow, FlowInv
      <3>3. setup = "done"
        BY <1>4, <3>1 DEF FlowInv
      <3> QED
        BY <1>1, <2>1, <3>1, <3>2, <3>3 DEF FlowInv, row
    <2> QED
      BY <2>1, <2>2, <2>3, <2>4 DEF IInv
  <1> QED
    BY <1>3, <1>4 DEF TellHere

(* The customer's leg goes.                                                *)
LEMMA CloseMediaStep == IInv /\ CloseMedia => IInv'
  <1> SUFFICES ASSUME IInv, CloseMedia PROVE IInv'
    OBVIOUS
  <1>1. /\ TypeOK /\ leg' = FALSE
        /\ UNCHANGED <<row, saved, setup, session, transfer, stops, told, bounds>>
    BY DEF IInv, CloseMedia
  <1>2. TypeOK'
    BY <1>1 DEF TypeOK, row, session, bounds
  <1> QED
    BY <1>1, <1>2 DEF IInv, FlowInv, InFlow, Over, Resumes, row, session, bounds

(* The worker dies: what follows is a call that resumes.                   *)
LEMMA CrashStep == IInv /\ Crash => IInv'
  <1> SUFFICES ASSUME IInv, Crash PROVE IInv'
    OBVIOUS
  <1>1. /\ TypeOK /\ crashes < MaxCrashes /\ crashes' = crashes + 1 /\ setup' = "adopt"
        /\ sess' = "none" /\ latch' = FALSE /\ early' = FALSE /\ engine' = Idle /\ hears' = {}
        /\ transfer' = "none" /\ stops' = [c \in Callers |-> NoStop] /\ told' = TRUE
        /\ UNCHANGED <<row, saved, leg, pressed, replayed>>
    BY DEF IInv, Crash
  <1>2. Resumes' /\ crashes' \in 0 .. MaxCrashes
    BY <1>1 DEF TypeOK, Resumes
  <1>3. NoStop \in Stops
    BY DEF NoStop, Stops, Outcomes
  <1>4. TypeOK'
    BY <1>1, <1>2, <1>3, IdleEngine DEF TypeOK, row, Setups, Transfers
  <1>5. /\ (Over => state # "IVR")' /\ (~engine.runs => Silent(engine))'
    BY <1>1, IdleEngine DEF IInv, Over, row
  <1> QED
    BY <1>2, <1>4, <1>5 DEF IInv

-----------------------------------------------------------------------------
(* The invariant.                                                          *)

(* Before the call is accepted.                                            *)
LEMMA InitStep == Init => IInv
  <1> SUFFICES ASSUME Init PROVE IInv
    OBVIOUS
  <1>1. NoStop \in Stops /\ NoStop.at = "none"
    BY DEF NoStop, Stops, Outcomes
  <1>2. /\ stops \in [Callers -> Stops]
        /\ \A c \in Callers : stops[c].at = "none"
    BY <1>1 DEF Init
  <1>3. TypeOK
    <2>1. engine \in Engines
      BY IdleEngine DEF Init
    <2>2. /\ status \in Statuses /\ setup \in Setups /\ transfer \in Transfers
          /\ state = "IVR" /\ record = "none" /\ sess = "none"
      BY DEF Init, Statuses, Setups, Transfers
    <2>3. /\ agent \in BOOLEAN /\ leg \in BOOLEAN /\ latch \in BOOLEAN /\ early \in BOOLEAN
          /\ told \in BOOLEAN /\ replayed \in BOOLEAN
      BY DEF Init
    <2>4. /\ hears \subseteq {"complete", "end"} /\ saved \in Nodes \cup {None}
          /\ pressed \in 0 .. MaxDigits /\ crashes \in 0 .. MaxCrashes
      BY DEF Init
    <2> QED
      BY <1>2, <2>1, <2>2, <2>3, <2>4 DEF TypeOK
  <1>4. FlowInv
    <2>1. /\ ~agent /\ state = "IVR" /\ told /\ transfer = "none"
          /\ engine = Idle /\ hears = {}
      BY DEF Init
    <2>2. "flow" \in Callers /\ "end" \in Callers
      BY DEF Callers
    <2> QED
      BY <1>2, <2>1, <2>2 DEF FlowInv
  <1> QED
    BY <1>3, <1>4, IdleEngine DEF Init, IInv, Over

(* Nothing happens.                                                        *)
LEMMA StutterStep == IInv /\ UNCHANGED vars => IInv'
  BY DEF IInv, TypeOK, FlowInv, InFlow, Over, Resumes, vars, row, session, bounds

(* Each step keeps the invariant.                                          *)
LEMMA NextStep == IInv /\ [Next]_vars => IInv'
  <1> SUFFICES ASSUME IInv, [Next]_vars PROVE IInv'
    OBVIOUS
  <1>1. CASE SetUp
    BY <1>1, AcceptStep, MarkStep, PrepareStep, EstablishStep, AdoptStep DEF SetUp
  <1>2. CASE Engine
    BY <1>2, PromptEndsStep, SoundFailsStep, NoInputStep, GraceEndsStep DEF Engine
  <1>3. CASE Transfer
    BY <1>3, CheckTargetStep, HangUpAfterMessageStep, ReplayStep, AssignStep DEF Transfer
  <1>4. CASE ScanClaims \/ HangUp \/ StuckScan \/ TellHere \/ CloseMedia \/ Crash
    BY <1>4, ScanClaimsStep, EndedStep, TellHereStep, CloseMediaStep, CrashStep
  <1>5. CASE \E d \in Digits : PressDigit(d)
    BY <1>5, PressDigitStep
  <1>6. CASE \E c \in Callers : Stop(c)
    BY <1>6, CloseRecordStep, SetStateStep, ForgetStep, AfterStopStep DEF Stop
  <1>7. CASE UNCHANGED vars
    BY <1>7, StutterStep
  <1> QED
    BY <1>1, <1>2, <1>3, <1>4, <1>5, <1>6, <1>7 DEF Next

(* Whatever the flow, the keys, the ends and the crashes: the invariant    *)
(* holds throughout.                                                       *)
THEOREM Invariance == Spec => []IInv
  BY InitStep, NextStep, PTL DEF Spec

(* Every variable has its type: the engine counts no replay past the last, *)
(* and there is one stop per caller of stopSession.                        *)
THEOREM TypeCorrect == Spec => []TypeOK
  <1>1. IInv => TypeOK
    BY DEF IInv
  <1> QED
    BY <1>1, Invariance, PTL

(* While the flow runs, no agent has the call (stopSession puts it back    *)
(* into its queue before anyone may claim it), for every flow and any      *)
(* number of keys, until a crash has the flow run again.                   *)
THEOREM FlowKeepsAgentsOut == Spec => []NoAgentDuringTheFlow
  <1>1. IInv => NoAgentDuringTheFlow
    BY DEF IInv, FlowInv, InFlow, NoAgentDuringTheFlow
  <1> QED
    BY <1>1, Invariance, PTL

=============================================================================
