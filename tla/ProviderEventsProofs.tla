-------------------------- MODULE ProviderEventsProofs --------------------------
(***************************************************************************)
(* Theorems about ProviderEvents, for calls of either direction, any       *)
(* number of events delivered again, of hang-ups and of handlers at work.  *)
(***************************************************************************)
EXTENDS ProviderEvents, TLAPS

USE NoneAssumption, DirectionsAssumption, BoundsAssumption

-----------------------------------------------------------------------------
(* The records of work.                                                    *)

(* A handler that goes on.                                                 *)
LEMMA Moved ==
    ASSUME NEW t \in Work, NEW at \in Stages
    PROVE  /\ [t EXCEPT !.at = at] \in Work /\ [t EXCEPT !.at = at].at = at
           /\ [t EXCEPT !.at = at].why = t.why
  BY DEF Work

(* A handler that begins.                                                  *)
LEMMA Begun ==
    ASSUME TypeOK, NEW at \in Stages, NEW n \in 0 .. MaxExtras, NEW e \in Events \cup {None},
           NEW why \in Reasons \cup {None}, Begin(at, n, e, why)
    PROVE  \E u \in Work : u.at = at /\ work' = work \cup {u}
  BY DEF Begin, TypeOK, Work

-----------------------------------------------------------------------------
(* What a step may do to the invariant.                                    *)

(* Stages that any call may be at without an offer to be answered for.     *)
Ordinary == EndStages \cup StatusStages \cup {"hang", "timeOut", "expire", "cancel", "settle"}

(* A stage that fits the call's direction, and is past no creation.        *)
Plain(v) ==
    /\ v.at \notin Created
    /\ v.at \in ArrivalStages => direction = "INBOUND"
    /\ v.at \in DialStages => direction = "OUTBOUND"

(* The stages.                                                             *)
LEMMA StageSets ==
    /\ Ordinary \subseteq Stages /\ ArrivalStages \subseteq Stages /\ DialStages \subseteq Stages
    /\ Created \subseteq ArrivalStages
    /\ Ordinary \cap ArrivalStages = {} /\ Ordinary \cap DialStages = {}
    /\ ArrivalStages \cap DialStages = {}
    /\ "settle" \in Ordinary
  BY DEF Ordinary, Stages, ArrivalStages, EndStages, StatusStages, DialStages, Created

(* Handlers of an end, of a status and of a hang-up are plain.             *)
LEMMA OrdinaryIsPlain == \A v : v.at \in Ordinary => Plain(v)
  BY StageSets DEF Plain

(* What a step leaves as it is, or only clears.                            *)
Calm ==
    /\ UNCHANGED <<direction, endedFirst, lapsed, tomb>>
    /\ client' => client
    /\ held' => held \/ (direction = "OUTBOUND" /\ status' \notin Final)
    /\ "offer" \in net' => "offer" \in net
    /\ status' = "none" => status = "none"

(* The end is not forgotten: it is settled, or still to be.                *)
Remembered ==
    \/ ~held' \/ status' \notin Final
    \/ \E v \in work' : Settles(v)
    \/ status' = status /\ \A v \in work : Settles(v) => v \in work'

(* A step that holds nobody and forgets no end keeps the agent's rule.     *)
LEMMA Held ==
    ASSUME IInv, Calm, Remembered
    PROVE  HeldInv'
  BY DEF IInv, HeldInv, Calm, Remembered, Settles

(* A step that begins only plain work.                                     *)
LEMMA Proceeds ==
    ASSUME IInv, TypeOK', Calm, Remembered, \A v \in work' : v \in work \/ Plain(v)
    PROVE  IInv'
  <1>1. SidesInv'
    BY DEF IInv, SidesInv, Calm, Plain
  <1>2. ArrivalInv'
    <2>1. \A v \in work' : v.at \in Created => v \in work
      BY DEF Plain
    <2>2. \A v \in work' : v.at \in {"late", "offerLeg", "show"} => v \in work
      BY <2>1 DEF Created
    <2>3. (status = "none" => ~client /\ \A t \in work : t.at \notin Created)'
      BY <2>1 DEF IInv, ArrivalInv, Calm
    <2>4. (\A t, u \in work : t.at \in Created /\ u.at \in Created => t = u)'
      BY <2>1 DEF IInv, ArrivalInv
    <2>5. Buried' => Buried
      BY DEF Buried, Calm
    <2>6. (Buried => /\ ~client /\ \A t \in work : t.at \notin {"offerLeg", "show"}
                     /\ status = "none" \/ (\E t \in work : t.at = "late") => tomb # "none")'
      BY <2>2, <2>5 DEF IInv, ArrivalInv, Calm
    <2> QED
      BY <2>3, <2>4, <2>6 DEF ArrivalInv
  <1>3. HeldInv'
    BY Held
  <1> QED
    BY <1>1, <1>2, <1>3 DEF IInv

(* A handler goes on to a plain stage.                                     *)
LEMMA Goes ==
    ASSUME IInv, TypeOK', Calm, NEW t \in work, NEW u \in Work, Plain(u),
           work' = (work \ {t}) \cup {u},
           Settles(u) \/ status' \notin Final \/ (status' = status /\ ~Settles(t))
    PROVE  IInv'
  <1>1. Remembered /\ \A v \in work' : v \in work \/ Plain(v)
    BY DEF Remembered
  <1> QED
    BY <1>1, Proceeds

(* A handler finishes.                                                     *)
LEMMA Finishes ==
    ASSUME IInv, TypeOK', Calm, NEW t \in work, work' = work \ {t},
           ~held' \/ status' \notin Final \/ (status' = status /\ ~Settles(t))
    PROVE  IInv'
  <1>1. Remembered /\ \A v \in work' : v \in work \/ Plain(v)
    BY DEF Remembered
  <1> QED
    BY <1>1, Proceeds

(* A handler begins.                                                       *)
LEMMA Begins ==
    ASSUME IInv, TypeOK', Calm, NEW u \in Work, Plain(u), work' = work \cup {u}, status' = status
    PROVE  IInv'
  <1>1. Remembered /\ \A v \in work' : v \in work \/ Plain(v)
    BY DEF Remembered
  <1> QED
    BY <1>1, Proceeds

(* No handler moves.                                                       *)
LEMMA Rests ==
    ASSUME IInv, TypeOK', Calm, work' = work, ~held' \/ status' \notin Final \/ status' = status
    PROVE  IInv'
  <1>1. Remembered /\ \A v \in work' : v \in work \/ Plain(v)
    BY DEF Remembered
  <1> QED
    BY <1>1, Proceeds

-----------------------------------------------------------------------------
(* The same, for the handlers' own steps.                                  *)

(* The type invariant but for the work.                                    *)
Fields ==
    /\ direction \in Directions
    /\ status \in Statuses /\ reason \in Reasons \cup {None}
    /\ answered \in BOOLEAN /\ rang \in BOOLEAN /\ known \in BOOLEAN
    /\ claimed \in BOOLEAN /\ tomb \in {"none", "ended", "failed"}
    /\ line \in Lines /\ net \subseteq Events /\ repeats \in 0 .. MaxExtras
    /\ client \in BOOLEAN /\ legs \in BOOLEAN /\ bridged \in BOOLEAN
    /\ held \in BOOLEAN /\ ringTimer \in BOOLEAN
    /\ hangUps \in 0 .. MaxExtras /\ endedFirst \in BOOLEAN /\ lapsed \in BOOLEAN

(* They and the work make up the type invariant.                           *)
LEMMA TypeOfFieldsNext == Fields' /\ work' \subseteq Work => TypeOK'
  BY DEF TypeOK, Fields

(* A handler at one stage may go on to another of its kind, and to any     *)
(* ordinary one.                                                           *)
Fits(t, at) ==
    \/ at \in Ordinary
    \/ at \in DialStages /\ t.at \in DialStages
    \/ at \in ArrivalStages \ Created /\ t.at \in ArrivalStages

(* What fits is plain.                                                     *)
LEMMA FitsPlain ==
    ASSUME IInv, NEW t \in work, NEW u, Fits(t, u.at)
    PROVE  Plain(u) /\ u.at \in Stages
  BY StageSets DEF Fits, Plain, IInv, SidesInv

(* A handler goes on.                                                      *)
LEMMA GoesOn ==
    ASSUME IInv, Fields', Calm, NEW t \in work, NEW at, Fits(t, at), Goto(t, at),
           at = "settle" \/ status' \notin Final \/ (status' = status /\ ~Settles(t))
    PROVE  IInv'
  <1>1. t \in Work /\ work \subseteq Work
    BY DEF IInv, TypeOK
  <1>2. at \in Stages
    BY StageSets DEF Fits
  <1>3. PICK u \in Work : u.at = at /\ work' = (work \ {t}) \cup {u}
    BY <1>1, <1>2, Moved DEF Goto
  <1>4. Plain(u) /\ (at = "settle" => Settles(u))
    BY <1>3, FitsPlain DEF Settles
  <1>5. TypeOK'
    BY <1>1, <1>3, TypeOfFieldsNext
  <1> QED
    BY <1>3, <1>4, <1>5, Goes

(* A handler finishes.                                                     *)
LEMMA ComesToAnEnd ==
    ASSUME IInv, Fields', Calm, NEW t \in work, Finish(t),
           ~held' \/ status' \notin Final \/ (status' = status /\ ~Settles(t))
    PROVE  IInv'
  <1>1. work' = work \ {t} /\ TypeOK'
    BY TypeOfFieldsNext DEF Finish, IInv, TypeOK
  <1> QED
    BY <1>1, Finishes

(* Nobody goes on.                                                         *)
LEMMA Waits ==
    ASSUME IInv, Fields', Calm, work' = work, ~held' \/ status' \notin Final \/ status' = status
    PROVE  IInv'
  <1>1. TypeOK'
    BY TypeOfFieldsNext DEF IInv, TypeOK
  <1> QED
    BY <1>1, Rests

(* A handler of an end, of a status or of a hang-up begins.                *)
LEMMA Starts ==
    ASSUME IInv, Fields', Calm, status' = status, NEW at \in Stages, NEW n \in 0 .. MaxExtras,
           NEW e \in Events \cup {None}, NEW why \in Reasons \cup {None}, Begin(at, n, e, why),
           \/ at \in Ordinary
           \/ at \in ArrivalStages \ Created /\ direction = "INBOUND"
           \/ at \in DialStages /\ direction = "OUTBOUND"
    PROVE  IInv'
  <1>1. PICK u \in Work : u.at = at /\ work' = work \cup {u}
    BY Begun DEF IInv
  <1>2. Plain(u)
    BY <1>1, StageSets DEF Plain
  <1>3. TypeOK'
    BY <1>1, TypeOfFieldsNext DEF IInv, TypeOK
  <1> QED
    BY <1>1, <1>2, <1>3, Begins

(* A handler ends the call, and goes on to settle it.                      *)
LEMMA EndsNow ==
    ASSUME IInv, NEW t \in work,
           UNCHANGED <<answered, rang, known, provider, effects, redis, history>>,
           NEW why \in Reasons \cup {None}, status # "none", status' \in Final, reason' = why,
           work' = (work \ {t}) \cup {[t EXCEPT !.at = "settle", !.why = why]}
    PROVE  IInv'
  <1>1. "none" \notin Final /\ Final \subseteq Statuses
    BY DEF Final, Statuses
  <1>2. status' \in Statuses /\ reason' \in Reasons \cup {None}
    BY <1>1
  <1>3. Fields'
    BY <1>2 DEF IInv, TypeOK, Fields, provider, effects, redis, history
  <1>4. Calm
    BY <1>1 DEF Calm, provider, effects, redis, history
  <1>5. t \in Work /\ work \subseteq Work /\ "settle" \in Stages
    BY StageSets DEF IInv, TypeOK
  <1>6. PICK at \in Stages : at = "settle"
    BY <1>5
  <1>7. PICK u \in Work : u.at = "settle" /\ work' = (work \ {t}) \cup {u}
    <2>1. /\ [t EXCEPT !.at = at, !.why = why] \in Work
          /\ [t EXCEPT !.at = at, !.why = why].at = at
      BY <1>5, <1>6 DEF Work
    <2>2. work' = (work \ {t}) \cup {[t EXCEPT !.at = at, !.why = why]}
      BY <1>6
    <2> QED
      BY <1>6, <2>1, <2>2
  <1>8. Plain(u) /\ Settles(u)
    BY <1>7, StageSets, OrdinaryIsPlain DEF Settles
  <1>9. TypeOK'
    BY <1>3, <1>5, <1>7, TypeOfFieldsNext
  <1> QED
    BY <1>4, <1>7, <1>8, <1>9, Goes

(* Or it finds that it may not, and finishes.                              *)
LEMMA EndsCall ==
    ASSUME IInv, NEW t \in work, ~Settles(t),
           UNCHANGED <<answered, rang, known, provider, effects, redis, history>>,
           \/ \E why \in Reasons \cup {None} :
                  /\ status # "none" /\ status' \in Final /\ reason' = why
                  /\ work' = (work \ {t}) \cup {[t EXCEPT !.at = "settle", !.why = why]}
           \/ UNCHANGED <<status, reason>> /\ Finish(t)
    PROVE  IInv'
  <1>1. CASE UNCHANGED <<status, reason>> /\ Finish(t)
    <2>1. Fields' /\ Calm
      BY <1>1 DEF IInv, TypeOK, Fields, Calm, provider, effects, redis, history
    <2> QED
      BY <1>1, <2>1, ComesToAnEnd
  <1> QED
    BY <1>1, EndsNow

-----------------------------------------------------------------------------
(* The provider's ends and statuses.                                       *)

(* The stages of these handlers are ordinary.                              *)
LEMMA Fitting == \A t, at : at \in Ordinary => Fits(t, at)
  BY DEF Fits

(* The provider's time of the answer.                                      *)
LEMMA EndTimesStep ==
    ASSUME IInv, NEW t \in work, EndTimes(t) PROVE IInv'
  <1>1. /\ Goto(t, "endStatus") /\ answered' = (answered \/ t.event = "endedAnswered")
        /\ ~Settles(t)
        /\ UNCHANGED <<status, reason, rang, known, provider, effects, redis, history>>
    BY DEF EndTimes, Settles
  <1>2. Fields' /\ Calm
    BY <1>1 DEF IInv, TypeOK, Fields, Calm, provider, effects, redis, history
  <1>3. Fits(t, "endStatus")
    BY DEF Fits, Ordinary, EndStages
  <1> QED
    BY <1>1, <1>2, <1>3, GoesOn

(* The end is looked up once more.                                         *)
LEMMA LookUpAgainStep ==
    ASSUME IInv, NEW t \in work, LookUpAgain(t) PROVE IInv'
  <1>1. /\ UNCHANGED <<row, provider, effects, redis, history>> /\ ~Settles(t)
    BY DEF LookUpAgain, Settles
  <1>2. PICK at \in {"endTimes", "entomb"} : Reread(t, at)
    BY DEF LookUpAgain
  <1>3. at \in Stages /\ at \in Ordinary
    BY <1>2 DEF Stages, Ordinary, EndStages
  <1>4. t \in Work /\ work \subseteq Work /\ status \in Statuses /\ known \in BOOLEAN
    BY DEF IInv, TypeOK
  <1>5. PICK u \in Work : u.at = at /\ work' = (work \ {t}) \cup {u}
    <2>1. PICK s \in Statuses, b \in BOOLEAN : s = status /\ b = known
      BY <1>4
    <2>2. /\ [t EXCEPT !.at = at, !.seen = s, !.told = b] \in Work
          /\ [t EXCEPT !.at = at, !.seen = s, !.told = b].at = at
      BY <1>3, <1>4, <2>1 DEF Work
    <2>3. work' = (work \ {t}) \cup {[t EXCEPT !.at = at, !.seen = s, !.told = b]}
      BY <1>2, <2>1 DEF Reread
    <2> QED
      BY <2>2, <2>3
  <1>6. Fields' /\ Calm
    BY <1>1 DEF IInv, TypeOK, Fields, Calm, row, provider, effects, redis, history
  <1>7. TypeOK'
    BY <1>4, <1>5, <1>6, TypeOfFieldsNext
  <1>8. Plain(u)
    BY <1>3, <1>5, OrdinaryIsPlain
  <1> QED
    BY <1>1, <1>5, <1>6, <1>7, <1>8, Goes DEF row

(* The status, with a reason.                                              *)
LEMMA EndStatusStep ==
    ASSUME IInv, NEW t \in work, EndStatus(t) PROVE IInv'
  <1>1. /\ UNCHANGED <<answered, rang, known, provider, effects, redis, history>> /\ ~Settles(t)
        /\ t \in Work /\ work \subseteq Work
    BY DEF EndStatus, Settles, IInv, TypeOK
  <1>2. "endCorrect" \in Stages /\ "endCorrect" \in Ordinary
    BY DEF Stages, Ordinary, EndStages
  <1>3. CASE UNCHANGED <<status, reason>> /\ Goto(t, "endCorrect")
    <2>1. Fields' /\ Calm
      BY <1>1, <1>3 DEF IInv, TypeOK, Fields, Calm, provider, effects, redis, history
    <2>2. Fits(t, "endCorrect")
      BY <1>2, Fitting
    <2> QED
      BY <1>1, <1>3, <2>1, <2>2, GoesOn
  <1>4. CASE \E why \in Reasons :
                 /\ status \in Live /\ status' = "TERMINATED" /\ reason' \in {reason, why}
                 /\ work' = (work \ {t}) \cup {[t EXCEPT !.at = "endCorrect", !.why = why]}
    <2>1. PICK why \in Reasons :
                 /\ status \in Live /\ status' = "TERMINATED" /\ reason' \in {reason, why}
                 /\ work' = (work \ {t}) \cup {[t EXCEPT !.at = "endCorrect", !.why = why]}
      BY <1>4
    <2>2. PICK u \in Work : Settles(u) /\ u.at = "endCorrect" /\ work' = (work \ {t}) \cup {u}
      <3>1. /\ [t EXCEPT !.at = "endCorrect", !.why = why] \in Work
            /\ [t EXCEPT !.at = "endCorrect", !.why = why].at = "endCorrect"
            /\ [t EXCEPT !.at = "endCorrect", !.why = why].why # None
        BY <1>1, <1>2, <2>1 DEF Work
      <3> QED
        BY <2>1, <3>1 DEF Settles
    <2>3. status' \in Statuses /\ reason' \in Reasons \cup {None} /\ status' # "none" /\ status # "none"
      BY <2>1 DEF IInv, TypeOK, Statuses, Final, Live
    <2>4. Fields'
      BY <1>1, <2>3 DEF IInv, TypeOK, Fields, provider, effects, redis, history
    <2>5. Calm
      BY <1>1, <2>3 DEF Calm, provider, effects, redis, history
    <2>6. TypeOK'
      BY <1>1, <2>2, <2>4, TypeOfFieldsNext
    <2>7. Plain(u)
      BY <1>2, <2>2, OrdinaryIsPlain
    <2> QED
      BY <2>2, <2>5, <2>6, <2>7, Goes
  <1>5. EndReasons(t) \subseteq Reasons
    BY DEF EndReasons, Reasons
  <1> QED
    BY <1>3, <1>4, <1>5 DEF EndStatus

(* A failure ends the call, if it has not failed yet.                      *)
LEMMA EndFailedStep ==
    ASSUME IInv, NEW t \in work, EndFailed(t) PROVE IInv'
  <1>1. /\ UNCHANGED <<answered, rang, known, provider, effects, tomb, history>> /\ ~Settles(t)
        /\ claimed' \in BOOLEAN
    BY DEF EndFailed, Settles, IInv, TypeOK
  <1>2. CASE UNCHANGED <<status, reason>> /\ Finish(t)
    <2>1. Fields' /\ Calm
      BY <1>1, <1>2 DEF IInv, TypeOK, Fields, Calm, provider, effects, history
    <2> QED
      BY <1>1, <1>2, <2>1, ComesToAnEnd
  <1>3. CASE status' = "FAILED" /\ reason' = "PROVIDER_ERROR" /\ Goto(t, "settle")
    <2>1. status' \in Statuses /\ reason' \in Reasons /\ status' # "none"
      BY <1>3 DEF Statuses, Final, Reasons
    <2>2. Fields' /\ Calm
      BY <1>1, <2>1 DEF IInv, TypeOK, Fields, Calm, provider, effects, history
    <2>3. Fits(t, "settle")
      BY StageSets DEF Fits
    <2> QED
      BY <1>3, <2>2, <2>3, GoesOn
  <1> QED
    BY <1>2, <1>3 DEF EndFailed

(* An answer is looked for, and the end is settled if this was it.         *)
LEMMA EndCorrectStep ==
    ASSUME IInv, NEW t \in work, EndCorrect(t) PROVE IInv'
  <1>1. /\ reason' = Corrected /\ claimed' \in BOOLEAN
        /\ UNCHANGED <<status, answered, rang, known, provider, effects, tomb, history>>
    BY DEF EndCorrect, IInv, TypeOK
  <1>2. Corrected \in Reasons \cup {None}
    BY DEF Corrected, Reasons, IInv, TypeOK
  <1>3. Fields' /\ Calm
    BY <1>1, <1>2 DEF IInv, TypeOK, Fields, Calm, provider, effects, history
  <1>4. CASE Goto(t, "settle")
    <2>1. Fits(t, "settle")
      BY StageSets, Fitting
    <2> QED
      BY <1>3, <1>4, <2>1, GoesOn
  <1>5. CASE t.at = "endCorrect" /\ t.why = None /\ Finish(t)
    <2>1. ~Settles(t)
      BY <1>5 DEF Settles
    <2> QED
      BY <1>1, <1>3, <1>5, <2>1, ComesToAnEnd
  <1> QED
    BY <1>4, <1>5 DEF EndCorrect

(* A handler that ends nothing goes on or finishes.                        *)
LEMMA GoesOrEnds ==
    ASSUME IInv, Fields', Calm, NEW t \in work, ~Settles(t), status' = status \/ status' \notin Final,
           Finish(t) \/ \E at \in Stages : Fits(t, at) /\ Goto(t, at)
    PROVE  IInv'
  <1>1. CASE Finish(t)
    BY <1>1, ComesToAnEnd
  <1>2. CASE \E at \in Stages : Fits(t, at) /\ Goto(t, at)
    <2>1. PICK at \in Stages : Fits(t, at) /\ Goto(t, at)
      BY <1>2
    <2> QED
      BY <2>1, GoesOn
  <1> QED
    BY <1>1, <1>2

(* The provider's ringing: the time, and the status.                       *)
LEMMA RingStep ==
    ASSUME IInv, NEW t \in work, RingTime(t) \/ RingStatus(t) PROVE IInv'
  <1>1. /\ UNCHANGED <<reason, answered, known, provider, effects, redis, history>>
        /\ ~Settles(t) /\ rang' \in BOOLEAN /\ status' \in {status, "RINGING"}
        /\ Finish(t) \/ Goto(t, "ringStatus")
    BY DEF RingTime, RingStatus, Settles, IInv, TypeOK
  <1>2. "ringStatus" \in Stages /\ Fits(t, "ringStatus")
    BY DEF Fits, Ordinary, Stages, StatusStages
  <1>3. status' \in Statuses /\ (status' = "none" => status = "none")
        /\ (status' = status \/ status' \notin Final)
    BY <1>1 DEF IInv, TypeOK, Statuses, Live, Final
  <1>4. Fields' /\ Calm
    BY <1>1, <1>3 DEF IInv, TypeOK, Fields, Calm, provider, effects, redis, history
  <1> QED
    BY <1>1, <1>2, <1>3, <1>4, GoesOrEnds

(* The provider's answer: the time, the correction and the status.         *)
LEMMA AnswerStep ==
    ASSUME IInv, NEW t \in work, AnswerTime(t) \/ AnswerCorrect(t) \/ AnswerStatus(t) PROVE IInv'
  <1>0. reason' \in {reason, Corrected}
    BY DEF AnswerTime, AnswerCorrect, AnswerStatus
  <1>1. /\ UNCHANGED <<known, provider, effects, redis, history>>
        /\ ~Settles(t) /\ rang' \in BOOLEAN /\ answered' \in BOOLEAN
        /\ status' \in {status, "IN_PROGRESS"} /\ reason' \in Reasons \cup {None}
        /\ Finish(t) \/ Goto(t, "answerCorrect") \/ Goto(t, "answerStatus")
    BY <1>0 DEF AnswerTime, AnswerCorrect, AnswerStatus, Settles, IInv, TypeOK, Corrected, Reasons
  <1>2. /\ "answerCorrect" \in Stages /\ Fits(t, "answerCorrect")
        /\ "answerStatus" \in Stages /\ Fits(t, "answerStatus")
    BY DEF Fits, Ordinary, Stages, StatusStages
  <1>3. status' \in Statuses /\ (status' = "none" => status = "none")
        /\ (status' = status \/ status' \notin Final)
    BY <1>1 DEF IInv, TypeOK, Statuses, Live, Final
  <1>4. Fields' /\ Calm
    BY <1>1, <1>3 DEF IInv, TypeOK, Fields, Calm, provider, effects, redis, history
  <1> QED
    BY <1>1, <1>2, <1>3, <1>4, GoesOrEnds

(* The answer is applied to the media.                                     *)
LEMMA PostAnswerStep ==
    ASSUME IInv, NEW t \in work, PostAnswer(t) PROVE IInv'
  <1>1. /\ UNCHANGED <<row, provider, client, legs, held, ringTimer, tomb, history>>
        /\ bridged' \in BOOLEAN /\ claimed' \in BOOLEAN /\ ~Settles(t) /\ Finish(t)
    BY DEF PostAnswer, SettleClaim, Settles, IInv, TypeOK
  <1>2. Fields' /\ Calm
    BY <1>1 DEF IInv, TypeOK, Fields, Calm, row, provider, history
  <1> QED
    BY <1>1, <1>2, GoesOrEnds DEF row

(* The customer declined.                                                  *)
LEMMA DeclineStep ==
    ASSUME IInv, NEW t \in work, Decline(t) PROVE IInv'
  <1>1. ~Settles(t) /\ "none" \notin Live
    BY DEF Decline, Settles, Live
  <1>2. \/ \E why \in Reasons \cup {None} :
               /\ status # "none" /\ status' \in Final /\ reason' = why
               /\ work' = (work \ {t}) \cup {[t EXCEPT !.at = "settle", !.why = why]}
        \/ UNCHANGED <<status, reason>> /\ Finish(t)
    BY <1>1 DEF Decline, EndCall, Reasons, Final
  <1> QED
    BY <1>1, <1>2, EndsCall DEF Decline

(* The end is buried.                                                      *)
LEMMA EntombStep ==
    ASSUME IInv, NEW t \in work, Entomb(t) PROVE IInv'
  <1>1. /\ UNCHANGED <<row, provider, effects, direction, hangUps, lapsed>>
        /\ tomb' \in {"none", "ended", "failed"} /\ tomb' # "none"
        /\ endedFirst' = (endedFirst \/ status = "none") /\ claimed' = FALSE
        /\ work' = work \ {t} /\ t.at = "entomb"
    BY DEF Entomb, Finish, IInv, TypeOK
  <1>2. endedFirst' \in BOOLEAN
    BY <1>1 DEF IInv, TypeOK
  <1>3. TypeOK'
    BY <1>1, <1>2 DEF IInv, TypeOK, row, provider, effects
  <1>4. SidesInv'
    BY <1>1 DEF IInv, SidesInv, provider, effects
  <1>5. ArrivalInv'
    <2>1. (Buried => /\ ~client /\ \A v \in work : v.at \notin {"offerLeg", "show"}
                     /\ status = "none" \/ (\E v \in work : v.at = "late") => tomb # "none")'
      <3>1. CASE status = "none"
        BY <1>1, <3>1 DEF IInv, ArrivalInv, Created, effects
      <3>2. CASE status # "none"
        BY <1>1, <3>2 DEF IInv, ArrivalInv, Buried, effects
      <3> QED
        BY <3>1, <3>2
    <2> QED
      BY <1>1, <2>1 DEF IInv, ArrivalInv, row, effects
  <1>6. HeldInv'
    BY <1>1 DEF IInv, HeldInv, Settles, row, effects
  <1> QED
    BY <1>3, <1>4, <1>5, <1>6 DEF IInv

-----------------------------------------------------------------------------
(* The arrival of an offer.                                                *)

(* The first look at the tombstone.                                        *)
LEMMA CheckTombstoneStep ==
    ASSUME IInv, NEW t \in work, CheckTombstone(t) PROVE IInv'
  <1>1. /\ UNCHANGED <<row, provider, effects, redis, history>> /\ t.at = "tomb" /\ ~Settles(t)
        /\ t \in Work /\ work \subseteq Work
    BY DEF CheckTombstone, Settles, IInv, TypeOK
  <1>2. Fields' /\ Calm
    BY <1>1 DEF IInv, TypeOK, Fields, Calm, row, provider, effects, redis, history
  <1>3. \A at \in {"duplicate", "create", "missed"} : Fits(t, at) /\ at \in Stages
    BY <1>1 DEF Fits, Stages, ArrivalStages, Created
  <1>4. CASE \E at \in {"duplicate", "create"} : Goto(t, at)
    BY <1>1, <1>2, <1>3, <1>4, GoesOrEnds DEF row
  <1>5. CASE \E why \in Reasons \cup {None} :
                 work' = (work \ {t}) \cup {[t EXCEPT !.at = "missed", !.why = why]}
    <2>1. PICK why \in Reasons \cup {None} :
                 work' = (work \ {t}) \cup {[t EXCEPT !.at = "missed", !.why = why]}
      BY <1>5
    <2>2. PICK at \in Stages : at = "missed"
      BY <1>3
    <2>3. /\ [t EXCEPT !.at = at, !.why = why] \in Work
          /\ [t EXCEPT !.at = at, !.why = why].at = at
      BY <1>1, <2>1, <2>2 DEF Work
    <2>4. PICK u \in Work : u.at = "missed" /\ work' = (work \ {t}) \cup {u}
      BY <2>1, <2>2, <2>3
    <2>5. Plain(u) /\ TypeOK'
      BY <1>1, <1>2, <1>3, <2>4, FitsPlain, TypeOfFieldsNext
    <2> QED
      BY <1>1, <1>2, <2>4, <2>5, Goes DEF row
  <1> QED
    BY <1>4, <1>5 DEF CheckTombstone, Reasons

(* The row is written: from now on there is one handler past the creation. *)
LEMMA Creates ==
    ASSUME IInv, Fields', NEW t \in work, status = "none", status' = "RINGING",
           NEW u \in Work, u.at \in {"late", "lateEnd", "duplicateEnd", "rejectCall"},
           t.at \in ArrivalStages, work' = (work \ {t}) \cup {u},
           UNCHANGED <<direction, net, client, held, tomb, endedFirst, lapsed>>
    PROVE  IInv'
  <1>1. TypeOK'
    BY TypeOfFieldsNext DEF IInv, TypeOK
  <1>2. u.at \in ArrivalStages /\ u.at \notin DialStages /\ u.at \notin {"offerLeg", "show"}
    BY DEF ArrivalStages, DialStages
  <1>3. SidesInv'
    BY <1>2 DEF IInv, SidesInv
  <1>4. ArrivalInv'
    <2>1. \A v \in work' : v.at \in Created => v = u
      BY DEF IInv, ArrivalInv
    <2>2. \A v \in work' : v.at \notin {"offerLeg", "show"}
      BY <1>2, <2>1 DEF Created
    <2>3. ~client' /\ (Buried' => tomb' # "none")
      BY DEF IInv, ArrivalInv, Buried
    <2> QED
      BY <2>1, <2>2, <2>3 DEF ArrivalInv
  <1>5. HeldInv'
    BY DEF HeldInv, Final
  <1> QED
    BY <1>1, <1>3, <1>4, <1>5 DEF IInv

(* A row of a call that is over, or of one that begins.                    *)
LEMMA CreateStep ==
    ASSUME IInv, NEW t \in work, CreateOver(t) \/ CreateCall(t) PROVE IInv'
  <1>1. /\ UNCHANGED <<reason, answered, provider, effects, tomb, history>> /\ ~Settles(t)
        /\ t.at \in ArrivalStages /\ t \in Work /\ work \subseteq Work
    BY DEF CreateOver, CreateCall, Settles, ArrivalStages, IInv, TypeOK
  <1>2. CASE Finish(t) /\ SettleClaim /\ UNCHANGED <<status, rang, known>>
    <2>1. claimed' \in BOOLEAN
      BY <1>2 DEF SettleClaim, IInv, TypeOK
    <2>2. Fields' /\ Calm
      BY <1>1, <1>2, <2>1 DEF IInv, TypeOK, Fields, Calm, provider, effects, history
    <2> QED
      BY <1>1, <1>2, <2>2, GoesOrEnds
  <1>3. ASSUME status = "none", status' = "RINGING", rang' = TRUE, known' = TRUE, UNCHANGED claimed,
               NEW u \in Work, u.at \in {"late", "lateEnd", "duplicateEnd", "rejectCall"},
               work' = (work \ {t}) \cup {u}
        PROVE  IInv'
    <2>1. Fields'
      BY <1>1, <1>3 DEF IInv, TypeOK, Fields, provider, effects, history, Statuses, Live
    <2> QED
      BY <1>1, <1>3, <2>1, Creates DEF provider, effects, history
  <1>4. CASE /\ status = "none" /\ status' = "RINGING" /\ rang' = TRUE /\ known' = TRUE
             /\ UNCHANGED claimed
             /\ \E at \in {"lateEnd", "duplicateEnd"} : Goto(t, at)
    <2>1. PICK at \in {"lateEnd", "duplicateEnd"} : Goto(t, at)
      BY <1>4
    <2>2. at \in Stages
      BY <2>1 DEF Stages, ArrivalStages
    <2>3. PICK u \in Work : u.at = at /\ work' = (work \ {t}) \cup {u}
      BY <1>1, <2>1, <2>2, Moved DEF Goto
    <2> QED
      BY <1>3, <1>4, <2>1, <2>3
  <1>5. CASE /\ status = "none" /\ status' = "RINGING" /\ rang' = TRUE /\ known' = TRUE
             /\ UNCHANGED claimed
             /\ \E at \in {"late", "rejectCall"} :
                    work' = (work \ {t}) \cup {[t EXCEPT !.at = at, !.told = TRUE]}
    <2>1. PICK at \in {"late", "rejectCall"} :
                    work' = (work \ {t}) \cup {[t EXCEPT !.at = at, !.told = TRUE]}
      BY <1>5
    <2>2. at \in Stages
      BY <2>1 DEF Stages, ArrivalStages
    <2>3. PICK b \in BOOLEAN : b = TRUE
      OBVIOUS
    <2>4. [t EXCEPT !.at = at, !.told = b] \in Work /\ [t EXCEPT !.at = at, !.told = b].at = at
      BY <1>1, <2>2, <2>3 DEF Work
    <2>5. PICK u \in Work : u.at = at /\ work' = (work \ {t}) \cup {u}
      BY <2>1, <2>3, <2>4
    <2> QED
      BY <1>3, <1>5, <2>1, <2>5
  <1> QED
    BY <1>2, <1>4, <1>5 DEF CreateOver, CreateCall

(* The handler past the creation goes on to the next arrival stage: it     *)
(* offers the call only if no end was buried.                              *)
LEMMA ArrivalGoes ==
    ASSUME IInv, NEW t \in work, t.at \in Created, NEW at \in ArrivalStages, at # "late",
           at \in {"offerLeg", "show"} => ~Buried, Goto(t, at), legs' \in BOOLEAN,
           UNCHANGED <<row, provider, client, bridged, held, ringTimer, redis, history>>
    PROVE  IInv'
  <1>1. t \in Work /\ work \subseteq Work /\ at \in Stages
    BY StageSets DEF IInv, TypeOK
  <1>2. PICK u \in Work : u.at = at /\ work' = (work \ {t}) \cup {u}
    BY <1>1, Moved DEF Goto
  <1>3. TypeOK'
    BY <1>1, <1>2 DEF IInv, TypeOK, row, provider, redis, history
  <1>4. direction = "INBOUND" /\ at \notin DialStages
    BY StageSets DEF IInv, SidesInv
  <1>5. SidesInv'
    BY <1>2, <1>4 DEF IInv, SidesInv, provider, history
  <1>6. ArrivalInv'
    <2>1. \A v \in work' : v.at \in Created => v = u
      BY <1>2 DEF IInv, ArrivalInv
    <2>2. status' # "none"
      BY DEF IInv, ArrivalInv, row
    <2>3. Buried' = Buried
      BY DEF Buried, history
    <2>4. Buried' => \A v \in work' : v.at \notin {"offerLeg", "show"}
      BY <1>2, <2>3 DEF IInv, ArrivalInv
    <2>5. \A v \in work' : v.at = "late" => v \in work
      BY <1>2
    <2> QED
      BY <2>1, <2>2, <2>3, <2>4, <2>5 DEF IInv, ArrivalInv, redis
  <1>7. ~held'
    BY <1>4 DEF IInv, SidesInv
  <1> QED
    BY <1>3, <1>5, <1>6, <1>7 DEF IInv, HeldInv

(* The second look at the tombstone.                                       *)
LEMMA LateCheckStep ==
    ASSUME IInv, NEW t \in work, LateCheck(t) PROVE IInv'
  <1>1. /\ UNCHANGED <<row, provider, effects, redis, history>> /\ t.at = "late"
        /\ t.at \in Created /\ legs' \in BOOLEAN
    BY DEF LateCheck, Created, effects, IInv, TypeOK
  <1>2. Buried => tomb # "none"
    BY <1>1 DEF IInv, ArrivalInv
  <1>3. PICK at \in ArrivalStages :
            at # "late" /\ (at \in {"offerLeg", "show"} => ~Buried) /\ Goto(t, at)
    BY <1>2 DEF LateCheck, ArrivalStages
  <1> QED
    BY <1>1, <1>3, ArrivalGoes DEF effects

(* A leg is offered.                                                       *)
LEMMA OfferLegStep ==
    ASSUME IInv, NEW t \in work, OfferLeg(t) PROVE IInv'
  <1>1. t.at \in Created /\ ~Buried /\ "show" \in ArrivalStages
    BY DEF OfferLeg, Created, ArrivalStages, IInv, ArrivalInv
  <1> QED
    BY <1>1, ArrivalGoes DEF OfferLeg

(* The call is shown: nothing was buried.                                  *)
LEMMA ShowCallStep ==
    ASSUME IInv, NEW t \in work, ShowCall(t) PROVE IInv'
  <1>1. /\ UNCHANGED <<row, provider, legs, bridged, held, tomb, history>>
        /\ client' = TRUE /\ ringTimer' \in BOOLEAN /\ claimed' \in BOOLEAN
        /\ work' = work \ {t} /\ t.at = "show" /\ t.at \in Created /\ t.at \in ArrivalStages
    BY DEF ShowCall, SettleClaim, Finish, Created, ArrivalStages, IInv, TypeOK
  <1>2. ~Buried' /\ status' # "none"
    BY <1>1 DEF IInv, ArrivalInv, Buried, row, history
  <1>3. TypeOK'
    BY <1>1 DEF IInv, TypeOK, row, provider, history
  <1>4. SidesInv' /\ ~held'
    BY <1>1, StageSets DEF IInv, SidesInv, provider, history
  <1>5. ArrivalInv'
    BY <1>1, <1>2 DEF IInv, ArrivalInv
  <1> QED
    BY <1>3, <1>4, <1>5 DEF IInv, HeldInv

(* The end that came first is settled, and the tombstone goes.             *)
LEMMA EndLateStep ==
    ASSUME IInv, NEW t \in work, EndLate(t) PROVE IInv'
  <1>1. /\ UNCHANGED <<answered, rang, known, provider, effects, claimed, history>>
        /\ tomb' = "none" /\ Goto(t, "settle") /\ t.at = "lateEnd"
        /\ t \in Work /\ work \subseteq Work
    BY DEF EndLate, IInv, TypeOK
  <1>2. status' \in {status, "FAILED", "TERMINATED"} /\ reason' \in {reason, t.why, "CANCELLED"}
    BY DEF EndLate, OverUnrung
  <1>3. status' \in Statuses /\ status # "none" /\ status' # "none"
    BY <1>1, <1>2 DEF IInv, TypeOK, ArrivalInv, Created, Statuses, Final
  <1>4. reason' \in Reasons \cup {None}
    BY <1>1, <1>2 DEF IInv, TypeOK, Work, Reasons
  <1>5. PICK u \in Work : u.at = "settle" /\ work' = (work \ {t}) \cup {u}
    BY <1>1, StageSets, Moved DEF Goto
  <1>6. TypeOK'
    BY <1>1, <1>3, <1>4, <1>5 DEF IInv, TypeOK, provider, effects, history
  <1>7. u.at \notin ArrivalStages /\ u.at \notin DialStages /\ u.at \notin Created
    BY <1>5, StageSets
  <1>8. SidesInv'
    BY <1>1, <1>5, <1>7 DEF IInv, SidesInv, provider, effects, history
  <1>9. ArrivalInv'
    <2>1. \A v \in work' : v.at \notin Created
      BY <1>1, <1>5, <1>7 DEF IInv, ArrivalInv, Created
    <2>2. Buried' => ~client'
      BY <1>1 DEF IInv, ArrivalInv, Buried, effects, history
    <2> QED
      BY <1>3, <2>1, <2>2 DEF ArrivalInv, Created
  <1>10. HeldInv'
    BY <1>5 DEF HeldInv, Settles
  <1> QED
    BY <1>6, <1>8, <1>9, <1>10 DEF IInv

(* A second call of the customer is over: nobody is held.                  *)
LEMMA EndDuplicateStep ==
    ASSUME IInv, NEW t \in work, EndDuplicate(t) PROVE IInv'
  <1>1. /\ UNCHANGED <<answered, rang, known, provider, effects, tomb, history>>
        /\ claimed' = FALSE /\ Finish(t) /\ t.at \in ArrivalStages
        /\ status' \in {status, "TERMINATED"} /\ reason' \in {reason, "CANCELLED"}
    BY DEF EndDuplicate, ArrivalStages
  <1>2. /\ status' \in Statuses /\ reason' \in Reasons \cup {None}
        /\ (status' = "none" => status = "none")
    BY <1>1 DEF IInv, TypeOK, Statuses, Final, Reasons
  <1>3. ~held'
    BY <1>1 DEF IInv, SidesInv, effects
  <1>4. TypeOK
    BY DEF IInv
  <1>5. Fields'
    BY <1>1, <1>2, <1>4 DEF TypeOK, Fields, provider, effects, history
  <1>6. Calm
    BY <1>1, <1>2, <1>3 DEF Calm, provider, effects, history
  <1> QED
    BY <1>1, <1>3, <1>5, <1>6, ComesToAnEnd

(* The consumer rejects the call, or its line is missed.                   *)
LEMMA RejectStep ==
    ASSUME IInv, NEW t \in work, RejectCall(t) \/ MissLine(t) PROVE IInv'
  <1>1. ~Settles(t) /\ "none" \notin Live
    BY DEF RejectCall, MissLine, Settles, Live
  <1>2. \/ \E why \in Reasons \cup {None} :
               /\ status # "none" /\ status' \in Final /\ reason' = why
               /\ work' = (work \ {t}) \cup {[t EXCEPT !.at = "settle", !.why = why]}
        \/ UNCHANGED <<status, reason>> /\ Finish(t)
    BY <1>1 DEF RejectCall, MissLine, EndCall, Reasons, Final
  <1> QED
    BY <1>1, <1>2, EndsCall DEF RejectCall, MissLine

-----------------------------------------------------------------------------
(* An outbound call is dialled.                                            *)

(* The agent is held while the call is live.                               *)
LEMMA HoldStep ==
    ASSUME IInv, NEW t \in work, Hold(t) PROVE IInv'
  <1>1. /\ UNCHANGED <<row, provider, client, legs, bridged, ringTimer, redis, history>>
        /\ ~Settles(t) /\ t.at \in DialStages /\ direction = "OUTBOUND"
    BY DEF Hold, Settles, DialStages, IInv, SidesInv
  <1>2. "dialTime" \in Stages /\ Fits(t, "dialTime")
    BY <1>1 DEF Fits, Stages, DialStages
  <1>3. CASE status \in Live /\ held' = TRUE /\ Goto(t, "dialTime")
    <2>1. status' \notin Final
      BY <1>1, <1>3 DEF Live, Final, row
    <2>2. Fields' /\ Calm
      BY <1>1, <1>3, <2>1 DEF IInv, TypeOK, Fields, Calm, row, provider, redis, history
    <2> QED
      BY <1>1, <1>2, <1>3, <2>1, <2>2, GoesOrEnds
  <1>4. CASE Finish(t) /\ UNCHANGED held
    <2>1. Fields' /\ Calm
      BY <1>1, <1>4 DEF IInv, TypeOK, Fields, Calm, row, provider, redis, history
    <2> QED
      BY <1>1, <1>4, <2>1, GoesOrEnds DEF row
  <1> QED
    BY <1>3, <1>4 DEF Hold

(* The ring time, the leg, the dial and its answer.                        *)
LEMMA DialStep ==
    ASSUME IInv, NEW t \in work, DialTime(t) \/ DialLeg(t) \/ Dial(t) \/ Dialled(t) PROVE IInv'
  <1>1. /\ UNCHANGED <<status, reason, answered, net, repeats, client, bridged, held, ringTimer,
                       redis, history>>
        /\ rang' \in BOOLEAN /\ known' \in BOOLEAN /\ legs' \in BOOLEAN /\ line' \in Lines
        /\ ~Settles(t)
    BY DEF DialTime, DialLeg, Dial, Dialled, Settles, row, provider, effects, Lines, IInv, TypeOK
  <1>2. t.at \in DialStages
    BY DEF DialTime, DialLeg, Dial, Dialled, DialStages
  <1>3. Fields' /\ Calm
    BY <1>1 DEF IInv, TypeOK, Fields, Calm, redis, history
  <1>4. Finish(t) \/ \E at \in {"dialLeg", "dial", "dialled", "dialFailed"} : Goto(t, at)
    BY DEF DialTime, DialLeg, Dial, Dialled
  <1>5. \A at \in {"dialLeg", "dial", "dialled", "dialFailed"} : Fits(t, at) /\ at \in Stages
    BY <1>2 DEF Fits, Stages, DialStages
  <1> QED
    BY <1>1, <1>3, <1>4, <1>5, GoesOrEnds

(* The dial fails.                                                         *)
LEMMA DialFailedStep ==
    ASSUME IInv, NEW t \in work, DialFailed(t) PROVE IInv'
  <1>1. ~Settles(t) /\ "none" \notin Live
    BY DEF DialFailed, Settles, Live
  <1>2. \/ \E why \in Reasons \cup {None} :
               /\ status # "none" /\ status' \in Final /\ reason' = why
               /\ work' = (work \ {t}) \cup {[t EXCEPT !.at = "settle", !.why = why]}
        \/ UNCHANGED <<status, reason>> /\ Finish(t)
    BY <1>1 DEF DialFailed, EndCall, Reasons, Final
  <1> QED
    BY <1>1, <1>2, EndsCall DEF DialFailed

-----------------------------------------------------------------------------
(* Callio ends the call, and settles it.                                   *)

(* A hang-up, a timeout, an expiry or a cancellation.                      *)
LEMMA TerminateStep ==
    ASSUME IInv, NEW t \in work, Terminate(t) PROVE IInv'
  <1>1. ~Settles(t) /\ "none" \notin Live /\ t.why \in Reasons \cup {None}
    BY DEF Terminate, Settles, Live, IInv, TypeOK, Work
  <1>2. PICK asked \in {Live, {"RINGING"}, {"INITIATED"}} :
            EndCall(t, status \in asked, "TERMINATED", t.why)
    BY DEF Terminate
  <1>3. "none" \notin asked
    BY <1>1, <1>2
  <1>4. \/ \E why \in Reasons \cup {None} :
               /\ status # "none" /\ status' \in Final /\ reason' = why
               /\ work' = (work \ {t}) \cup {[t EXCEPT !.at = "settle", !.why = why]}
        \/ UNCHANGED <<status, reason>> /\ Finish(t)
    BY <1>1, <1>2, <1>3 DEF EndCall, Final
  <1> QED
    BY <1>1, <1>4, EndsCall DEF Terminate

(* The agent is let go.                                                    *)
LEMMA SettleStep ==
    ASSUME IInv, NEW t \in work, Settle(t) PROVE IInv'
  <1>1. /\ client' = FALSE /\ legs' = FALSE /\ held' = FALSE /\ ringTimer' = FALSE
        /\ line' \in Lines /\ net' \subseteq net \cup {"endedAnswered", "ended"}
        /\ claimed' \in BOOLEAN /\ Finish(t)
        /\ UNCHANGED <<row, repeats, bridged, tomb, history>>
    BY DEF Settle, Lines, IInv, TypeOK
  <1>2. net' \subseteq Events
    BY <1>1 DEF Events, Ends, IInv, TypeOK
  <1>3. Fields' /\ Calm
    BY <1>1, <1>2 DEF IInv, TypeOK, Fields, Calm, row, history
  <1> QED
    BY <1>1, <1>3, ComesToAnEnd

(* What the others clear.                                                  *)
LEMMA ClearStep == IInv /\ (Reconcile \/ ReleaseAgent \/ SweepClaims) => IInv'
  <1> SUFFICES ASSUME IInv, Reconcile \/ ReleaseAgent \/ SweepClaims PROVE IInv'
    OBVIOUS
  <1>1. /\ UNCHANGED <<row, provider, bridged, ringTimer, tomb, history, work>>
    BY DEF Reconcile, ReleaseAgent, SweepClaims, effects, redis
  <1>2. /\ client' \in BOOLEAN /\ legs' \in BOOLEAN /\ held' \in BOOLEAN /\ claimed' \in BOOLEAN
        /\ (client' => client) /\ (held' => held)
    <2>1. CASE Reconcile
      BY <2>1 DEF Reconcile, redis, IInv, TypeOK
    <2>2. CASE ReleaseAgent
      BY <2>2 DEF ReleaseAgent, redis, IInv, TypeOK
    <2>3. CASE SweepClaims
      BY <2>3 DEF SweepClaims, effects, IInv, TypeOK
    <2> QED
      BY <2>1, <2>2, <2>3
  <1>3. Fields' /\ Calm
    BY <1>1, <1>2 DEF IInv, TypeOK, Fields, Calm, row, provider, history
  <1> QED
    BY <1>1, <1>3, Waits DEF row

(* The tombstone lapses.                                                   *)
LEMMA LapseStep == IInv /\ TombstoneLapses => IInv'
  <1> SUFFICES ASSUME IInv, TombstoneLapses PROVE IInv'
    OBVIOUS
  <1>1. /\ tomb' = "none" /\ lapsed' = TRUE
        /\ UNCHANGED <<row, provider, effects, claimed, direction, hangUps, endedFirst, work>>
    BY DEF TombstoneLapses
  <1>2. TypeOK'
    BY <1>1 DEF IInv, TypeOK, row, provider, effects
  <1>3. SidesInv' /\ ArrivalInv' /\ HeldInv'
    BY <1>1 DEF IInv, SidesInv, ArrivalInv, HeldInv, Settles, Buried, row, provider, effects
  <1> QED
    BY <1>2, <1>3 DEF IInv

(* An agent's hang-up, a start, a cancellation, and the scans.             *)
LEMMA BeginStep ==
    IInv /\ (HangUp \/ StartCall \/ StuckScan \/ LineRingExpired) => IInv'
  <1> SUFFICES ASSUME IInv, HangUp \/ StartCall \/ StuckScan \/ LineRingExpired PROVE IInv'
    OBVIOUS
  <1>1. /\ UNCHANGED <<row, provider, client, legs, bridged, held, redis, direction, endedFirst,
                       lapsed>>
        /\ hangUps' = hangUps \/ (hangUps' = hangUps + 1 /\ repeats + hangUps < MaxExtras)
    BY DEF HangUp, StartCall, StuckScan, LineRingExpired, effects, history
  <1>2. hangUps' \in 0 .. MaxExtras /\ ringTimer' \in BOOLEAN
    <2>1. ringTimer' \in BOOLEAN
      BY DEF HangUp, StartCall, StuckScan, LineRingExpired, effects, IInv, TypeOK
    <2>2. hangUps \in 0 .. MaxExtras /\ repeats \in 0 .. MaxExtras
      BY DEF IInv, TypeOK
    <2> QED
      BY <1>1, <2>1, <2>2
  <1>3. Fields' /\ Calm
    BY <1>1, <1>2 DEF IInv, TypeOK, Fields, Calm, row, provider, redis
  <1>4. \/ work' = work
        \/ \E at \in {"hang", "timeOut", "expire"}, why \in Reasons \cup {None} :
               Begin(at, 0, None, why)
        \/ direction = "OUTBOUND" /\ Begin("hold", 0, None, None)
    BY DEF HangUp, StartCall, StuckScan, LineRingExpired, Reasons, IInv, TypeOK
  <1>5. CASE work' = work
    BY <1>1, <1>3, <1>5, Waits DEF row
  <1>6. CASE \E at \in {"hang", "timeOut", "expire"}, why \in Reasons \cup {None} :
                 Begin(at, 0, None, why)
    <2>1. PICK at \in {"hang", "timeOut", "expire"}, why \in Reasons \cup {None} :
                 Begin(at, 0, None, why)
      BY <1>6
    <2>2. at \in Ordinary /\ at \in Stages /\ 0 \in 0 .. MaxExtras /\ None \in Events \cup {None}
      BY <2>1 DEF Ordinary, Stages
    <2> QED
      BY <1>1, <1>3, <2>1, <2>2, Starts DEF row
  <1>7. CASE direction = "OUTBOUND" /\ Begin("hold", 0, None, None)
    <2>1. "hold" \in DialStages /\ "hold" \in Stages /\ 0 \in 0 .. MaxExtras
      BY DEF DialStages, Stages
    <2> QED
      BY <1>1, <1>3, <1>7, <2>1, Starts DEF row
  <1> QED
    BY <1>4, <1>5, <1>6, <1>7

(* The consumer cancels an intent.                                         *)
LEMMA CancelIntentStep == IInv /\ CancelIntent => IInv'
  <1> SUFFICES ASSUME IInv, CancelIntent PROVE IInv'
    OBVIOUS
  <1>1. /\ UNCHANGED <<row, provider, effects, redis, direction, endedFirst, lapsed>>
        /\ repeats + hangUps < MaxExtras /\ hangUps' = hangUps + 1
        /\ work' = work \cup {Untold("cancel")}
    BY DEF CancelIntent
  <1>2. hangUps' \in 0 .. MaxExtras
    BY <1>1 DEF IInv, TypeOK
  <1>3. Fields' /\ Calm
    BY <1>1, <1>2 DEF IInv, TypeOK, Fields, Calm, row, provider, effects, redis
  <1>4. PICK u \in Work : u.at = "cancel" /\ work' = work \cup {u}
    <2>1. Untold("cancel") \in Work /\ Untold("cancel").at = "cancel"
      BY DEF Untold, Work, Stages, Reasons, IInv, TypeOK
    <2> QED
      BY <1>1, <2>1
  <1>5. Plain(u)
    BY <1>4, OrdinaryIsPlain DEF Ordinary
  <1>6. TypeOK'
    BY <1>3, <1>4, TypeOfFieldsNext DEF IInv, TypeOK
  <1> QED
    BY <1>1, <1>3, <1>4, <1>5, <1>6, Begins DEF row

-----------------------------------------------------------------------------
(* The customer, the provider and its events.                              *)

(* What becomes of the line.                                               *)
LEMMA LineStep ==
    IInv /\ (CustomerCalls \/ CustomerRings \/ CustomerAnswers \/ CustomerDeclines \/ LineEnds)
    => IInv'
  <1> SUFFICES ASSUME IInv, CustomerCalls \/ CustomerRings \/ CustomerAnswers \/ CustomerDeclines
                            \/ LineEnds
               PROVE IInv'
    OBVIOUS
  <1>1. /\ UNCHANGED <<row, effects, redis, history, work, repeats>> /\ line' \in Lines
    BY DEF CustomerCalls, CustomerRings, CustomerAnswers, CustomerDeclines, LineEnds, Lines
  <1>2. /\ net' \subseteq Events
        /\ "offer" \in net' => direction = "INBOUND"
    BY DEF CustomerCalls, CustomerRings, CustomerAnswers, CustomerDeclines, LineEnds, Events, Ends,
           IInv, TypeOK, SidesInv
  <1>3. TypeOK'
    BY <1>1, <1>2 DEF IInv, TypeOK, row, effects, redis, history
  <1>4. SidesInv' /\ ArrivalInv' /\ HeldInv'
    BY <1>1, <1>2 DEF IInv, SidesInv, ArrivalInv, HeldInv, Settles, Buried, row, effects, redis,
                      history
  <1> QED
    BY <1>3, <1>4 DEF IInv

(* An agent answers.                                                       *)
LEMMA AgentAnswersStep == IInv /\ AgentAnswers => IInv'
  <1> SUFFICES ASSUME IInv, AgentAnswers PROVE IInv'
    OBVIOUS
  <1>1. /\ UNCHANGED <<reason, rang, known, net, repeats, legs, bridged, held, ringTimer, redis,
                       history, work>>
        /\ client' = FALSE /\ line' = "answered"
        /\ status' = status \/ status' = "IN_PROGRESS"
    BY DEF AgentAnswers
  <1>2. answered' \in BOOLEAN
    BY DEF AgentAnswers, IInv, TypeOK
  <1>3. status' \in Statuses /\ (status' = "none" => status = "none")
        /\ (status' = status \/ status' \notin Final)
    BY <1>1 DEF IInv, TypeOK, Statuses, Live, Final
  <1>4. TypeOK /\ client' \in BOOLEAN /\ line' \in Lines
    BY <1>1 DEF IInv, Lines
  <1>5. Fields'
    BY <1>1, <1>2, <1>3, <1>4 DEF TypeOK, Fields, redis, history
  <1>6. Calm
    BY <1>1, <1>3 DEF Calm, redis, history
  <1> QED
    BY <1>1, <1>3, <1>5, <1>6, Waits

(* A delivery takes nothing from the call but the event.                   *)
LEMMA Delivered ==
    ASSUME IInv, NEW e \in Events, NEW n \in 0 .. MaxExtras, Deliver(e, n)
    PROVE  /\ net' \subseteq net /\ net' \subseteq Events /\ repeats' \in 0 .. MaxExtras
           /\ line' = line /\ e \in net
  BY DEF Deliver, IInv, TypeOK

(* An event reaches a worker.                                              *)
LEMMA ReceiveStep == IInv /\ (\E n \in 0 .. MaxExtras : Receive(n)) => IInv'
  <1> SUFFICES ASSUME IInv, NEW n \in 0 .. MaxExtras, Receive(n) PROVE IInv'
    OBVIOUS
  <1>1. PICK e \in Events : Deliver(e, n)
    BY DEF Receive, ReceiveOffer, ReceiveAnswer, ReceiveEnd, ReceiveStatus, Events
  <1>2. /\ net' \subseteq net /\ net' \subseteq Events /\ repeats' \in 0 .. MaxExtras
        /\ line' = line
    BY <1>1, Delivered
  <1>3. UNCHANGED <<row, effects, tomb, history>> /\ claimed' \in BOOLEAN
    BY DEF Receive, ReceiveOffer, ReceiveAnswer, ReceiveEnd, ReceiveStatus, Claim, redis, IInv,
           TypeOK
  <1>4. Fields' /\ Calm
    BY <1>2, <1>3 DEF IInv, TypeOK, Fields, Calm, row, effects, history
  <1>5. \/ work' = work
        \/ "offer" \in net /\ Begin("tomb", n, "offer", None)
        \/ \E at \in {"endTimes", "endAgain", "ringTime", "answerTime", "reject", "fail",
                      "postAnswer"}, d \in Events : Begin(at, n, d, None)
    <2>1. CASE ReceiveOffer(n)
      BY <2>1 DEF ReceiveOffer, Deliver
    <2>2. CASE ReceiveAnswer(n)
      BY <2>2 DEF ReceiveAnswer, Events
    <2>3. CASE \E d \in Ends : ReceiveEnd(d, n)
      BY <2>3 DEF ReceiveEnd, Events
    <2>4. CASE \E d \in {"RINGING", "ACCEPTED", "REJECTED", "FAILED"} : ReceiveStatus(d, n)
      <3>1. PICK d \in {"RINGING", "ACCEPTED", "REJECTED", "FAILED"} : ReceiveStatus(d, n)
        BY <2>4
      <3>2. d \in Events /\ FirstStage(d) \in {"ringTime", "answerTime", "reject", "fail"}
        BY <3>1 DEF Events, FirstStage
      <3> QED
        BY <3>1, <3>2 DEF ReceiveStatus
    <2> QED
      BY <2>1, <2>2, <2>3, <2>4 DEF Receive
  <1>6. CASE work' = work
    BY <1>3, <1>4, <1>6, Waits DEF row
  <1>7. CASE "offer" \in net /\ Begin("tomb", n, "offer", None)
    <2>1. /\ "tomb" \in ArrivalStages \ Created /\ "tomb" \in Stages /\ "offer" \in Events
          /\ direction = "INBOUND"
      BY <1>7 DEF ArrivalStages, Created, Stages, Events, IInv, SidesInv
    <2> QED
      BY <1>3, <1>4, <1>7, <2>1, Starts DEF row
  <1>8. CASE \E at \in {"endTimes", "endAgain", "ringTime", "answerTime", "reject", "fail",
                        "postAnswer"}, d \in Events : Begin(at, n, d, None)
    <2>1. PICK at \in {"endTimes", "endAgain", "ringTime", "answerTime", "reject", "fail",
                       "postAnswer"}, d \in Events : Begin(at, n, d, None)
      BY <1>8
    <2>2. at \in Ordinary /\ at \in Stages
      BY <2>1 DEF Ordinary, Stages, EndStages, StatusStages
    <2> QED
      BY <1>3, <1>4, <2>1, <2>2, Starts DEF row
  <1> QED
    BY <1>5, <1>6, <1>7, <1>8

-----------------------------------------------------------------------------
(* The invariant.                                                          *)

(* Before the call is there.                                               *)
LEMMA InitStep == Init => IInv
  <1> SUFFICES ASSUME Init PROVE IInv
    OBVIOUS
  <1>1. /\ status \in Statuses /\ status \notin Final /\ line \in Lines
        /\ work = {} /\ net = {} /\ ~client /\ ~held /\ ~endedFirst
    BY DEF Init, Statuses, Live, Final, Lines
  <1>2. /\ answered \in BOOLEAN /\ rang \in BOOLEAN /\ known \in BOOLEAN /\ claimed \in BOOLEAN
        /\ client \in BOOLEAN /\ legs \in BOOLEAN /\ bridged \in BOOLEAN /\ held \in BOOLEAN
        /\ ringTimer \in BOOLEAN /\ endedFirst \in BOOLEAN /\ lapsed \in BOOLEAN
    BY DEF Init
  <1>3. /\ direction \in Directions /\ reason \in Reasons \cup {None} /\ tomb = "none"
        /\ repeats \in 0 .. MaxExtras /\ hangUps \in 0 .. MaxExtras
    BY DEF Init
  <1>4. TypeOK
    BY <1>1, <1>2, <1>3 DEF TypeOK
  <1> QED
    BY <1>1, <1>4 DEF IInv, SidesInv, ArrivalInv, HeldInv, Buried

(* Nothing happens.                                                        *)
LEMMA StutterStep == IInv /\ UNCHANGED vars => IInv'
  <1> SUFFICES ASSUME IInv, UNCHANGED vars PROVE IInv'
    OBVIOUS
  <1>1. Fields' /\ Calm /\ work' = work /\ status' = status
    BY DEF IInv, TypeOK, Fields, Calm, vars, row, provider, effects, redis, history
  <1> QED
    BY <1>1, Waits

(* A handler goes on.                                                      *)
LEMMA ContinueStep ==
    ASSUME IInv, NEW t \in work, Continue(t) PROVE IInv'
  <1>1. CASE \/ CheckTombstone(t) \/ CreateOver(t) \/ CreateCall(t) \/ LateCheck(t) \/ EndLate(t)
             \/ EndDuplicate(t) \/ RejectCall(t) \/ MissLine(t) \/ OfferLeg(t) \/ ShowCall(t)
    BY <1>1, CheckTombstoneStep, CreateStep, LateCheckStep, EndLateStep, EndDuplicateStep,
       RejectStep, OfferLegStep, ShowCallStep
  <1>2. CASE \/ LookUpAgain(t) \/ Entomb(t) \/ EndTimes(t) \/ EndStatus(t) \/ EndFailed(t)
             \/ EndCorrect(t) \/ RingTime(t) \/ RingStatus(t) \/ AnswerTime(t) \/ AnswerCorrect(t)
             \/ AnswerStatus(t) \/ Decline(t) \/ PostAnswer(t)
    BY <1>2, LookUpAgainStep, EntombStep, EndTimesStep, EndStatusStep, EndFailedStep,
       EndCorrectStep, RingStep, AnswerStep, DeclineStep, PostAnswerStep
  <1>3. CASE \/ Hold(t) \/ DialTime(t) \/ DialLeg(t) \/ Dial(t) \/ Dialled(t) \/ DialFailed(t)
             \/ Terminate(t) \/ Settle(t)
    BY <1>3, HoldStep, DialStep, DialFailedStep, TerminateStep, SettleStep
  <1> QED
    BY <1>1, <1>2, <1>3 DEF Continue

(* Each step keeps the invariant.                                          *)
LEMMA NextStep == IInv /\ [Next]_vars => IInv'
  <1> SUFFICES ASSUME IInv, [Next]_vars PROVE IInv'
    OBVIOUS
  <1>1. CASE CustomerCalls \/ CustomerRings \/ CustomerAnswers \/ CustomerDeclines \/ LineEnds
    BY <1>1, LineStep
  <1>2. CASE AgentAnswers
    BY <1>2, AgentAnswersStep
  <1>3. CASE \E n \in 0 .. MaxExtras : Receive(n)
    BY <1>3, ReceiveStep
  <1>4. CASE \E t \in work : Continue(t)
    BY <1>4, ContinueStep
  <1>5. CASE StartCall \/ HangUp \/ StuckScan \/ LineRingExpired
    BY <1>5, BeginStep
  <1>6. CASE CancelIntent
    BY <1>6, CancelIntentStep
  <1>7. CASE Reconcile \/ ReleaseAgent \/ SweepClaims
    BY <1>7, ClearStep
  <1>8. CASE TombstoneLapses
    BY <1>8, LapseStep
  <1>9. CASE UNCHANGED vars
    BY <1>9, StutterStep
  <1> QED
    BY <1>1, <1>2, <1>3, <1>4, <1>5, <1>6, <1>7, <1>8, <1>9 DEF Next

(* Whatever the order of the events, their repetitions and the hang-ups:   *)
(* the invariant holds throughout.                                         *)
THEOREM Invariance == Spec => []IInv
  BY InitStep, NextStep, PTL DEF Spec

(* Every variable has its type, in particular the work in hand.            *)
THEOREM TypeCorrect == Spec => []TypeOK
  <1>1. IInv => TypeOK
    BY DEF IInv
  <1> QED
    BY <1>1, Invariance, PTL

(* A call that the provider ended before its offer arrived is shown to     *)
(* nobody (the two looks at the tombstone in ChannelIngress), in any order *)
(* of deliveries and with any number of repetitions, while the tombstone   *)
(* lasts.                                                                  *)
THEOREM EndedFirstIsSilent == Spec => []EndedFirstRingsNobody
  <1>1. IInv => EndedFirstRingsNobody
    BY DEF IInv, ArrivalInv, Buried, EndedFirstRingsNobody
  <1> QED
    BY <1>1, Invariance, PTL

(* The agent of an outbound call that is over is about to be released:     *)
(* holdForOwnCall's guard on the status and the ends' settling leave no    *)
(* agent held for good, whichever handlers race.                           *)
THEOREM HeldAgentsAreSettled == Spec => []HeldAgentIsSettled
  <1>1. IInv => HeldAgentIsSettled
    BY DEF IInv, HeldInv, Settles, HeldAgentIsSettled
  <1> QED
    BY <1>1, Invariance, PTL

=============================================================================
