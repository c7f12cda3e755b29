-------------------------- MODULE ConsumerEventsProofs --------------------------
(***************************************************************************)
(* Theorems about ConsumerEvents, for any finite number of workers and any *)
(* number of attempts, failed statements, crashes and redeliveries.        *)
(***************************************************************************)
EXTENDS ConsumerEvents, FiniteSetTheorems, TLAPS

USE WorkersAssumption, BoundsAssumption

-----------------------------------------------------------------------------
(* The dispatchers' ticks.                                                 *)

(* A step of one worker's tick leaves the others' alone.                   *)
LEMMA Ticking ==
    ASSUME TypeOK, NEW w \in Workers, NEW d \in Ticks, dispatcher' = [dispatcher EXCEPT ![w] = d]
    PROVE  /\ dispatcher' \in [Workers -> Ticks] /\ dispatcher'[w] = d
           /\ \A v \in Workers : v # w => dispatcher'[v] = dispatcher[v]
  BY DEF TypeOK

(* Going on to the next step keeps the attempts that were read.            *)
LEMMA GoesOn ==
    ASSUME TypeOK, NEW w \in Workers, NEW step \in {"find", "acked", "refused", "failing"}, Goes(w, step)
    PROVE  /\ dispatcher' \in [Workers -> Ticks]
           /\ dispatcher'[w].at = step /\ dispatcher'[w].attempts = dispatcher[w].attempts
           /\ \A v \in Workers : v # w => dispatcher'[v] = dispatcher[v]
  <1>1. dispatcher[w] \in Ticks
    BY DEF TypeOK
  <1>2. /\ [dispatcher[w] EXCEPT !.at = step] \in Ticks
        /\ [dispatcher[w] EXCEPT !.at = step].at = step
        /\ [dispatcher[w] EXCEPT !.at = step].attempts = dispatcher[w].attempts
    BY <1>1 DEF Ticks
  <1> QED
    BY <1>2, Ticking DEF Goes

(* A tick that ends is at rest.                                            *)
LEMMA TickEnds ==
    ASSUME TypeOK, NEW w \in Workers, Ends(w)
    PROVE  /\ dispatcher' \in [Workers -> Ticks] /\ dispatcher'[w].at = "none"
           /\ \A v \in Workers : v # w => dispatcher'[v] = dispatcher[v]
  <1>1. Rest \in Ticks /\ Rest.at = "none"
    BY DEF Rest, Ticks
  <1> QED
    BY <1>1, Ticking DEF Ends

(* What is in flight is finite, grows by a request and shrinks by one.     *)
LEMMA FlightFinite == IsFiniteSet(InFlight) /\ Cardinality(InFlight) \in Nat
  <1>1. InFlight \subseteq Workers
    BY DEF InFlight
  <1> QED
    BY <1>1, FS_Subset, FS_CardinalityType

(* A request more.                                                         *)
LEMMA FlightBegins ==
    ASSUME NEW w \in Workers, w \notin InFlight, InFlight' = InFlight \cup {w}
    PROVE  Cardinality(InFlight') = Cardinality(InFlight) + 1
  BY FlightFinite, FS_AddElement

(* A request fewer.                                                        *)
LEMMA FlightEnds ==
    ASSUME NEW w \in InFlight, InFlight' = InFlight \ {w}
    PROVE  Cardinality(InFlight') = Cardinality(InFlight) - 1
  BY FlightFinite, FS_RemoveElement

(* The write by itself is of the right type.                               *)
LEMMA PublishTypes ==
    ASSUME TypeOK, NEW w \in Workers, NEW step \in {"none", "check", "write", "done", "lost"},
           Publishes(w, step)
    PROVE  /\ publisher' \in [Workers -> {"none", "check", "write", "done", "lost"}]
           /\ publisher'[w] = step
           /\ \A v \in Workers : v # w => publisher'[v] = publisher[v]
  BY DEF TypeOK, Publishes

(* A fault is counted within its bound.                                    *)
LEMMA FaultTypes == TypeOK /\ (Fault \/ UNCHANGED faults) => faults' \in 0 .. MaxFaults
  BY DEF TypeOK, Fault

(* Nothing has happened yet.                                               *)
LEMMA InitStep == Init => IInv
  <1> SUFFICES ASSUME Init PROVE IInv
    OBVIOUS
  <1>1. TypeOK
    <2>1. NoEvent \in Events /\ Rest \in Ticks
      BY DEF NoEvent, Rest, Events, Ticks
    <2>2. /\ sent \in 0 .. MaxAttempts /\ faults \in 0 .. MaxFaults
          /\ redeliveries \in 0 .. MaxRedeliveries /\ 0 \in 0 .. WriteTries
      BY DEF Init
    <2>3. /\ publisher \in [Workers -> {"none", "check", "write", "done", "lost"}]
          /\ tries \in [Workers -> 0 .. WriteTries] /\ dispatcher \in [Workers -> Ticks]
      BY <2>1, <2>2 DEF Init
    <2> QED
      BY <2>1, <2>2, <2>3 DEF Init, TypeOK
  <1>2. InFlight = {}
    BY DEF Init, InFlight, Rest
  <1>3. Cardinality(InFlight) = 0
    BY <1>2, FS_EmptySet
  <1>4. AttemptsAreSent
    BY <1>2, <1>3 DEF Init, AttemptsAreSent, NoEvent
  <1>5. TriesLeft /\ DoneIsWritten /\ VerdictIsEarned /\ \A w \in Workers : dispatcher[w].at # "acked"
    BY DEF Init, TriesLeft, DoneIsWritten, VerdictIsEarned, NoEvent, Rest
  <1> QED
    BY <1>1, <1>2, <1>4, <1>5 DEF IInv

(* A step that begins no request and counts no attempt.                    *)
LEMMA Unsent ==
    ASSUME IInv, TypeOK', TriesLeft', DoneIsWritten', InFlight' \subseteq InFlight,
           \A w \in InFlight' : dispatcher'[w].attempts = dispatcher[w].attempts,
           \A w \in Workers : dispatcher'[w].at = "acked" => acked',
           event'.status \in {event.status, "PENDING"}, event'.attempts \in {event.attempts, 0},
           acked => acked', sent' = sent
    PROVE  IInv'
  <1>1. /\ event.attempts \in Nat /\ event'.attempts \in Nat /\ event'.attempts <= event.attempts
        /\ sent \in Nat
    BY DEF IInv, TypeOK, Events
  <1>2. /\ IsFiniteSet(InFlight') /\ Cardinality(InFlight') <= Cardinality(InFlight)
        /\ Cardinality(InFlight') \in Nat /\ Cardinality(InFlight) \in Nat
    BY FlightFinite, FS_Subset, FS_CardinalityType
  <1>3. AttemptsAreSent'
    BY <1>1, <1>2 DEF IInv, AttemptsAreSent
  <1>4. VerdictIsEarned'
    BY DEF IInv, VerdictIsEarned, Earned
  <1>5. InFlight' # {} => event'.status # "NONE"
    BY DEF IInv
  <1> QED
    BY <1>3, <1>4, <1>5 DEF IInv

(* A step that leaves the requests and the event alone.                    *)
LEMMA Elsewhere ==
    ASSUME IInv, TypeOK', TriesLeft', DoneIsWritten',
           UNCHANGED <<event, dispatcher, acked, sent>>
    PROVE  IInv'
  <1>1. InFlight' = InFlight /\ \A w \in Workers : dispatcher'[w].at = "acked" => acked'
    BY DEF IInv, InFlight
  <1> QED
    BY <1>1, Unsent

-----------------------------------------------------------------------------
(* The write.                                                              *)

(* Seeing the transition.                                                  *)
LEMMA ObserveStep == IInv /\ (\E w \in Workers : Observe(w)) => IInv'
  <1> SUFFICES ASSUME IInv, NEW w \in Workers, Observe(w) PROVE IInv'
    OBVIOUS
  <1>1. TypeOK /\ TypeOK'
    BY PublishTypes DEF IInv, TypeOK, Observe, outgoing
  <1>2. DoneIsWritten' /\ TriesLeft'
    BY <1>1, PublishTypes DEF IInv, DoneIsWritten, TriesLeft, Observe
  <1> QED
    BY <1>1, <1>2, Elsewhere DEF Observe, outgoing

(* Looking for the row first.                                              *)
LEMMA CheckStep == IInv /\ (\E w \in Workers : Check(w)) => IInv'
  <1> SUFFICES ASSUME IInv, NEW w \in Workers, Check(w) PROVE IInv'
    OBVIOUS
  <1>0. TypeOK /\ (Fault \/ UNCHANGED faults) /\ UNCHANGED <<tries, event, outgoing>>
    BY DEF IInv, Check
  <1>1. PICK step \in {"done", "write", "lost"} :
            Publishes(w, step) /\ (step = "done" => event # NoEvent)
    BY DEF Check
  <1>2. TypeOK'
    BY <1>0, <1>1, PublishTypes, FaultTypes DEF TypeOK, outgoing
  <1>3. DoneIsWritten' /\ TriesLeft'
    <2>1. publisher[w] = "check"
      BY DEF Check
    <2> QED
      BY <1>0, <1>1, <2>1, PublishTypes DEF IInv, DoneIsWritten, TriesLeft
  <1> QED
    BY <1>0, <1>2, <1>3, Elsewhere DEF outgoing

(* Writing it, or failing to.                                              *)
LEMMA WriteStep == IInv /\ (\E w \in Workers : Write(w)) => IInv'
  <1> SUFFICES ASSUME IInv, NEW w \in Workers, Write(w) PROVE IInv'
    OBVIOUS
  <1>0. TypeOK /\ UNCHANGED outgoing
    BY DEF IInv, Write
  <1>1. CASE Publishes(w, "done") /\ UNCHANGED <<tries, faults>>
             /\ event' = IF event = NoEvent THEN [NoEvent EXCEPT !.status = "PENDING", !.due = TRUE]
                         ELSE event
    <2>1. /\ event' \in Events /\ event'.status # "NONE"
          /\ event'.status \in {event.status, "PENDING"} /\ event'.attempts = event.attempts
      BY <1>0, <1>1 DEF TypeOK, Events, NoEvent
    <2>2. TypeOK'
      BY <1>0, <1>1, <2>1, PublishTypes DEF TypeOK, outgoing
    <2>3. DoneIsWritten' /\ TriesLeft'
      BY <1>0, <1>1, <2>1, PublishTypes DEF IInv, DoneIsWritten, TriesLeft, NoEvent
    <2>4. InFlight' = InFlight /\ \A v \in Workers : dispatcher'[v].at = "acked" => acked'
      BY <1>0 DEF IInv, InFlight, outgoing
    <2> QED
      BY <1>0, <2>1, <2>2, <2>3, <2>4, Unsent DEF outgoing
  <1>2. CASE /\ Fault /\ UNCHANGED event /\ publisher[w] = "write"
             /\ tries' = [tries EXCEPT ![w] = @ + 1]
             /\ Publishes(w, IF tries[w] + 1 = WriteTries THEN "lost" ELSE "write")
    <2>1. PICK step \in {"lost", "write"} :
              /\ Publishes(w, step) /\ (step = "write" => tries[w] + 1 # WriteTries)
      BY <1>2
    <2>2. tries[w] \in 0 .. WriteTries /\ tries[w] < WriteTries
      BY <1>0, <1>2 DEF IInv, TypeOK, TriesLeft
    <2>3. /\ tries' \in [Workers -> 0 .. WriteTries] /\ tries'[w] = tries[w] + 1
          /\ \A v \in Workers : v # w => tries'[v] = tries[v]
      BY <1>0, <1>2, <2>2 DEF TypeOK
    <2>4. TypeOK'
      BY <1>0, <1>2, <2>1, <2>3, PublishTypes, FaultTypes DEF TypeOK, outgoing
    <2>5. TriesLeft'
      <3>1. publisher'[w] = "write" => tries'[w] < WriteTries
        BY <1>0, <2>1, <2>2, <2>3, PublishTypes
      <3>2. ASSUME NEW v \in Workers, v # w PROVE publisher'[v] = publisher[v] /\ tries'[v] = tries[v]
        BY <1>0, <2>1, <2>3, <3>2, PublishTypes
      <3>3. publisher'[w] \in {"lost", "write"}
        BY <1>0, <2>1, PublishTypes
      <3> QED
        BY <3>1, <3>2, <3>3 DEF IInv, TriesLeft
    <2>6. DoneIsWritten'
      BY <1>0, <1>2, <2>1, PublishTypes DEF IInv, DoneIsWritten
    <2> QED
      BY <1>0, <1>2, <2>4, <2>5, <2>6, Elsewhere DEF outgoing
  <1> QED
    BY <1>1, <1>2 DEF Write

-----------------------------------------------------------------------------
(* The count of the attempts.                                              *)

(* A verdict counts an attempt.                                            *)
LEMMA CountsAttempt ==
    ASSUME TypeOK, NEW verdict \in {"DELIVERED", "FAILED"},
           event' = [event EXCEPT !.status = verdict, !.attempts = @ + 1]
    PROVE  /\ event' \in Events /\ event'.status = verdict
           /\ event'.attempts = event.attempts + 1
  <1>1. PICK n \in Nat : n = event.attempts + 1
    BY DEF TypeOK, Events
  <1>2. event' = [event EXCEPT !.status = verdict, !.attempts = n]
    BY <1>1
  <1>3. event \in Events
    BY DEF TypeOK
  <1> QED
    BY <1>1, <1>2, <1>3 DEF Events

(* A request whose outcome is counted is in flight no more.                *)
LEMMA Counted ==
    ASSUME IInv, NEW w \in InFlight, Ends(w),
           event' \in Events, event'.attempts = event.attempts + 1,
           \/ event'.status = event.status
           \/ event'.status = "DELIVERED" /\ acked
           \/ event'.status = "FAILED" /\ sent >= MaxAttempts,
           UNCHANGED <<publisher, tries, lease, stopped, acked, sent, faults, redeliveries>>
    PROVE  IInv'
  <1>0. /\ TypeOK /\ w \in Workers /\ event.status # "NONE"
        /\ event.attempts \in Nat /\ sent \in Nat
    BY DEF IInv, TypeOK, InFlight, Events
  <1>1. /\ dispatcher' \in [Workers -> Ticks] /\ dispatcher'[w].at = "none"
        /\ \A v \in Workers : v # w => dispatcher'[v] = dispatcher[v]
    BY <1>0, TickEnds
  <1>2. event'.status # "NONE"
    BY <1>0
  <1>3. TypeOK'
    BY <1>0, <1>1, <1>2 DEF TypeOK
  <1>4. InFlight' = InFlight \ {w}
    BY <1>0, <1>1 DEF InFlight
  <1>5. AttemptsAreSent'
    <2> DEFINE c == Cardinality(InFlight)
    <2>1. c \in Nat /\ Cardinality(InFlight') = c - 1
      BY <1>4, FlightEnds, FlightFinite
    <2>2. sent < MaxAttempts =>
            event.attempts + c <= sent /\ \A v \in InFlight : dispatcher[v].attempts + 1 <= sent
      BY DEF IInv, AttemptsAreSent
    <2> HIDE DEF c
    <2>3. sent < MaxAttempts => event'.attempts + Cardinality(InFlight') <= sent
      <3>1. PICK n \in Int : n = Cardinality(InFlight') /\ n = c - 1
        BY <2>1
      <3>2. sent < MaxAttempts => event.attempts + 1 + n <= sent
        BY <1>0, <2>1, <2>2, <3>1
      <3> QED
        BY <3>1, <3>2
    <2>4. \A v \in InFlight' : v \in InFlight /\ dispatcher'[v] = dispatcher[v]
      BY <1>1, <1>4 DEF InFlight
    <2> QED
      BY <2>2, <2>3, <2>4 DEF AttemptsAreSent
  <1>6. VerdictIsEarned'
    BY DEF IInv, VerdictIsEarned, Earned
  <1>7. \A v \in Workers : dispatcher'[v].at = "acked" => acked'
    BY <1>1 DEF IInv
  <1>8. DoneIsWritten' /\ TriesLeft'
    BY <1>2 DEF IInv, DoneIsWritten, TriesLeft, NoEvent
  <1> QED
    BY <1>2, <1>3, <1>5, <1>6, <1>7, <1>8 DEF IInv

-----------------------------------------------------------------------------
(* The tick.                                                               *)

(* A step of the tick that changes neither the event nor what was sent:    *)
(* on to another step with the attempts it read, or to its end.            *)
LEMMA TickGoesOn ==
    ASSUME IInv, NEW w \in Workers, TypeOK',
           dispatcher'[w].at = "none" \/ dispatcher'[w].attempts = dispatcher[w].attempts,
           \A v \in Workers : v # w => dispatcher'[v] = dispatcher[v],
           w \notin InFlight => dispatcher'[w].at \in {"none", "find"},
           dispatcher'[w].at = "acked" => acked',
           acked => acked', UNCHANGED <<event, incoming, sent>>
    PROVE  IInv'
  <1>1. InFlight' \subseteq InFlight /\ \A v \in InFlight' : dispatcher'[v].attempts = dispatcher[v].attempts
    BY DEF InFlight
  <1>2. \A v \in Workers : dispatcher'[v].at = "acked" => acked'
    BY DEF IInv
  <1>3. DoneIsWritten' /\ TriesLeft'
    BY DEF IInv, DoneIsWritten, TriesLeft, incoming
  <1> QED
    BY <1>1, <1>2, <1>3, Unsent

(* Taking the lease.                                                       *)
LEMMA HoldLeaseStep == IInv /\ (\E w \in Workers : HoldLease(w)) => IInv'
  <1> SUFFICES ASSUME IInv, NEW w \in Workers, HoldLease(w) PROVE IInv'
    OBVIOUS
  <1>0. TypeOK /\ Goes(w, "find") /\ lease' = w
        /\ UNCHANGED <<incoming, event, stopped, acked, sent, faults, redeliveries>>
    BY DEF IInv, HoldLease, counts
  <1>1. TypeOK'
    BY <1>0, GoesOn DEF TypeOK, incoming
  <1> QED
    BY <1>0, <1>1, GoesOn, TickGoesOn

(* Losing it.                                                              *)
LEMMA LeaseLapsesStep == IInv /\ LeaseLapses => IInv'
  <1> SUFFICES ASSUME IInv, LeaseLapses PROVE IInv'
    OBVIOUS
  <1>0. TypeOK /\ Fault /\ lease' = None
        /\ UNCHANGED <<publisher, tries, event, dispatcher, stopped, acked, sent, redeliveries>>
    BY DEF IInv, LeaseLapses, incoming, counts
  <1>1. TypeOK'
    BY <1>0, FaultTypes DEF TypeOK
  <1>2. DoneIsWritten' /\ TriesLeft'
    BY <1>0 DEF IInv, DoneIsWritten, TriesLeft
  <1> QED
    BY <1>0, <1>1, <1>2, Elsewhere

(* Reading the row and sending it: a request more, and one more sent.      *)
LEMMA FindDueStep == IInv /\ (\E w \in Workers : FindDue(w)) => IInv'
  <1> SUFFICES ASSUME IInv, NEW w \in Workers, FindDue(w) PROVE IInv'
    OBVIOUS
  <1>0. TypeOK /\ dispatcher[w].at = "find"
        /\ UNCHANGED <<publisher, tries, event, lease, stopped, acked, faults, redeliveries>>
    BY DEF IInv, FindDue, At, incoming
  <1>1. CASE Ends(w) /\ UNCHANGED sent
    <2>1. TypeOK'
      BY <1>0, <1>1, TickEnds DEF TypeOK
    <2> QED
      BY <1>0, <1>1, <2>1, TickEnds, TickGoesOn DEF incoming
  <1>2. CASE /\ event.status = "PENDING" /\ sent' = OneMore(sent)
             /\ dispatcher' = [dispatcher EXCEPT ![w] = [at |-> "post", attempts |-> event.attempts]]
    <2>1. event.attempts \in Nat /\ sent \in 0 .. MaxAttempts
      BY <1>0 DEF TypeOK, Events
    <2>2. [at |-> "post", attempts |-> event.attempts] \in Ticks
      BY <2>1 DEF Ticks
    <2>3. /\ dispatcher' \in [Workers -> Ticks]
          /\ dispatcher'[w].at = "post" /\ dispatcher'[w].attempts = event.attempts
          /\ \A v \in Workers : v # w => dispatcher'[v] = dispatcher[v]
      BY <1>0, <1>2, <2>2, Ticking
    <2>4. sent' \in 0 .. MaxAttempts /\ (sent' < MaxAttempts => sent < MaxAttempts /\ sent' = sent + 1)
      BY <1>2, <2>1 DEF OneMore
    <2>5. TypeOK'
      BY <1>0, <2>3, <2>4 DEF TypeOK
    <2>6. w \notin InFlight /\ InFlight' = InFlight \cup {w}
      BY <1>0, <2>3 DEF InFlight
    <2>7. AttemptsAreSent'
      <3> DEFINE c == Cardinality(InFlight)
      <3>1. Cardinality(InFlight') = c + 1 /\ c \in Nat
        BY <2>6, FlightBegins, FlightFinite
      <3> HIDE DEF c
      <3>2. ASSUME sent' < MaxAttempts PROVE event'.attempts + Cardinality(InFlight') <= sent'
        <4>1. event.attempts + c <= sent
          BY <2>4, <3>2 DEF IInv, AttemptsAreSent, c
        <4>2. PICK s \in Nat : s = sent' /\ s = sent + 1
          BY <2>1, <2>4, <3>2
        <4>3. PICK n \in Nat : n = Cardinality(InFlight') /\ n = c + 1
          BY <3>1
        <4>4. event.attempts + n <= s
          BY <2>1, <3>1, <4>1, <4>2, <4>3
        <4> QED
          BY <1>0, <4>2, <4>3, <4>4
      <3>3. ASSUME sent' < MaxAttempts, NEW v \in InFlight' PROVE dispatcher'[v].attempts + 1 <= sent'
        <4>1. sent' = sent + 1 /\ sent < MaxAttempts /\ event.attempts + c <= sent
          BY <2>4, <3>3 DEF IInv, AttemptsAreSent, c
        <4>2. CASE v = w
          BY <2>1, <2>3, <3>1, <4>1, <4>2
        <4>3. CASE v # w
          <5>1. v \in InFlight /\ v \in Workers /\ dispatcher'[v] = dispatcher[v]
            BY <2>3, <2>6, <4>3 DEF InFlight
          <5>2. dispatcher[v].attempts + 1 <= sent /\ dispatcher[v].attempts \in Nat
            BY <1>0, <4>1, <5>1 DEF IInv, AttemptsAreSent, TypeOK, Ticks
          <5> QED
            BY <2>1, <4>1, <5>1, <5>2
        <4> QED
          BY <4>2, <4>3
      <3> QED
        BY <3>2, <3>3 DEF AttemptsAreSent
    <2>8. VerdictIsEarned' /\ DoneIsWritten' /\ TriesLeft' /\ event'.status # "NONE"
      BY <1>0, <1>2 DEF IInv, VerdictIsEarned, DoneIsWritten, TriesLeft
    <2>9. \A v \in Workers : dispatcher'[v].at = "acked" => acked'
      BY <1>0, <2>3 DEF IInv
    <2> QED
      BY <2>5, <2>7, <2>8, <2>9 DEF IInv
  <1> QED
    BY <1>1, <1>2 DEF FindDue

(* The consumer's answer.                                                  *)
LEMMA PostStep == IInv /\ (\E w \in Workers : Post(w)) => IInv'
  <1> SUFFICES ASSUME IInv, NEW w \in Workers, Post(w) PROVE IInv'
    OBVIOUS
  <1>0. TypeOK /\ w \in InFlight
        /\ UNCHANGED <<publisher, tries, event, lease, stopped, sent, faults, redeliveries>>
    BY DEF IInv, Post, At, InFlight, incoming
  <1>1. PICK step \in {"acked", "refused", "failing"} :
            Goes(w, step) /\ acked' \in BOOLEAN /\ (acked => acked') /\ (step = "acked" => acked')
    BY <1>0 DEF Post, TypeOK
  <1>2. TypeOK'
    BY <1>0, <1>1, GoesOn DEF TypeOK
  <1> QED
    BY <1>0, <1>1, <1>2, GoesOn, TickGoesOn DEF incoming

(* Its delivery is marked, or that fails.                                  *)
LEMMA MarkDeliveredStep == IInv /\ (\E w \in Workers : MarkDelivered(w)) => IInv'
  <1> SUFFICES ASSUME IInv, NEW w \in Workers, MarkDelivered(w) PROVE IInv'
    OBVIOUS
  <1>0. TypeOK /\ w \in InFlight /\ dispatcher[w].at = "acked" /\ acked
        /\ UNCHANGED <<publisher, tries, lease, stopped, acked, sent, redeliveries>>
    BY DEF IInv, MarkDelivered, At, InFlight, incoming, counts
  <1>1. CASE Fault /\ Goes(w, "failing") /\ UNCHANGED event
    <2>1. TypeOK'
      BY <1>0, <1>1, GoesOn, FaultTypes DEF TypeOK
    <2> QED
      BY <1>0, <1>1, <2>1, GoesOn, TickGoesOn DEF incoming
  <1>2. CASE /\ event' = [event EXCEPT !.status = "DELIVERED", !.attempts = @ + 1]
             /\ Ends(w) /\ UNCHANGED faults
    <2>1. /\ event' \in Events /\ event'.status = "DELIVERED"
          /\ event'.attempts = event.attempts + 1
      BY <1>0, <1>2, CountsAttempt
    <2> QED
      BY <1>0, <1>2, <2>1, Counted
  <1> QED
    BY <1>1, <1>2 DEF MarkDelivered

(* An attempt has failed: the last one ends the event, unless the row      *)
(* cannot be marked.                                                       *)
LEMMA MarkAttemptFailedStep == IInv /\ (\E w \in Workers : MarkAttemptFailed(w)) => IInv'
  <1> SUFFICES ASSUME IInv, NEW w \in Workers, MarkAttemptFailed(w) PROVE IInv'
    OBVIOUS
  <1>0. TypeOK /\ w \in InFlight
        /\ UNCHANGED <<publisher, tries, lease, stopped, acked, sent, redeliveries>>
    BY DEF IInv, MarkAttemptFailed, At, InFlight, incoming, counts
  <1>1. CASE Ends(w) /\ Fault /\ UNCHANGED event
    <2>1. TypeOK'
      BY <1>0, <1>1, TickEnds, FaultTypes DEF TypeOK
    <2> QED
      BY <1>0, <1>1, <2>1, TickEnds, TickGoesOn DEF incoming
  <1>2. CASE Ends(w) /\ UNCHANGED faults /\ GivesUp(w)
             /\ event' = [event EXCEPT !.status = "FAILED", !.attempts = @ + 1]
    <2>1. /\ event' \in Events /\ event'.status = "FAILED"
          /\ event'.attempts = event.attempts + 1
      BY <1>0, <1>2, CountsAttempt
    <2>2. sent >= MaxAttempts
      <3>1. sent \in Nat /\ dispatcher[w].attempts \in Nat
            /\ (sent < MaxAttempts => dispatcher[w].attempts + 1 <= sent)
        BY <1>0 DEF IInv, AttemptsAreSent, TypeOK, Ticks, InFlight
      <3> QED
        BY <1>2, <3>1 DEF GivesUp
    <2> QED
      BY <1>0, <1>2, <2>1, <2>2, Counted
  <1>3. CASE Ends(w) /\ UNCHANGED faults
             /\ event' = [event EXCEPT !.due = FALSE, !.attempts = @ + 1]
    <2>1. /\ event' \in Events /\ event'.status = event.status
          /\ event'.attempts = event.attempts + 1
      <3>1. PICK n \in Nat : n = event.attempts + 1
        BY <1>0 DEF TypeOK, Events
      <3>2. event' = [event EXCEPT !.due = FALSE, !.attempts = n] /\ event \in Events
        BY <1>0, <1>3, <3>1 DEF TypeOK
      <3> QED
        BY <3>1, <3>2 DEF Events
    <2> QED
      BY <1>0, <1>3, <2>1, Counted
  <1>4. CASE Goes(w, "failing") /\ Fault /\ UNCHANGED event
    <2>1. TypeOK'
      BY <1>0, <1>4, GoesOn, FaultTypes DEF TypeOK
    <2> QED
      BY <1>0, <1>4, <2>1, GoesOn, TickGoesOn DEF incoming
  <1> QED
    BY <1>1, <1>2, <1>3, <1>4 DEF MarkAttemptFailed

-----------------------------------------------------------------------------
(* The environment.                                                        *)

(* The next attempt's time.                                                *)
LEMMA BecomesDueStep == IInv /\ BecomesDue => IInv'
  <1> SUFFICES ASSUME IInv, BecomesDue PROVE IInv'
    OBVIOUS
  <1>0. TypeOK /\ UNCHANGED <<publisher, tries, lease, dispatcher, stopped, acked, sent,
                              redeliveries, faults>>
    BY DEF IInv, BecomesDue, incoming, outgoing
  <1>1. event' \in Events /\ event'.status = "PENDING" /\ event'.attempts = event.attempts
    BY <1>0 DEF BecomesDue, TypeOK, Events
  <1>2. TypeOK'
    BY <1>0, <1>1 DEF TypeOK
  <1>3. DoneIsWritten' /\ TriesLeft'
    BY <1>0, <1>1 DEF IInv, DoneIsWritten, TriesLeft, NoEvent
  <1>4. InFlight' = InFlight /\ \A v \in Workers : dispatcher'[v].at = "acked" => acked'
    BY <1>0 DEF IInv, InFlight
  <1> QED
    BY <1>0, <1>1, <1>2, <1>3, <1>4, Unsent

(* A redelivery starts the count anew.                                     *)
LEMMA RedeliverStep == IInv /\ Redeliver => IInv'
  <1> SUFFICES ASSUME IInv, Redeliver PROVE IInv'
    OBVIOUS
  <1>0. TypeOK /\ UNCHANGED <<publisher, tries, lease, dispatcher, stopped, acked, sent, faults>>
    BY DEF IInv, Redeliver, incoming
  <1>1. event' \in Events /\ event'.status = "PENDING" /\ event'.attempts = 0
    BY DEF Redeliver, Events
  <1>2. redeliveries' \in 0 .. MaxRedeliveries
    BY <1>0 DEF Redeliver, TypeOK
  <1>3. TypeOK'
    BY <1>0, <1>1, <1>2 DEF TypeOK
  <1>4. DoneIsWritten' /\ TriesLeft'
    BY <1>0, <1>1 DEF IInv, DoneIsWritten, TriesLeft, NoEvent
  <1>5. InFlight' = InFlight /\ \A v \in Workers : dispatcher'[v].at = "acked" => acked'
    BY <1>0 DEF IInv, InFlight
  <1> QED
    BY <1>0, <1>1, <1>3, <1>4, <1>5, Unsent

(* A shutdown, and the start after it.                                     *)
LEMMA StopStep == IInv /\ (\E w \in Workers : Stop(w) \/ Restart(w)) => IInv'
  <1> SUFFICES ASSUME IInv, NEW w \in Workers, Stop(w) \/ Restart(w) PROVE IInv'
    OBVIOUS
  <1>0. TypeOK /\ (Fault \/ UNCHANGED faults)
        /\ stopped' \subseteq Workers /\ lease' \in {lease, None}
        /\ UNCHANGED <<publisher, tries, event, dispatcher, acked, sent, redeliveries>>
    BY DEF IInv, Stop, Restart, incoming, counts, TypeOK
  <1>1. TypeOK'
    BY <1>0, FaultTypes DEF TypeOK
  <1>2. DoneIsWritten' /\ TriesLeft'
    BY <1>0 DEF IInv, DoneIsWritten, TriesLeft
  <1> QED
    BY <1>0, <1>1, <1>2, Elsewhere

(* A crash loses the write and the outcome of the request.                 *)
LEMMA CrashStep == IInv /\ (\E w \in Workers : Crash(w)) => IInv'
  <1> SUFFICES ASSUME IInv, NEW w \in Workers, Crash(w) PROVE IInv'
    OBVIOUS
  <1>0. TypeOK /\ Fault /\ Ends(w) /\ stopped' \subseteq Workers
        /\ UNCHANGED <<tries, event, lease, acked, sent, redeliveries>>
    BY DEF IInv, Crash, counts, TypeOK
  <1>1. PICK step \in {"none", "done", "lost"} :
            Publishes(w, step) /\ (step # "lost" => step = publisher[w])
    BY DEF Crash
  <1>2. TypeOK'
    BY <1>0, <1>1, PublishTypes, TickEnds, FaultTypes DEF TypeOK
  <1>3. /\ publisher'[w] = step
        /\ \A v \in Workers : v # w => publisher'[v] = publisher[v]
    BY <1>0, <1>1, PublishTypes
  <1>4. DoneIsWritten' /\ TriesLeft'
    BY <1>0, <1>1, <1>3 DEF IInv, DoneIsWritten, TriesLeft
  <1>5. InFlight' \subseteq InFlight /\ \A v \in InFlight' : dispatcher'[v] = dispatcher[v]
    BY <1>0, TickEnds DEF InFlight
  <1>6. \A v \in Workers : dispatcher'[v].at = "acked" => acked'
    BY <1>0, TickEnds DEF IInv
  <1> QED
    BY <1>0, <1>2, <1>4, <1>5, <1>6, Unsent

-----------------------------------------------------------------------------
(* No step leaves the invariant.                                           *)
LEMMA NextStep == IInv /\ [Next]_vars => IInv'
  <1> SUFFICES ASSUME IInv, [Next]_vars PROVE IInv'
    OBVIOUS
  <1>1. CASE UNCHANGED vars
    BY <1>1, Elsewhere DEF vars, IInv, TypeOK, TriesLeft, DoneIsWritten
  <1>2. CASE Next
    <2>1. ASSUME NEW w \in Workers, Publish(w) PROVE IInv'
      BY <2>1, CheckStep, WriteStep DEF Publish
    <2>2. ASSUME NEW w \in Workers, Tick(w) PROVE IInv'
      BY <2>2, HoldLeaseStep, FindDueStep, PostStep, MarkDeliveredStep, MarkAttemptFailedStep DEF Tick
    <2> QED
      BY <1>2, <2>1, <2>2, ObserveStep, StopStep, CrashStep, LeaseLapsesStep, BecomesDueStep,
         RedeliverStep DEF Next
  <1> QED
    BY <1>1, <1>2

(* The invariant behind the outbox's promise, in every state.              *)
THEOREM Invariance == Spec => []IInv
  BY InitStep, NextStep, PTL DEF Spec

(* The types of the outbox's state hold.                                   *)
THEOREM TypeCorrect == Spec => []TypeOK
  <1>1. IInv => TypeOK
    BY DEF IInv
  <1> QED
    BY <1>1, Invariance, PTL

(* A worker that is done with a transition leaves its event in the outbox  *)
(* (ConsumerEventPublisher), whichever other worker wrote it.              *)
THEOREM DoneStaysWritten == Spec => []DoneIsWritten
  <1>1. IInv => DoneIsWritten
    BY DEF IInv
  <1> QED
    BY <1>1, Invariance, PTL

(* An event's verdict is earned (OutboxDispatcher): DELIVERED only after   *)
(* the consumer's 2xx, FAILED only after MaxAttempts requests, however the *)
(* lease went from worker to worker.                                       *)
THEOREM VerdictsAreEarned == Spec => []VerdictIsEarned
  <1>1. IInv => VerdictIsEarned
    BY DEF IInv
  <1> QED
    BY <1>1, Invariance, PTL

=============================================================================
