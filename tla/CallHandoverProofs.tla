-------------------------- MODULE CallHandoverProofs --------------------------
(***************************************************************************)
(* Theorems about CallHandover: for any agents and any number of transfers,*)
(* lost pages, crashes and handlers in flight.                             *)
(***************************************************************************)
EXTENDS CallHandover, TLAPS

USE NoneAssumption, BoundsAssumption

-----------------------------------------------------------------------------
(* The handlers in flight, and the rest of the state.                      *)

TasksTyped == \A t \in work : t \in Work /\ TaskConsistent(t)

RowsTyped == /\ status \in Statuses
             /\ agent \in Agents \cup {None}
             /\ offered \in {0} \cup Stamps
             /\ inbound \in BOOLEAN
             /\ held \subseteq Agents /\ onShift \subseteq Agents
             /\ pending \in BOOLEAN /\ joined \subseteq Agents
             /\ invited \subseteq Agents /\ bound \subseteq Agents
             /\ taken \in Agents \cup {None} /\ remarked \in BOOLEAN
             /\ audio \in BOOLEAN
             /\ deadlines \subseteq TimerStages
             /\ crashed \in BOOLEAN /\ events \in 0 .. MaxEvents

(* The inductive invariant in the three parts that are proved separately.  *)
LEMMA Parts == IInv <=> TasksTyped /\ RowsTyped /\ AcceptedIsNotOffered
  BY DEF IInv, TypeOK, TasksTyped, RowsTyped

(* And after a step.                                                       *)
LEMMA PartsThen == TasksTyped' /\ RowsTyped' /\ AcceptedIsNotOffered' => IInv'
  BY DEF IInv, TypeOK, TasksTyped, RowsTyped

(* A handler is typed by its fields.                                       *)
LEMMA TaskType ==
    ASSUME RowsTyped, NEW at \in Stages, NEW a \in Agents \cup {None}, NEW b \in Agents \cup {None},
           NEW seen \in {0} \cup Stamps
    PROVE  Task(at, a, b, seen) \in Work
  BY DEF Task, Work

(* A handler that goes on keeps its type, and its agents.                  *)
LEMMA GotoType ==
    ASSUME NEW t \in Work, NEW at \in Stages
    PROVE  LET u == [t EXCEPT !.at = at] IN
           u \in Work /\ u.at = at /\ u.agent = t.agent /\ u.target = t.target /\ u.seen = t.seen
  BY DEF Work

(* A new handler beside the others.                                        *)
LEMMA BeginTyped ==
    ASSUME TasksTyped, NEW u \in Work, TaskConsistent(u), work' = work \cup {u}
    PROVE  TasksTyped'
  BY DEF TasksTyped

(* A handler that becomes another.                                         *)
LEMMA BecomesTyped ==
    ASSUME TasksTyped, NEW t \in work, NEW u \in Work, TaskConsistent(u),
           work' = (work \ {t}) \cup {u}
    PROVE  TasksTyped'
  BY DEF TasksTyped

(* A handler that is over.                                                 *)
LEMMA FinishTyped ==
    ASSUME TasksTyped, NEW t \in work, Finish(t)
    PROVE  TasksTyped'
  BY DEF TasksTyped, Finish

(* A handler goes on to a stage that its fields allow.                     *)
LEMMA GotoTyped ==
    ASSUME TasksTyped, NEW t \in work, NEW at \in Stages, Goto(t, at),
           at \in TransferStages => t.target \in Agents,
           at \in AcceptStages \cup {"return", "expire", "back", "rejoin"} => t.agent \in Agents
    PROVE  TasksTyped'
  <1>1. t \in Work
    BY DEF TasksTyped
  <1> DEFINE u == [t EXCEPT !.at = at]
  <1>2. u \in Work /\ u.at = at /\ u.agent = t.agent /\ u.target = t.target
    BY <1>1, GotoType
  <1>3. TaskConsistent(u)
    BY <1>2 DEF TaskConsistent
  <1>4. work' = (work \ {t}) \cup {u}
    BY DEF Goto
  <1> HIDE DEF u
  <1> QED
    BY <1>2, <1>3, <1>4, BecomesTyped

(* A handler of another kind is begun.                                     *)
LEMMA NewTaskTyped ==
    ASSUME TasksTyped, RowsTyped, NEW at \in Stages, NEW a \in Agents \cup {None},
           NEW b \in Agents \cup {None}, NEW seen \in {0} \cup Stamps,
           at \in TransferStages => b \in Agents,
           at \in AcceptStages \cup {"return", "expire", "back", "rejoin"} => a \in Agents
    PROVE  /\ Begin(Task(at, a, b, seen)) => TasksTyped'
           /\ \A t \in work : work' = (work \ {t}) \cup {Task(at, a, b, seen)} => TasksTyped'
  <1> DEFINE u == Task(at, a, b, seen)
  <1>1. u \in Work /\ TaskConsistent(u)
    BY TaskType DEF TaskConsistent, Task
  <1> HIDE DEF u
  <1> QED
    BY <1>1, BeginTyped, BecomesTyped DEF Begin, u

-----------------------------------------------------------------------------
(* Every step keeps the handlers' types ...                                *)

(* ... those that start one,                                               *)
LEMMA TasksOfRequests ==
    ASSUME TasksTyped, RowsTyped, Requests \/ HandoverScan \/ RingTimeout \/ Sweep
                                  \/ (\E k \in TimerStages : DeadlineDue(k))
                                  \/ (\E a \in Agents : QueueOffers(a))
    PROVE  TasksTyped'
  <1> USE DEF Stages, TransferStages, AcceptStages, ScanStages, EndStages, LossStages,
              ReturnStages, CustomerStages, TimerStages, RowsTyped
  <1>1. ASSUME NEW b \in Agents, Transfer(b) PROVE TasksTyped'
    BY <1>1, NewTaskTyped DEF Transfer
  <1>2. ASSUME NEW a \in Agents, PostAccept(a) PROVE TasksTyped'
    <2>1. CASE pending
      <3>1. Begin(Task("accept", a, None, 0))
        BY <1>2, <2>1 DEF PostAccept, Begin
      <3> QED
        BY <3>1, NewTaskTyped
    <2>2. CASE ~pending
      BY <1>2, <2>2 DEF PostAccept, TasksTyped, TaskConsistent
    <2> QED
      BY <2>1, <2>2
  <1>3. ASSUME NEW a \in Agents, Decline(a) PROVE TasksTyped'
    BY <1>3, NewTaskTyped DEF Decline
  <1>4. ASSUME NEW a \in Agents, PageLost(a) PROVE TasksTyped'
    BY <1>4, NewTaskTyped DEF PageLost
  <1>5. ASSUME NEW a \in Agents, PageBack(a) PROVE TasksTyped'
    BY <1>5, NewTaskTyped DEF PageBack
  <1>6. CASE HangUp
    BY <1>6, NewTaskTyped DEF HangUp
  <1>7. CASE CustomerDrops
    BY <1>7, NewTaskTyped DEF CustomerDrops
  <1>8. CASE CustomerReturns
    BY <1>8, NewTaskTyped DEF CustomerReturns
  <1>9. CASE HandoverScan
    BY <1>9, NewTaskTyped DEF HandoverScan
  <1>10. CASE RingTimeout
    BY <1>10, NewTaskTyped DEF RingTimeout
  <1>11. ASSUME NEW k \in TimerStages, DeadlineDue(k) PROVE TasksTyped'
    BY <1>11, NewTaskTyped DEF DeadlineDue
  <1>12. CASE Sweep \/ \E a \in Agents : QueueOffers(a)
    BY <1>12 DEF Sweep, QueueOffers, TasksTyped
  <1> QED
    BY <1>1, <1>2, <1>3, <1>4, <1>5, <1>6, <1>7, <1>8, <1>9, <1>10, <1>11, <1>12 DEF Requests

(* ... and those of a handler.                                             *)
LEMMA TasksOfHandlers ==
    ASSUME TasksTyped, RowsTyped, NEW t \in work,
           \/ TransferStep(t) \/ AcceptStep(t) \/ ScanStep(t)
           \/ EndStep(t) \/ ConnectionStep(t) \/ DeadlineStep(t)
    PROVE  TasksTyped'
  <1> USE DEF Stages, TransferStages, AcceptStages, ScanStages, EndStages, LossStages,
              ReturnStages, CustomerStages, TimerStages
  <1>1. /\ t \in Work
        /\ t.at \in TransferStages => t.target \in Agents
        /\ t.at \in AcceptStages \cup {"return", "expire", "back", "rejoin"} => t.agent \in Agents
    BY DEF TasksTyped, TaskConsistent
  <1>2. t.agent \in Agents \cup {None}
    BY <1>1 DEF Work
  <1>3. CASE TransferStep(t)
    BY <1>1, <1>3, GotoTyped, FinishTyped DEF TransferStep, ClaimTarget, TargetUnavailable, Move,
       MoveConflict, UndoClaim, MarkHandover, FreeSource, DropSource, OfferTarget
  <1>4. CASE AcceptStep(t) /\ ~MicrophoneSilent(t)
    BY <1>1, <1>4, GotoTyped, FinishTyped DEF AcceptStep, ClaimHandover, ClaimOffer,
       AcceptConflict, HoldAgent, MediaUp, MediaGone, Confirm, GoLive
  <1>5. CASE MicrophoneSilent(t)
    BY <1>2, <1>5, NewTaskTyped DEF MicrophoneSilent, RowsTyped
  <1>6. CASE ReturnHandover(t)
    <2> DEFINE u == [t EXCEPT !.at = "withdraw", !.seen = 0]
    <2>1. u \in Work /\ u.at = "withdraw"
      BY <1>1 DEF Work
    <2>2. TaskConsistent(u)
      BY <2>1 DEF TaskConsistent
    <2>3. work' = (work \ {t}) \cup {u}
      BY <1>6 DEF ReturnHandover
    <2> HIDE DEF u
    <2> QED
      BY <2>1, <2>2, <2>3, BecomesTyped
  <1>7. CASE ScanStep(t) /\ ~ReturnHandover(t)
    BY <1>1, <1>7, GotoTyped, FinishTyped DEF ScanStep, ExpireHandover, HandoverMovedOn,
       WithdrawOffer, ReleaseOffered
  <1>8. CASE EndStep(t)
    BY <1>1, <1>8, GotoTyped, FinishTyped DEF EndStep, CommitEnd, EndLost, Settle
  <1>9. CASE ConnectionStep(t)
    BY <1>1, <1>9, GotoTyped, FinishTyped DEF ConnectionStep, NoticeLoss, DropLost,
       SetReconnectTimer, CheckReturn, Rejoin
  <1>10. CASE DeadlineStep(t)
    BY <1>10, FinishTyped, NewTaskTyped DEF DeadlineStep, ReconnectExpired, SetGrace,
       CancelGrace, GraceOver, RowsTyped
  <1> QED
    BY <1>3, <1>4, <1>5, <1>6, <1>7, <1>8, <1>9, <1>10

-----------------------------------------------------------------------------
(* Every step keeps the type of the rest.                                  *)

(* An offered_at is one of the two stamps.                                 *)
LEMMA Stamped == FreshStamp \in Stamps
  BY DEF FreshStamp, Stamps

(* The row, the pages and the timers after a request or a scan,            *)
LEMMA RowsOfRequests ==
    ASSUME TasksTyped, RowsTyped, Requests \/ HandoverScan \/ RingTimeout \/ Sweep
                                  \/ (\E k \in TimerStages : DeadlineDue(k))
                                  \/ (\E a \in Agents : QueueOffers(a))
    PROVE  RowsTyped'
  <1> USE DEF RowsTyped, row, agents, media, clients, history
  <1>1. ASSUME NEW a \in Agents,
               Transfer(a) \/ PostAccept(a) \/ Decline(a) \/ PageLost(a) \/ PageBack(a)
        PROVE  RowsTyped'
    BY <1>1 DEF Transfer, PostAccept, Decline, PageLost, PageBack
  <1>2. CASE HangUp \/ CustomerDrops \/ CustomerReturns
    <2>1. CASE HangUp
      BY <2>1 DEF HangUp
    <2>2. CASE CustomerDrops
      <3>1. events \in Nat /\ events < MaxEvents /\ events' = events + 1
        BY <2>2 DEF CustomerDrops
      <3>2. events' \in 0 .. MaxEvents
        BY <3>1
      <3>3. audio' \in BOOLEAN /\ UNCHANGED <<row, agents, media, clients, history, deadlines>>
        BY <2>2 DEF CustomerDrops
      <3> QED
        BY <3>2, <3>3
    <2>3. CASE CustomerReturns
      BY <2>3 DEF CustomerReturns
    <2> QED
      BY <1>2, <2>1, <2>2, <2>3
  <1>3. CASE HandoverScan \/ RingTimeout \/ Sweep \/ \E k \in TimerStages : DeadlineDue(k)
    BY <1>3 DEF HandoverScan, RingTimeout, Sweep, DeadlineDue
  <1>4. ASSUME NEW a \in Agents, QueueOffers(a) PROVE RowsTyped'
    BY <1>4, Stamped DEF QueueOffers
  <1> QED
    BY <1>1, <1>2, <1>3, <1>4 DEF Requests

(* ... and after the step of a handler.                                    *)
LEMMA RowsOfHandlers ==
    ASSUME TasksTyped, RowsTyped, NEW t \in work,
           \/ TransferStep(t) \/ AcceptStep(t) \/ ScanStep(t)
           \/ EndStep(t) \/ ConnectionStep(t) \/ DeadlineStep(t)
    PROVE  RowsTyped'
  <1> USE DEF RowsTyped, row, agents, media, clients, history
  <1>1. /\ t.agent \in Agents \cup {None}
        /\ t.at \in {"claim", "move", "mark", "offer"} => t.target \in Agents
        /\ t.at \in {"accept", "hold", "media", "confirm", "live", "rejoin"} => t.agent \in Agents
    BY DEF TasksTyped, TaskConsistent, Work, TransferStages, AcceptStages
  <1>2. CASE TransferStep(t)
    <2>1. CASE Move(t)
      BY <1>1, <2>1, Stamped DEF Move
    <2>2. CASE MarkHandover(t)
      BY <2>2, Stamped DEF MarkHandover
    <2>3. CASE ClaimTarget(t) \/ TargetUnavailable(t) \/ MoveConflict(t)
      BY <1>1, <2>3 DEF ClaimTarget, TargetUnavailable, MoveConflict
    <2>4. CASE UndoClaim(t) \/ FreeSource(t) \/ DropSource(t)
      BY <2>4 DEF UndoClaim, FreeSource, DropSource
    <2>5. CASE OfferTarget(t)
      BY <1>1, <2>5 DEF OfferTarget
    <2> QED
      BY <1>2, <2>1, <2>2, <2>3, <2>4, <2>5 DEF TransferStep
  <1>3. CASE AcceptStep(t)
    BY <1>1, <1>3 DEF AcceptStep, ClaimHandover, ClaimOffer, AcceptConflict, HoldAgent,
       MediaUp, MediaGone, MicrophoneSilent, Confirm, GoLive, Statuses
  <1>4. CASE ScanStep(t)
    BY <1>4 DEF ScanStep, ReturnHandover, ExpireHandover, HandoverMovedOn,
       WithdrawOffer, ReleaseOffered, Statuses
  <1>5. CASE EndStep(t)
    BY <1>5 DEF EndStep, CommitEnd, EndLost, Settle, Statuses
  <1>6. CASE ConnectionStep(t)
    BY <1>1, <1>6 DEF ConnectionStep, NoticeLoss, DropLost, SetReconnectTimer, CheckReturn,
       Rejoin, TimerStages
  <1>7. CASE DeadlineStep(t)
    BY <1>7 DEF DeadlineStep, ReconnectExpired, SetGrace, CancelGrace, GraceOver, TimerStages
  <1> QED
    BY <1>2, <1>3, <1>4, <1>5, <1>6, <1>7

-----------------------------------------------------------------------------
(* An accepted call is not offered.                                        *)

(* Only a move, a mark and the queue offer the call; the move and the      *)
(* queue start over, and the mark is remembered.                           *)
LEMMA AcceptedKept ==
    ASSUME TasksTyped, RowsTyped, AcceptedIsNotOffered, [Next]_vars
    PROVE  AcceptedIsNotOffered'
  <1> USE DEF AcceptedIsNotOffered, row, history
  <1>1. CASE Requests \/ HandoverScan \/ RingTimeout \/ Sweep
    BY <1>1 DEF Requests, Transfer, PostAccept, Decline, PageLost, PageBack, HangUp,
       CustomerDrops, CustomerReturns, HandoverScan, RingTimeout, Sweep
  <1>2. ASSUME NEW t \in work, TransferStep(t) PROVE AcceptedIsNotOffered'
    BY <1>2 DEF TransferStep, ClaimTarget, TargetUnavailable, Move, MoveConflict, UndoClaim,
       MarkHandover, FreeSource, DropSource, OfferTarget
  <1>3. ASSUME NEW t \in work, AcceptStep(t) PROVE AcceptedIsNotOffered'
    BY <1>3 DEF AcceptStep, ClaimHandover, ClaimOffer, AcceptConflict, HoldAgent, MediaUp,
       MediaGone, MicrophoneSilent, Confirm, GoLive
  <1>4. ASSUME NEW t \in work, ScanStep(t) PROVE AcceptedIsNotOffered'
    BY <1>4 DEF ScanStep, ReturnHandover, ExpireHandover, HandoverMovedOn, WithdrawOffer,
       ReleaseOffered
  <1>5. ASSUME NEW t \in work, EndStep(t) \/ ConnectionStep(t) \/ DeadlineStep(t)
        PROVE  AcceptedIsNotOffered'
    BY <1>5 DEF EndStep, CommitEnd, EndLost, Settle, ConnectionStep, NoticeLoss, DropLost,
       SetReconnectTimer, CheckReturn, Rejoin, DeadlineStep, ReconnectExpired, SetGrace,
       CancelGrace, GraceOver
  <1>6. CASE \/ \E a \in Agents : QueueOffers(a)
             \/ \E k \in TimerStages : DeadlineDue(k)
             \/ Crash \/ UNCHANGED vars
    BY <1>6 DEF QueueOffers, DeadlineDue, Crash, vars
  <1> QED
    BY <1>1, <1>2, <1>3, <1>4, <1>5, <1>6 DEF Next

-----------------------------------------------------------------------------
(* An agent talks, and nothing is under way.                               *)
LEMMA InitStep == Init => IInv
  <1> SUFFICES ASSUME Init PROVE IInv
    OBVIOUS
  <1>1. RowsTyped
    <2>1. PICK a \in Agents : agent = a /\ taken = a /\ held = {a} /\ joined = {a} /\ bound = {a}
      BY DEF Init
    <2>2. status \in Statuses /\ offered \in {0} \cup Stamps /\ inbound \in BOOLEAN
      BY DEF Init, Statuses
    <2>3. events \in 0 .. MaxEvents
      BY DEF Init
    <2>4. /\ onShift \subseteq Agents /\ pending \in BOOLEAN /\ invited \subseteq Agents
          /\ remarked \in BOOLEAN /\ audio \in BOOLEAN /\ deadlines \subseteq TimerStages
          /\ crashed \in BOOLEAN
      BY DEF Init
    <2>5. /\ agent \in Agents /\ taken \in Agents
          /\ held \subseteq Agents /\ joined \subseteq Agents /\ bound \subseteq Agents
      BY <2>1
    <2> QED
      BY <2>2, <2>3, <2>4, <2>5 DEF RowsTyped
  <1>2. TasksTyped /\ AcceptedIsNotOffered
    BY DEF Init, TasksTyped, AcceptedIsNotOffered
  <1> QED
    BY <1>1, <1>2, Parts

(* Every step keeps the invariant.                                         *)
LEMMA NextStep == IInv /\ [Next]_vars => IInv'
  <1> SUFFICES ASSUME IInv, [Next]_vars PROVE IInv'
    OBVIOUS
  <1>1. TasksTyped /\ RowsTyped /\ AcceptedIsNotOffered
    BY Parts
  <1>2. CASE Crash
    <2>1. TasksTyped'
      BY <1>1, <1>2, FinishTyped DEF Crash
    <2>2. RowsTyped'
      BY <1>1, <1>2 DEF Crash, RowsTyped, row, agents, media, clients
    <2> QED
      BY <1>1, <2>1, <2>2, AcceptedKept, PartsThen
  <1>3. CASE UNCHANGED vars
    <2>1. TasksTyped' /\ RowsTyped'
      BY <1>1, <1>3 DEF vars, TasksTyped, TaskConsistent, RowsTyped, row, agents, media, clients,
         history
    <2> QED
      BY <1>1, <2>1, AcceptedKept, PartsThen
  <1>4. CASE Requests \/ HandoverScan \/ RingTimeout \/ Sweep
             \/ (\E k \in TimerStages : DeadlineDue(k)) \/ (\E a \in Agents : QueueOffers(a))
    BY <1>1, <1>4, TasksOfRequests, RowsOfRequests, AcceptedKept, PartsThen
  <1>5. ASSUME NEW t \in work,
               \/ TransferStep(t) \/ AcceptStep(t) \/ ScanStep(t)
               \/ EndStep(t) \/ ConnectionStep(t) \/ DeadlineStep(t)
        PROVE  IInv'
    BY <1>1, <1>5, TasksOfHandlers, RowsOfHandlers, AcceptedKept, PartsThen
  <1> QED
    BY <1>2, <1>3, <1>4, <1>5 DEF Next

(* The types, the handlers' agents and the offer of an accepted call, in   *)
(* every state.                                                            *)
THEOREM Invariance == Spec => []IInv
  BY InitStep, NextStep, PTL DEF Spec

(* Every reachable state is typed.                                         *)
THEOREM TypeCorrect == Spec => []TypeOK
  <1>1. IInv => TypeOK
    BY DEF IInv
  <1> QED
    BY <1>1, Invariance, PTL

(* A handover's time-out (#handoverExpired) takes the call back or ends it *)
(* only under an agent who has not accepted it, or whom a later transfer   *)
(* has been marked for since, in any mix of transfers, accepts and scans.  *)
THEOREM AcceptedHandoversStay == Spec => AcceptedHandoverStays
  <1> DEFINE Stays == \A t \in work :
                 ReturnHandover(t) \/ ExpireHandover(t) => taken # agent \/ remarked
  <1>1. IInv => Stays
    <2> SUFFICES ASSUME IInv, NEW t \in work, ReturnHandover(t) \/ ExpireHandover(t)
                 PROVE  taken # agent \/ remarked
      OBVIOUS
    <2>1. agent = t.agent /\ offered # 0 /\ t.at \in {"return", "expire"}
      BY DEF ReturnHandover, ExpireHandover, Unaccepted
    <2>2. agent \in Agents
      BY <2>1 DEF IInv, TaskConsistent
    <2> QED
      BY <2>1, <2>2 DEF IInv, AcceptedIsNotOffered
  <1>2. IInv => [Stays]_vars
    BY <1>1
  <1> QED
    BY <1>2, Invariance, PTL DEF Spec, AcceptedHandoverStays

=============================================================================
