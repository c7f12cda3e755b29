-------------------------- MODULE CallRoutingProofs --------------------------
(***************************************************************************)
(* Theorems about CallRouting, for every number of calls, agents and       *)
(* queues and every bound.                                                 *)
(***************************************************************************)
EXTENDS CallRouting, TLAPS

USE CallsAssumption, NoneAssumption, TenantAssumption, QueuesAssumption, BoundsAssumption

-----------------------------------------------------------------------------
(* Tasks and drains keep their types.                                      *)

(* A handler's record built by Task has the type of work.                  *)
LEMMA TaskType ==
    ASSUME NEW at \in Stages, NEW c \in Calls, NEW a \in Agents \cup {None},
           NEW q \in Queues \cup {None}, NEW seen \in {0} \cup Stamps
    PROVE  Task(at, c, a, q, seen) \in Work
  BY DEF Task, Work

(* A handler that moves to another stage keeps its type.                   *)
LEMMA GotoType ==
    ASSUME NEW t \in Work, NEW at \in Stages
    PROVE  [t EXCEPT !.at = at] \in Work
  BY DEF Work

(* The drain of a queue starts with the type of drains (drainQueue).       *)
LEMMA NewDrainType ==
    ASSUME NEW queues \in SUBSET Queues, NEW q \in Queues, NEW try \in 1 .. DrainAttempts
    PROVE  NewDrain(queues, q, try) \in Drain
  BY DEF NewDrain, Drain

(* A tenant's drain stays typed when it turns to one of the queues it has  *)
(* left (drainForTenant).                                                  *)
LEMMA NextQueueType ==
    ASSUME NEW others \in SUBSET Drain, NEW queues \in SUBSET Queues, NextQueue(others, queues)
    PROVE  drains' \subseteq Drain
  <1>1. 1 \in 1 .. DrainAttempts
    OBVIOUS
  <1>2. CASE queues = {}
    BY <1>2 DEF NextQueue
  <1>3. CASE queues # {}
    <2>1. PICK q \in queues : drains' = others \cup {NewDrain(queues \ {q}, q, 1)}
      BY <1>3 DEF NextQueue
    <2> QED
      BY <1>1, <2>1, NewDrainType
  <1> QED
    BY <1>2, <1>3

(* So does a drain that is done with its queue (drainQueue's returns).     *)
LEMMA QueueDoneType ==
    ASSUME drains \subseteq Drain, NEW d \in drains, QueueDone(d)
    PROVE  drains' \subseteq Drain
  <1>1. d.queues \in SUBSET Queues /\ drains \ {d} \in SUBSET Drain
    BY DEF Drain
  <1> QED
    BY <1>1, NextQueueType DEF QueueDone

(* TypeOK and HandlersConsistent are preserved together; TasksTyped is what*)
(* they say of the handlers in flight and RowsTyped what they say of the   *)
(* rest.                                                                   *)

TasksTyped ==
    /\ work \subseteq Work
    /\ \A t \in work : TaskConsistent(t)
    /\ \A t, u \in work : t.at = "wait" /\ u.at = "wait" /\ t.call = u.call => t = u

RowsTyped ==
    /\ status \in [Calls -> Statuses]
    /\ agent \in [Calls -> Agents \cup {None}]
    /\ offered \in [Calls -> {0} \cup Stamps]
    /\ rung \in [Calls -> BOOLEAN]
    /\ queue \in [Calls -> Queues \cup {None}]
    /\ \A c \in Calls : status[c] # "NEW" => queue[c] \in Queues
    /\ hops \in [Calls -> 0 .. MaxOverflows]
    /\ leg \in [Calls -> {"none", "ready", "used"}]
    /\ shift \in [Agents -> BOOLEAN]
    /\ busy \in [Agents -> Calls \cup {None}]
    /\ declined \in [Calls -> SUBSET Agents]
    /\ missed \in [Calls -> SUBSET Agents]
    /\ due \subseteq Queues \cup {Tenant}
    /\ drains \subseteq Drain
    /\ \A d \in drains : d.at = "claim" => d.call \in Calls
    /\ requests \in 0 .. MaxRequests
    /\ crashes \in 0 .. MaxCrashes

(* The two parts say what TypeOK and HandlersConsistent say.               *)
LEMMA TypedParts == TypeOK /\ HandlersConsistent <=> TasksTyped /\ RowsTyped
  BY DEF TypeOK, HandlersConsistent, TasksTyped, RowsTyped

(* They hold before the first call arrives.                                *)
LEMMA TypedInit == Init => TasksTyped /\ RowsTyped
  BY DEF Init, TasksTyped, RowsTyped, Statuses

(* A new consistent handler that is not about to overflow a call keeps the *)
(* handlers consistent.                                                    *)
LEMMA AddTyped ==
    ASSUME TasksTyped, NEW u \in Work, u.at # "wait", TaskConsistent(u),
           work' \subseteq work \cup {u}, UNCHANGED hops
    PROVE  TasksTyped'
  BY DEF TasksTyped, TaskConsistent

(* So does a handler that moves on to a stage it is consistent with.       *)
LEMMA GotoTyped ==
    ASSUME TasksTyped, NEW t \in work, NEW at \in Stages \ {"wait"}, Goto(t, at),
           UNCHANGED hops, TaskConsistent([t EXCEPT !.at = at])
    PROVE  TasksTyped'
  <1> DEFINE new == [t EXCEPT !.at = at]
  <1>1. new \in Work /\ new.at # "wait"
    BY GotoType DEF TasksTyped, Work
  <1>2. work' \subseteq work \cup {new}
    BY DEF Goto
  <1> QED
    BY <1>1, <1>2, AddTyped

(* So does a handler that returns.                                         *)
LEMMA FinishTyped ==
    ASSUME TasksTyped, NEW t, Finish(t), UNCHANGED hops
    PROVE  TasksTyped'
  BY DEF TasksTyped, TaskConsistent, Finish

(* The fields of a handler in flight have their types.                     *)
LEMMA TaskTyped ==
    ASSUME TasksTyped, NEW t \in work
    PROVE  /\ t \in Work /\ TaskConsistent(t)
           /\ t.call \in Calls /\ t.agent \in Agents \cup {None}
           /\ t.queue \in Queues \cup {None} /\ t.seen \in {0} \cup Stamps
  BY DEF TasksTyped, Work

(* What agents, customers and the provider send keeps the handlers and     *)
(* rows typed.                                                             *)
LEMMA TypedMessage ==
    ASSUME TasksTyped, RowsTyped, NEW c \in Calls, Message(c)
    PROVE  TasksTyped' /\ RowsTyped'
  <1> USE DEF callVars, agentVars, history, draining, bounds
  <1>1. ASSUME NEW at \in Stages \ {"wait"}, NEW a \in Agents \cup {None},
               NEW q \in Queues \cup {None}, NEW seen \in {0} \cup Stamps,
               TaskConsistent(Task(at, c, a, q, seen)), UNCHANGED hops,
               work' = work \cup {Task(at, c, a, q, seen)}
        PROVE  TasksTyped'
    <2>1. Task(at, c, a, q, seen) \in Work /\ Task(at, c, a, q, seen).at # "wait"
      BY TaskType DEF Task
    <2> QED
      BY <1>1, <2>1, AddTyped
  <1>2. CASE Arrive(c)
    <2>1. PICK q \in Entries : /\ queue' = [queue EXCEPT ![c] = q]
                               /\ work' = work \cup {Task("new", c, None, q, 0)}
      BY <1>2 DEF Arrive
    <2>2. TaskConsistent(Task("new", c, None, q, 0))
      BY DEF TaskConsistent, Task
    <2>3. TasksTyped'
      BY <1>1, <1>2, <2>1, <2>2 DEF Arrive, Stages
    <2> QED
      BY <1>2, <2>1, <2>3 DEF Arrive, RowsTyped, Statuses
  <1>3. CASE HangUp(c) \/ MediaLost(c)
    <2>1. PICK at \in {"end", "endNetwork"} : work' = work \cup {Task(at, c, agent[c], None, 0)}
      BY <1>3 DEF HangUp, MediaLost
    <2>2. TaskConsistent(Task(at, c, agent[c], None, 0))
      BY DEF TaskConsistent, Task
    <2>3. at \in Stages \ {"wait"} /\ agent[c] \in Agents \cup {None} /\ UNCHANGED hops
      BY <1>3 DEF HangUp, MediaLost, Stages, RowsTyped
    <2>4. TasksTyped'
      BY <1>1, <2>1, <2>2, <2>3
    <2> QED
      BY <1>3, <2>4 DEF HangUp, MediaLost, RowsTyped
  <1>4. CASE ProviderEnd(c)
    <2>1. PICK at \in {"endCustomer", "endProvider"}, seen \in {0, 2} :
              work' = work \cup {Task(at, c, agent[c], None, seen)}
      BY <1>4 DEF ProviderEnd
    <2>2. TaskConsistent(Task(at, c, agent[c], None, seen))
      BY DEF TaskConsistent, Task
    <2>3. /\ at \in Stages \ {"wait"} /\ agent[c] \in Agents \cup {None}
          /\ seen \in {0} \cup Stamps /\ UNCHANGED hops
      BY <1>4 DEF ProviderEnd, Stages, Stamps, RowsTyped
    <2>4. TasksTyped'
      BY <1>1, <2>1, <2>2, <2>3
    <2> QED
      BY <1>4, <2>4 DEF ProviderEnd, RowsTyped
  <1>5. CASE RingingAgentReconnect(c)
    <2>1. TasksTyped'
      BY <1>5 DEF RingingAgentReconnect, TasksTyped, TaskConsistent
    <2> QED
      BY <1>5, <2>1 DEF RingingAgentReconnect, RowsTyped
  <1>6. ASSUME NEW a \in Agents, PostJoin(c, a) \/ PostDecline(c, a)
        PROVE  TasksTyped' /\ RowsTyped'
    <2>1. PICK at \in {"join", "decline"} : work' = work \cup {Task(at, c, a, None, 0)}
      BY <1>6 DEF PostJoin, PostDecline
    <2>2. TaskConsistent(Task(at, c, a, None, 0))
      BY DEF TaskConsistent, Task
    <2>3. TasksTyped'
      BY <1>1, <1>6, <2>1, <2>2 DEF PostJoin, PostDecline, Stages
    <2> QED
      BY <1>6, <2>3 DEF PostJoin, PostDecline, RowsTyped
  <1> QED
    BY <1>2, <1>3, <1>4, <1>5, <1>6 DEF Message

(* So do the scans of QueueTimeoutService and CallCleanupService.          *)
LEMMA TypedScan ==
    ASSUME TasksTyped, RowsTyped, NEW c \in Calls, Scan(c)
    PROVE  TasksTyped' /\ RowsTyped'
  <1> USE DEF callVars, agentVars, history, draining, bounds
  <1>1. CASE RingOut(c)
    <2>1. TasksTyped'
      BY <1>1 DEF RingOut, TasksTyped, TaskConsistent
    <2> QED
      BY <1>1, <2>1 DEF RingOut, RowsTyped
  <1>2. CASE ExpireScan(c)
    <2> DEFINE u == Task("withdraw", c, agent[c], queue[c], offered[c])
    <2>1. u \in Work /\ u.at # "wait"
      BY TaskType DEF Stages, RowsTyped, Task
    <2>2. TaskConsistent(u)
      BY <1>2 DEF ExpireScan, RowsTyped, TaskConsistent, Task
    <2>3. TasksTyped'
      BY <1>2, <2>1, <2>2, AddTyped DEF ExpireScan
    <2> QED
      BY <1>2, <2>3 DEF ExpireScan, RowsTyped
  <1>3. CASE WaitScan(c)
    <2>1. CASE OverflowTarget(c) = None
      <3> DEFINE u == Task("endRinging", c, agent[c], queue[c], 0)
      <3>1. u \in Work /\ u.at # "wait"
        BY TaskType DEF Stages, RowsTyped, Task
      <3>2. TaskConsistent(u)
        BY DEF TaskConsistent, Task
      <3>3. TasksTyped'
        BY <1>3, <2>1, <3>1, <3>2, AddTyped DEF WaitScan
      <3> QED
        BY <1>3, <3>3 DEF WaitScan, RowsTyped
    <2>2. CASE OverflowTarget(c) # None
      <3> DEFINE u == Task("wait", c, agent[c], queue[c], 0)
      <3>1. u \in Work /\ u.at = "wait" /\ u.call = c
        BY TaskType DEF Stages, RowsTyped, Task
      <3>2. TaskConsistent(u)
        BY <1>3, <2>2 DEF WaitScan, OverflowTarget, RowsTyped, TaskConsistent, Task
      <3>3. work' = work \cup {u} /\ \A t \in work : t.call = c => t.at # "wait"
        BY <1>3, <2>2 DEF WaitScan
      <3>4. TasksTyped'
        BY <1>3, <3>1, <3>2, <3>3 DEF WaitScan, TasksTyped, TaskConsistent
      <3> QED
        BY <1>3, <3>4 DEF WaitScan, RowsTyped
    <2> QED
      BY <2>1, <2>2
  <1>4. CASE NoAnswerScan(c)
    <2> DEFINE u == Task("endRinging", c, agent[c], None, 0)
    <2>1. u \in Work /\ u.at # "wait"
      BY TaskType DEF Stages, RowsTyped, Task
    <2>2. TaskConsistent(u)
      BY DEF TaskConsistent, Task
    <2>3. TasksTyped'
      BY <1>4, <2>1, <2>2, AddTyped DEF NoAnswerScan
    <2> QED
      BY <1>4, <2>3 DEF NoAnswerScan, RowsTyped
  <1> QED
    BY <1>1, <1>2, <1>3, <1>4 DEF Scan

(* So do the steps of an arriving call (_handleIncomingCall).              *)
LEMMA TypedNew ==
    ASSUME TasksTyped, RowsTyped, NEW t \in work, NewStep(t)
    PROVE  TasksTyped' /\ RowsTyped'
  <1> USE DEF callVars, agentVars, history, draining, bounds
  <1>1. CASE NewRingAll(t)
    <2>1. TasksTyped'
      BY <1>1, FinishTyped DEF NewRingAll
    <2> QED
      BY <1>1, <2>1 DEF NewRingAll, RowsTyped
  <1>2. CASE NewInOrder(t)
    <2>1. TaskConsistent([t EXCEPT !.at = "claimNew"])
      BY <1>2, TaskTyped DEF NewInOrder, TaskConsistent, Work
    <2>2. TasksTyped'
      BY <1>2, <2>1, GotoTyped DEF NewInOrder, Stages
    <2> QED
      BY <1>2, <2>2 DEF NewInOrder, RowsTyped
  <1>3. CASE NewAssigned(t)
    <2>1. TasksTyped'
      BY <1>3, FinishTyped DEF NewAssigned
    <2>2. t.queue \in Queues /\ t.call \in Calls
      BY <1>3, TaskTyped DEF NewAssigned, TaskConsistent
    <2>3. PICK a \in Agents : MakeOffer(t.call, a)
      BY <1>3, <2>2 DEF NewAssigned
    <2> QED
      BY <1>3, <2>1, <2>2, <2>3 DEF NewAssigned, MakeOffer, FreshStamp, Stamps, RowsTyped
  <1>4. CASE NewWaits(t)
    <2>1. TasksTyped'
      BY <1>4, FinishTyped DEF NewWaits
    <2> QED
      BY <1>4, <2>1 DEF NewWaits, RowsTyped
  <1> QED
    BY <1>1, <1>2, <1>3, <1>4 DEF NewStep

(* A handler with an agent goes to another stage, or ends.                 *)
LEMMA NextStageTyped ==
    ASSUME TasksTyped, NEW t \in work, NEW at \in Stages \ {"wait"}, Goto(t, at), UNCHANGED hops,
           \/ t.agent \in Agents /\ t.queue \in Queues
           \/ t.agent \in Agents /\ at \in {"join", "claim", "hold", "media", "answer", "confirm",
                                            "live", "decline", "reject"}
           \/ at \in {"fail", "endFailed", "end", "settle", "miss"}
    PROVE  TasksTyped'
  <1>1. TaskConsistent([t EXCEPT !.at = at])
    BY TaskTyped DEF TaskConsistent, Work
  <1> QED
    BY <1>1, GotoTyped

(* So do the steps of an accept (handleAgentJoined).                       *)
LEMMA TypedJoin ==
    ASSUME TasksTyped, RowsTyped, NEW t \in work, JoinStep(t)
    PROVE  TasksTyped' /\ RowsTyped'
  <1> USE DEF callVars, agentVars, history, draining, bounds
  <1> DEFINE Accepting == {"join", "claim", "hold", "media", "answer", "confirm", "live"}
  <1>1. t \in Work /\ t.call \in Calls /\ (t.at \in Accepting => t.agent \in Agents)
    BY TaskTyped DEF TaskConsistent
  <1>2. ASSUME t.at \in Accepting, UNCHANGED hops,
               Finish(t) \/ \E at \in (Accepting \ {"join"}) \cup {"fail", "endFailed"} : Goto(t, at)
        PROVE  TasksTyped'
    <2>1. CASE Finish(t)
      BY <1>2, <2>1, FinishTyped
    <2>2. CASE \E at \in (Accepting \ {"join"}) \cup {"fail", "endFailed"} : Goto(t, at)
      BY <1>1, <1>2, <2>2, NextStageTyped DEF Stages
    <2> QED
      BY <1>2, <2>1, <2>2
  <1>3. CASE Join(t)
    BY <1>2, <1>3 DEF Join, RowsTyped
  <1>4. CASE JoinIgnored(t)
    BY <1>2, <1>4 DEF JoinIgnored, RowsTyped
  <1>5. CASE JoinOverCapacity(t)
    BY <1>2, <1>5 DEF JoinOverCapacity, RowsTyped
  <1>6. CASE ClaimForJoin(t) \/ ConfirmClaim(t)
    <2>1. TasksTyped'
      BY <1>2, <1>6 DEF ClaimForJoin, ConfirmClaim
    <2> QED
      BY <1>1, <1>6, <2>1 DEF ClaimForJoin, ConfirmClaim, TakeCall, RowsTyped
  <1>7. CASE Hold(t)
    <2>1. TasksTyped'
      BY <1>2, <1>7 DEF Hold
    <2> QED
      BY <1>1, <1>7, <2>1 DEF Hold, Held, RowsTyped
  <1>8. CASE Media(t)
    <2>1. TasksTyped'
      BY <1>2, <1>8 DEF Media
    <2> QED
      BY <1>8, <2>1 DEF Media, RowsTyped
  <1>9. CASE NoLeg(t)
    BY <1>2, <1>9 DEF NoLeg, RowsTyped
  <1>10. CASE AnswerCustomer(t)
    BY <1>2, <1>10 DEF AnswerCustomer, RowsTyped
  <1>11. CASE NothingToAnswer(t)
    BY <1>2, <1>11 DEF NothingToAnswer, RowsTyped
  <1>12. CASE ClaimLost(t)
    BY <1>2, <1>12 DEF ClaimLost, RowsTyped
  <1>13. CASE GoLive(t)
    <2>1. TasksTyped'
      BY <1>2, <1>13 DEF GoLive
    <2> QED
      BY <1>13, <2>1 DEF GoLive, RowsTyped, Statuses
  <1>14. CASE LiveTooLate(t)
    BY <1>2, <1>14 DEF LiveTooLate, RowsTyped
  <1>15. CASE Failed(t)
    <2>1. TasksTyped'
      BY <1>15, FinishTyped DEF Failed
    <2> QED
      BY <1>15, <2>1 DEF Failed, Released, RowsTyped
  <1> QED
    BY <1>3, <1>4, <1>5, <1>6, <1>7, <1>8, <1>9, <1>10, <1>11, <1>12, <1>13, <1>14, <1>15
       DEF JoinStep

(* So do the steps of a decline or a ring timeout (handleCallRejected,     *)
(* passOffer).                                                             *)
LEMMA TypedPass ==
    ASSUME TasksTyped, RowsTyped, NEW t \in work, PassStep(t)
    PROVE  TasksTyped' /\ RowsTyped'
  <1> USE DEF callVars, agentVars, history, draining, bounds
  <1>1. /\ t \in Work /\ t.call \in Calls
        /\ t.at \in {"decline", "reject", "withdraw", "record", "release"} => t.agent \in Agents
        /\ t.at \in {"withdraw", "record", "release"} => t.queue \in Queues
    BY TaskTyped DEF TaskConsistent
  <1>2. CASE DeclineOffer(t)
    <2> DEFINE u == Task("withdraw", t.call, t.agent, queue[t.call], 0)
    <2>1. queue[t.call] \in Queues /\ t.agent \in Agents
      BY <1>1, <1>2 DEF DeclineOffer, RowsTyped
    <2>2. u \in Work /\ u.at # "wait" /\ TaskConsistent(u)
      BY <1>1, <2>1, TaskType DEF Stages, Task, TaskConsistent
    <2>3. TasksTyped'
      BY <1>2, <2>2, AddTyped DEF DeclineOffer
    <2> QED
      BY <1>2, <2>3 DEF DeclineOffer, RowsTyped
  <1>3. CASE DeclineCall(t)
    <2>1. TasksTyped'
      BY <1>1, <1>3, NextStageTyped DEF DeclineCall, Stages
    <2> QED
      BY <1>3, <2>1 DEF DeclineCall, RowsTyped
  <1>4. CASE DeclineIgnored(t)
    <2>1. TasksTyped'
      BY <1>4, FinishTyped DEF DeclineIgnored
    <2> QED
      BY <1>4, <2>1 DEF DeclineIgnored, RowsTyped
  <1>5. CASE RejectCall(t)
    <2>1. TasksTyped'
      BY <1>5, NextStageTyped, FinishTyped DEF RejectCall, Stages
    <2> QED
      BY <1>1, <1>5, <2>1 DEF RejectCall, TakeCall, RowsTyped
  <1>6. CASE Withdraw(t)
    <2>1. TasksTyped'
      BY <1>1, <1>6, NextStageTyped, FinishTyped DEF Withdraw, Stages
    <2> QED
      BY <1>1, <1>6, <2>1 DEF Withdraw, DropOffer, RowsTyped
  <1>7. CASE Record(t)
    <2>1. TasksTyped'
      BY <1>1, <1>7, NextStageTyped DEF Record, Stages
    <2> QED
      BY <1>1, <1>7, <2>1 DEF Record, RowsTyped
  <1>8. CASE Release(t)
    <2>1. TasksTyped'
      BY <1>8, NextStageTyped, FinishTyped DEF Release, Stages
    <2> QED
      BY <1>1, <1>8, <2>1 DEF Release, Released, RowsTyped
  <1>9. CASE Miss(t)
    <2>1. TasksTyped'
      BY <1>9, FinishTyped DEF Miss
    <2> QED
      BY <1>1, <1>9, <2>1, TaskTyped DEF Miss, RowsTyped
  <1> QED
    BY <1>2, <1>3, <1>4, <1>5, <1>6, <1>7, <1>8, <1>9 DEF PassStep

(* So do the steps of an overflow (#waitExpired): the hop counter is       *)
(* bounded because the scan checks it and only one handler overflows a     *)
(* call at a time.                                                         *)
LEMMA TypedWait ==
    ASSUME TasksTyped, RowsTyped, NEW t \in work, WaitStep(t)
    PROVE  TasksTyped' /\ RowsTyped'
  <1> USE DEF callVars, agentVars, history, draining, bounds
  <1>1. /\ t \in Work /\ t.call \in Calls /\ t.agent \in Agents \cup {None}
        /\ t.at \in {"wait", "moved", "enter"} => t.queue \in Queues
    BY TaskTyped DEF TaskConsistent
  <1>2. CASE MoveToOverflow(t)
    <2> DEFINE u == Task("moved", t.call, t.agent, Overflow[t.queue], 0)
    <2>1. Overflow[t.queue] \in Queues /\ hops[t.call] < MaxOverflows
      BY <1>2, TaskTyped DEF MoveToOverflow, TaskConsistent
    <2>2. u \in Work /\ u.at = "moved" /\ TaskConsistent(u)'
      BY <1>1, <2>1, TaskType DEF Stages, Task, TaskConsistent
    <2>3. work' = (work \ {t}) \cup {u} /\ \A v \in work \ {t} : v.at = "wait" => v.call # t.call
      BY <1>2 DEF MoveToOverflow, TasksTyped
    <2>4. hops' = [hops EXCEPT ![t.call] = @ + 1]
      BY <1>2 DEF MoveToOverflow
    <2>5. \A v \in work \ {t} : TaskConsistent(v)'
      BY <2>3, <2>4, TaskTyped DEF TaskConsistent, RowsTyped
    <2>6. TasksTyped'
      BY <2>2, <2>3, <2>5 DEF TasksTyped
    <2>7. hops' \in [Calls -> 0 .. MaxOverflows]
      <3>1. hops[t.call] + 1 \in 0 .. MaxOverflows
        <4>1. hops[t.call] \in 0 .. MaxOverflows
          BY <1>1 DEF RowsTyped
        <4> QED
          BY <2>1, <4>1
      <3> QED
        BY <1>1, <2>4, <3>1 DEF RowsTyped
    <2> QED
      BY <1>1, <1>2, <2>1, <2>6, <2>7 DEF MoveToOverflow, DropOffer, RowsTyped
  <1>3. CASE NotMoved(t)
    <2>1. TasksTyped'
      BY <1>3, FinishTyped DEF NotMoved
    <2> QED
      BY <1>3, <2>1 DEF NotMoved, RowsTyped
  <1>4. CASE Moved(t)
    <2>1. TaskConsistent([t EXCEPT !.at = "enter"])
      BY <1>1, <1>4 DEF Moved, TaskConsistent, Work
    <2>2. TasksTyped'
      BY <1>4, <2>1, GotoTyped DEF Moved, Stages
    <2> QED
      BY <1>4, <2>2 DEF Moved, Released, RowsTyped
  <1>5. CASE EnterQueue(t)
    <2>1. TasksTyped'
      BY <1>5, FinishTyped DEF EnterQueue
    <2> QED
      BY <1>1, <1>5, <2>1 DEF EnterQueue, LegOffered, RowsTyped
  <1> QED
    BY <1>2, <1>3, <1>4, <1>5 DEF WaitStep

(* So do the steps that end a call (CallTerminator).                       *)
LEMMA TypedEnd ==
    ASSUME TasksTyped, RowsTyped, NEW t \in work, EndStep(t)
    PROVE  TasksTyped' /\ RowsTyped'
  <1> USE DEF callVars, agentVars, history, draining, bounds
  <1>1. t \in Work /\ t.call \in Calls /\ t.agent \in Agents \cup {None} /\ t.seen \in {0} \cup Stamps
    BY TaskTyped
  <1>2. CASE CommitEnd(t)
    <2>1. PICK seen \in {0} \cup Stamps :
              work' = (work \ {t}) \cup {Task("settle", t.call, t.agent, None, seen)}
      BY <1>1, <1>2 DEF CommitEnd, Stamps
    <2> DEFINE u == Task("settle", t.call, t.agent, None, seen)
    <2>2. u \in Work /\ u.at # "wait" /\ TaskConsistent(u)
      BY <1>1, TaskType DEF Stages, Task, TaskConsistent
    <2>3. TasksTyped'
      BY <1>2, <2>1, <2>2, AddTyped DEF CommitEnd
    <2>4. \A c \in Calls : status'[c] # "NEW" => queue[c] \in Queues
      <3>1. status[t.call] # "NEW"
        BY <1>2 DEF CommitEnd, CanEnd, Live, Ending
      <3> QED
        BY <1>2, <3>1 DEF CommitEnd, FinalStatus, RowsTyped
    <2> QED
      BY <1>1, <1>2, <2>3, <2>4 DEF CommitEnd, FinalStatus, RowsTyped, Statuses
  <1>3. CASE EndLost(t)
    <2>1. TasksTyped'
      BY <1>3, NextStageTyped, FinishTyped DEF EndLost, Stages
    <2> QED
      BY <1>3, <2>1 DEF EndLost, RowsTyped
  <1>4. CASE Settle(t)
    <2>1. Finish(t) \/ Goto(t, "fail") \/ Goto(t, "miss")
      BY <1>4 DEF Settle
    <2>2. TasksTyped'
      BY <1>4, <2>1, NextStageTyped, FinishTyped DEF Settle, Stages
    <2> QED
      BY <1>4, <2>2 DEF Settle, Released, RowsTyped
  <1> QED
    BY <1>2, <1>3, <1>4 DEF EndStep

(* So do the steps of a drain (drainForTenant, drainQueue).                *)
LEMMA TypedDrain ==
    ASSUME TasksTyped, RowsTyped, NEW d \in drains, DrainStep(d)
    PROVE  TasksTyped' /\ RowsTyped'
  <1> USE DEF callVars, agentVars, history, draining, bounds
  <1>1. d \in Drain
    BY DEF RowsTyped
  <1>2. d.queue \in Queues /\ d.queues \subseteq Queues /\ d.members \subseteq Agents
        /\ d.todo \subseteq Calls /\ d.pool \subseteq Agents /\ d.try \in 1 .. DrainAttempts
    BY <1>1 DEF Drain
  <1>3. d.at = "claim" => d.call \in Calls
    BY DEF RowsTyped
  <1>4. TasksTyped'
    BY DEF DrainStep, DrainMembers, DrainRead, DrainNext, DrainListDone, DrainAssign, DrainSkip,
           DrainNobody, TasksTyped, TaskConsistent
  <1> DEFINE DrainsTyped == drains' \subseteq Drain /\ \A e \in drains' : e.at = "claim" => e.call \in Calls
  <1>5. ASSUME QueueDone(d)
        PROVE  DrainsTyped
    <2>1. drains' \subseteq Drain
      BY <1>5, QueueDoneType DEF RowsTyped
    <2>2. \A e \in drains' \ drains : e.at = "members"
      BY <1>5 DEF QueueDone, NextQueue, NewDrain
    <2> QED
      BY <2>1, <2>2 DEF RowsTyped
  <1>6. ASSUME NEW e \in Drain, e.at = "claim" => e.call \in Calls, Becomes(d, e)
        PROVE  DrainsTyped
    BY <1>6 DEF Becomes, RowsTyped
  <1>7. CASE DrainMembers(d)
    <2> DEFINE members == {a \in Members[d.queue] : Available(a)}
    <2>1. [d EXCEPT !.at = "read", !.members = members] \in Drain
      BY <1>1, <1>2 DEF Drain
    <2>2. DrainsTyped
      BY <1>1, <1>5, <1>6, <1>7, <2>1 DEF DrainMembers, Drain
    <2> QED
      BY <1>4, <1>7, <2>2 DEF DrainMembers, RowsTyped
  <1>8. CASE DrainRead(d)
    <2>1. [d EXCEPT !.at = "next", !.todo = WaitingIn(d.queue)] \in Drain
      BY <1>1 DEF Drain, WaitingIn
    <2>2. DrainsTyped
      BY <1>1, <1>5, <1>6, <1>8, <2>1 DEF DrainRead, Drain
    <2> QED
      BY <1>4, <1>8, <2>2 DEF DrainRead, RowsTyped
  <1>9. CASE DrainNext(d)
    <2>1. PICK c \in d.todo :
              /\ missed' = IF NewRound(c, d.members) THEN [missed EXCEPT ![c] = {}] ELSE missed
              /\ Becomes(d, [d EXCEPT !.at = "claim", !.todo = @ \ {c}, !.call = c,
                                      !.pool = Eligible(c, d.members)])
      BY <1>9 DEF DrainNext
    <2>2. Eligible(c, d.members) \subseteq Agents
      BY <1>2 DEF Eligible, Fresh
    <2>3. DrainsTyped
      BY <1>1, <1>2, <1>6, <2>1, <2>2 DEF Drain
    <2> QED
      BY <1>2, <1>4, <1>9, <2>1, <2>3 DEF DrainNext, RowsTyped
  <1>10. CASE DrainListDone(d)
    <2>1. CASE d.lost /\ d.try < DrainAttempts
      <3>1. NewDrain(d.queues, d.queue, d.try + 1) \in Drain
        BY <1>2, <2>1, NewDrainType
      <3>2. DrainsTyped
        BY <1>6, <1>10, <2>1, <3>1 DEF DrainListDone, NewDrain
      <3> QED
        BY <1>4, <1>10, <3>2 DEF DrainListDone, RowsTyped
    <2>2. CASE ~(d.lost /\ d.try < DrainAttempts)
      BY <1>4, <1>5, <1>10, <2>2 DEF DrainListDone, RowsTyped
    <2> QED
      BY <2>1, <2>2
  <1>11. CASE DrainAssign(d)
    <2>1. PICK a \in d.pool : MakeOffer(d.call, a)
      BY <1>11 DEF DrainAssign
    <2>2. DrainsTyped
      BY <1>5, <1>11 DEF DrainAssign
    <2>3. d.call \in Calls /\ a \in Agents
      BY <1>2, <1>3, <1>11 DEF DrainAssign
    <2>4. /\ agent' \in [Calls -> Agents \cup {None}]
          /\ offered' \in [Calls -> {0} \cup Stamps]
          /\ rung' \in [Calls -> BOOLEAN]
          /\ busy' \in [Agents -> Calls \cup {None}]
      BY <2>1, <2>3 DEF MakeOffer, FreshStamp, Stamps, RowsTyped
    <2>5. leg' \in [Calls -> {"none", "ready", "used"}]
      BY <1>11, <2>3 DEF DrainAssign, LegOffered, RowsTyped
    <2> QED
      BY <1>4, <1>11, <2>2, <2>4, <2>5 DEF DrainAssign, RowsTyped
  <1>12. CASE DrainSkip(d)
    <2>1. PICK a \in d.pool :
              Becomes(d, [d EXCEPT !.pool = @ \ {a}, !.lost = @ \/ Claimable(a)])
      BY <1>12 DEF DrainSkip
    <2>2. (d.lost \/ Claimable(a)) \in BOOLEAN
      BY <1>1 DEF Drain
    <2>3. [d EXCEPT !.pool = @ \ {a}, !.lost = @ \/ Claimable(a)] \in Drain
      BY <1>1, <2>2 DEF Drain
    <2>4. DrainsTyped
      BY <1>1, <1>3, <1>6, <2>1, <2>3 DEF Drain
    <2> QED
      BY <1>4, <1>12, <2>4 DEF DrainSkip, RowsTyped
  <1>13. CASE DrainNobody(d)
    <2>1. [d EXCEPT !.at = "next", !.call = None] \in Drain
      BY <1>1 DEF Drain
    <2>2. DrainsTyped
      BY <1>1, <1>6, <1>13, <2>1 DEF DrainNobody, Drain
    <2> QED
      BY <1>4, <1>13, <2>2 DEF DrainNobody, RowsTyped
  <1> QED
    BY <1>7, <1>8, <1>9, <1>10, <1>11, <1>12, <1>13 DEF DrainStep

(* So does every step.                                                     *)
LEMMA TypedNext ==
    ASSUME TasksTyped, RowsTyped, [Next]_vars
    PROVE  TasksTyped' /\ RowsTyped'
  <1> USE DEF callVars, agentVars, history, draining, bounds
  <1>1. ASSUME NEW c \in Calls, Message(c) \/ Scan(c)
        PROVE  TasksTyped' /\ RowsTyped'
    BY <1>1, TypedMessage, TypedScan
  <1>2. ASSUME NEW t \in work, WorkStep(t)
        PROVE  TasksTyped' /\ RowsTyped'
    BY <1>2, TypedNew, TypedJoin, TypedPass, TypedWait, TypedEnd DEF WorkStep
  <1>3. ASSUME NEW x \in due, StartDrain(x)
        PROVE  TasksTyped' /\ RowsTyped'
    <2>1. TasksTyped'
      BY <1>3 DEF StartDrain, TasksTyped, TaskConsistent
    <2>2. PICK queues \in SUBSET Queues : NextQueue(drains, queues)
      BY <1>3 DEF StartDrain, RowsTyped
    <2>3. drains' \subseteq Drain
      BY <2>2, NextQueueType DEF RowsTyped
    <2>4. \A e \in drains' \ drains : e.at = "members"
      BY <2>2 DEF NextQueue, NewDrain
    <2> QED
      BY <1>3, <2>1, <2>3, <2>4 DEF StartDrain, RowsTyped
  <1>4. ASSUME NEW d \in drains, DrainStep(d)
        PROVE  TasksTyped' /\ RowsTyped'
    BY <1>4, TypedDrain
  <1>5. ASSUME NEW a \in Agents, SetAvailability(a) \/ Sweep(a)
        PROVE  TasksTyped' /\ RowsTyped'
    <2>1. TasksTyped'
      BY <1>5 DEF SetAvailability, Sweep, TasksTyped, TaskConsistent
    <2>2. CASE SetAvailability(a)
      BY <2>1, <2>2 DEF SetAvailability, RowsTyped
    <2>3. CASE Sweep(a)
      BY <2>1, <2>3 DEF Sweep, RowsTyped
    <2> QED
      BY <1>5, <2>2, <2>3
  <1>6. CASE Crash
    <2>1. TasksTyped'
      BY <1>6 DEF Crash, Finish, TasksTyped, TaskConsistent
    <2>2. crashes' \in 0 .. MaxCrashes /\ due' \subseteq due /\ drains' \subseteq drains
      BY <1>6 DEF Crash, RowsTyped
    <2> QED
      BY <1>6, <2>1, <2>2 DEF Crash, RowsTyped
  <1>7. CASE UNCHANGED vars
    BY <1>7 DEF vars, TasksTyped, TaskConsistent, RowsTyped
  <1> QED
    BY <1>1, <1>2, <1>3, <1>4, <1>5, <1>6, <1>7 DEF Next

(* Every variable keeps its type, and no call overflows more often than    *)
(* MAX_OVERFLOWS (QueueTimeoutService.#waitExpired).                       *)
THEOREM TypeCorrect == Spec => []TypeOK
  <1>1. Init => TasksTyped /\ RowsTyped
    BY TypedInit
  <1>2. TasksTyped /\ RowsTyped /\ [Next]_vars => (TasksTyped /\ RowsTyped)'
    BY TypedNext
  <1>3. TasksTyped /\ RowsTyped => TypeOK
    BY TypedParts
  <1> QED
    BY <1>1, <1>2, <1>3, PTL DEF Spec

-----------------------------------------------------------------------------
(* The inductive invariant: what IInv says of agents, offers and handlers. *)

Core == /\ OfferHoldsAgent /\ PassingHoldsAgent /\ OnePassPerOffer
        /\ AnsweringOwnsCall /\ RowsConsistent

(* The facts of a task that Core's preservation rests on.                  *)
Idle(u) == ~Passing(u) /\ ~Answering(u) /\ u.at # "settle"

(* Core holds before the first call arrives.                               *)
LEMMA CoreInit == Init => Core
  BY DEF Init, Core, OfferHoldsAgent, PassingHoldsAgent, OnePassPerOffer, AnsweringOwnsCall,
         RowsConsistent, Ringing, Live

(* Steps that leave the rows alone and start or continue idle handlers.    *)
LEMMA IdleCore ==
    ASSUME TasksTyped, RowsTyped, Core, UNCHANGED <<status, agent, offered, busy>>,
           \A u \in work' \ work : Idle(u) /\ u.call \in Calls /\ status[u.call] # "NEW"
    PROVE  Core'
  <1> USE DEF Core, Idle
  <1>1. OfferHoldsAgent'
    BY DEF OfferHoldsAgent, Ringing, Live
  <1>2. PassingHoldsAgent'
    BY DEF PassingHoldsAgent, Live
  <1>3. OnePassPerOffer'
    BY DEF OnePassPerOffer, Live
  <1>4. AnsweringOwnsCall'
    BY DEF AnsweringOwnsCall, Live
  <1>5. RowsConsistent'
    BY DEF RowsConsistent, Final
  <1> QED
    BY <1>1, <1>2, <1>3, <1>4, <1>5

(* Steps that leave the rows alone and take a handler to its next stage.   *)
LEMMA AdvanceCore ==
    ASSUME TasksTyped, RowsTyped, Core, UNCHANGED <<status, agent, offered, busy>>,
           NEW t \in work, NEW at \in Stages \ {"settle"}, Goto(t, at),
           at \in {"record", "release", "moved"} => Passing(t),
           at \in {"hold", "media", "answer", "confirm", "live"} => Answering(t)
    PROVE  Core'
  <1> DEFINE u == [t EXCEPT !.at = at]
  <1>1. /\ u.at = at /\ u.call = t.call /\ u.agent = t.agent
        /\ work' = (work \ {t}) \cup {u}
    BY TaskTyped DEF Work, Goto
  <1>2. (Passing(u) => Passing(t)) /\ (Answering(u) => Answering(t)) /\ u.at # "settle"
    BY <1>1 DEF Passing, Answering
  <1> HIDE DEF u
  <1> USE DEF Core
  <1>3. OfferHoldsAgent'
    BY DEF OfferHoldsAgent, Ringing, Live
  <1>4. PassingHoldsAgent'
    BY <1>1, <1>2 DEF PassingHoldsAgent, Live
  <1>5. OnePassPerOffer'
    BY <1>1, <1>2 DEF OnePassPerOffer, Live
  <1>6. AnsweringOwnsCall'
    BY <1>1, <1>2 DEF AnsweringOwnsCall, Live
  <1>7. RowsConsistent'
    BY <1>1, <1>2 DEF RowsConsistent, Final
  <1> QED
    BY <1>3, <1>4, <1>5, <1>6, <1>7

(* A handler that returns without changing a row keeps Core.               *)
LEMMA FinishCore ==
    ASSUME TasksTyped, RowsTyped, Core, UNCHANGED <<status, agent, offered, busy>>,
           NEW t, Finish(t)
    PROVE  Core'
  BY IdleCore DEF Finish

(* A claim: no handler that still has to release an agent, and no offer,   *)
(* concerns an agent whom no call holds.                                   *)
LEMMA OfferCore ==
    ASSUME TasksTyped, RowsTyped, Core, NEW c \in Calls, NEW a \in Agents,
           Unassigned(c), Claimable(a), MakeOffer(c, a), UNCHANGED status, work' \subseteq work
    PROVE  Core'
  <1> USE DEF Core
  <1>1. /\ status[c] = "RINGING" /\ agent[c] = None /\ busy[a] = None
        /\ busy' = [busy EXCEPT ![a] = c]
        /\ agent' = [agent EXCEPT ![c] = a]
        /\ \E stamp \in Stamps : offered' = [offered EXCEPT ![c] = stamp]
    <2>1. FreshStamp(c) \in Stamps
      BY DEF FreshStamp, Stamps
    <2> QED
      BY <2>1 DEF Unassigned, Claimable, Available, MakeOffer
  <1>2. OfferHoldsAgent'
    BY <1>1 DEF OfferHoldsAgent, Ringing, Live, RowsTyped
  <1>3. PassingHoldsAgent'
    BY <1>1, TaskTyped DEF PassingHoldsAgent, Passing, Live, RowsTyped
  <1>4. OnePassPerOffer'
    BY DEF OnePassPerOffer, Live
  <1>5. AnsweringOwnsCall'
    BY <1>1, TaskTyped DEF AnsweringOwnsCall, Answering, TaskConsistent, Live, RowsTyped
  <1>6. RowsConsistent'
    BY <1>1 DEF RowsConsistent, Final, RowsTyped
  <1> QED
    BY <1>2, <1>3, <1>4, <1>5, <1>6

(* An accept takes the call, by a handler that goes on answering or, when  *)
(* it rejects, ends it.                                                    *)
LEMMA TakeCore ==
    ASSUME TasksTyped, RowsTyped, Core, NEW t \in work, t.agent \in Agents,
           CanTake(t.call, t.agent), TakeCall(t.call, t.agent), UNCHANGED <<status, busy>>,
           NEW at \in {"hold", "live", "end"}, Goto(t, at)
    PROVE  Core'
  <1> DEFINE u == [t EXCEPT !.at = at]
  <1>1. /\ u.at = at /\ u.call = t.call /\ u.agent = t.agent
        /\ work' = (work \ {t}) \cup {u} /\ t.call \in Calls
    BY TaskTyped DEF Work, Goto
  <1>2. ~Passing(u) /\ u.at # "settle"
    BY <1>1 DEF Passing
  <1>3. /\ Live(t.call) /\ agent[t.call] \in {None, t.agent}
        /\ agent' = [agent EXCEPT ![t.call] = t.agent]
        /\ offered' = [offered EXCEPT ![t.call] = 0]
    BY DEF CanTake, TakeCall
  <1> HIDE DEF u
  <1> USE DEF Core
  <1>4. OfferHoldsAgent'
    BY <1>1, <1>3 DEF OfferHoldsAgent, Ringing, Live, RowsTyped
  <1>5. PassingHoldsAgent'
    BY <1>1, <1>2, <1>3, TaskTyped DEF PassingHoldsAgent, Live, RowsTyped
  <1>6. OnePassPerOffer'
    BY <1>1, <1>2 DEF OnePassPerOffer, Live
  <1>7. AnsweringOwnsCall'
    BY <1>1, <1>3, TaskTyped DEF AnsweringOwnsCall, Answering, TaskConsistent, Live, RowsTyped
  <1>8. RowsConsistent'
    BY <1>1, <1>2, <1>3 DEF RowsConsistent, Final, Live, RowsTyped
  <1> QED
    BY <1>4, <1>5, <1>6, <1>7, <1>8

(* An offer is taken back: from then on its handler is the only one that   *)
(* passes the call on from that agent.                                     *)
LEMMA DropCore ==
    ASSUME TasksTyped, RowsTyped, Core, NEW c \in Calls, NEW t \in work, NEW u \in Work,
           t.call = c, u.call = c, u.agent = t.agent, u.at \in {"record", "moved"},
           status[c] = "RINGING", agent[c] = t.agent, agent[c] = None \/ offered[c] # 0,
           DropOffer(c), UNCHANGED <<status, busy>>, work' = (work \ {t}) \cup {u}
    PROVE  Core'
  <1>1. /\ agent' = [agent EXCEPT ![c] = None]
        /\ offered' = [offered EXCEPT ![c] = 0]
    BY DEF DropOffer
  <1>2. \A v \in work : v.call \in Calls /\ (Answering(v) => v.agent \in Agents)
    BY TaskTyped DEF Answering, TaskConsistent
  <1>3. ~Answering(u) /\ u.at # "settle"
    BY DEF Answering
  <1> USE DEF Core
  <1>4. \A v \in work : ~(Answering(v) /\ v.call = c)
    BY <1>2 DEF AnsweringOwnsCall, Live
  <1>5. \A v \in work : ~(Passing(v) /\ v.call = c /\ v.agent = t.agent)
    BY DEF PassingHoldsAgent, Passing, Live
  <1>6. OfferHoldsAgent'
    BY <1>1 DEF OfferHoldsAgent, Ringing, Live, RowsTyped
  <1>7. PassingHoldsAgent'
    <2>1. Passing(u) => busy[t.agent] = c
      BY DEF OfferHoldsAgent, Ringing, Live, Passing
    <2> QED
      BY <1>1, <1>2, <2>1 DEF PassingHoldsAgent, Passing, Live, RowsTyped
  <1>8. OnePassPerOffer'
    BY <1>5 DEF OnePassPerOffer, Live
  <1>9. AnsweringOwnsCall'
    BY <1>1, <1>2, <1>3, <1>4 DEF AnsweringOwnsCall, Live, RowsTyped
  <1>10. RowsConsistent'
    BY <1>1, <1>3 DEF RowsConsistent, Final, RowsTyped
  <1> QED
    BY <1>6, <1>7, <1>8, <1>9, <1>10

(* A release lets go of an agent for an ended call, or by the one handler  *)
(* that took the offer back and has yet to release them.                   *)
LEMMA ReleaseCore ==
    ASSUME TasksTyped, RowsTyped, Core, NEW c \in Calls, NEW a \in Agents,
           busy' = Released(a, c), UNCHANGED <<status, agent, offered>>,
           \A u \in work' \ work : Idle(u) /\ u.call \in Calls /\ status[u.call] # "NEW",
           \/ ~Live(c)
           \/ \E t \in work \ work' : Passing(t) /\ t.call = c /\ t.agent = a
    PROVE  Core'
  <1> USE DEF Core, Idle
  <1>1. \A x \in Agents : busy'[x] = IF x = a /\ busy[x] = c THEN None ELSE busy[x]
    BY DEF Released
  <1>2. OfferHoldsAgent'
    BY <1>1 DEF OfferHoldsAgent, PassingHoldsAgent, Ringing, Live, RowsTyped
  <1>3. PassingHoldsAgent'
    BY <1>1, TaskTyped DEF PassingHoldsAgent, OnePassPerOffer, Passing, Live, RowsTyped
  <1>4. OnePassPerOffer'
    BY DEF OnePassPerOffer, Live
  <1>5. AnsweringOwnsCall'
    BY DEF AnsweringOwnsCall, Live
  <1>6. RowsConsistent'
    BY DEF RowsConsistent, Final
  <1> QED
    BY <1>2, <1>3, <1>4, <1>5, <1>6

(* What agents, customers and the provider send keeps Core.                *)
LEMMA CoreMessage ==
    ASSUME TasksTyped, RowsTyped, Core, NEW c \in Calls, Message(c)
    PROVE  Core'
  <1> USE DEF callVars, agentVars
  <1>1. CASE Arrive(c)
    <2>1. PICK q \in Entries : work' = work \cup {Task("new", c, None, q, 0)}
      BY <1>1 DEF Arrive
    <2>2. /\ status[c] = "NEW" /\ status' = [status EXCEPT ![c] = "RINGING"]
          /\ UNCHANGED <<agent, offered, busy>>
      BY <1>1 DEF Arrive
    <2>3. \A u \in work' \ work : Idle(u) /\ u.call = c
      BY <2>1 DEF Idle, Passing, Answering, Task
    <2>4. \A u \in work : u.call \in Calls \ {c}
      BY <2>2, TaskTyped DEF Core, RowsConsistent
    <2> USE DEF Core
    <2>5. OfferHoldsAgent'
      BY <2>2 DEF OfferHoldsAgent, RowsConsistent, Ringing, Live, RowsTyped
    <2>6. PassingHoldsAgent'
      BY <2>2, <2>3, <2>4 DEF PassingHoldsAgent, Idle, Live, RowsTyped
    <2>7. OnePassPerOffer'
      BY <2>2, <2>3, <2>4 DEF OnePassPerOffer, Idle, Live, RowsTyped
    <2>8. AnsweringOwnsCall'
      BY <2>2, <2>3, <2>4 DEF AnsweringOwnsCall, Idle, Live, RowsTyped
    <2>9. RowsConsistent'
      BY <2>2, <2>3, <2>4 DEF RowsConsistent, Idle, Final, RowsTyped
    <2> QED
      BY <2>5, <2>6, <2>7, <2>8, <2>9
  <1>2. CASE HangUp(c) \/ MediaLost(c)
    <2>1. /\ \E at \in {"end", "endNetwork"} : work' = work \cup {Task(at, c, agent[c], None, 0)}
          /\ status[c] # "NEW"
      BY <1>2 DEF HangUp, MediaLost, Live
    <2>2. \A u \in work' \ work : Idle(u) /\ u.call \in Calls /\ status[u.call] # "NEW"
      BY <2>1 DEF Idle, Passing, Answering, Task
    <2> QED
      BY <1>2, <2>2, IdleCore DEF HangUp, MediaLost
  <1>3. CASE ProviderEnd(c)
    <2>1. PICK at \in {"endCustomer", "endProvider"}, seen \in {0, 2} :
              work' = work \cup {Task(at, c, agent[c], None, seen)}
      BY <1>3 DEF ProviderEnd
    <2>2. status[c] # "NEW"
      BY <1>3 DEF ProviderEnd, Live
    <2>3. \A u \in work' \ work : Idle(u) /\ u.call \in Calls /\ status[u.call] # "NEW"
      BY <2>1, <2>2 DEF Idle, Passing, Answering, Task
    <2> QED
      BY <1>3, <2>3, IdleCore DEF ProviderEnd
  <1>4. CASE RingingAgentReconnect(c)
    BY <1>4, IdleCore DEF RingingAgentReconnect
  <1>5. ASSUME NEW a \in Agents, PostJoin(c, a) \/ PostDecline(c, a)
        PROVE  Core'
    <2>1. PICK at \in {"join", "decline"} : work' = work \cup {Task(at, c, a, None, 0)}
      BY <1>5 DEF PostJoin, PostDecline
    <2>2. status[c] # "NEW"
      BY <1>5 DEF PostJoin, PostDecline, MayAct, Live
    <2>3. \A u \in work' \ work : Idle(u) /\ u.call \in Calls /\ status[u.call] # "NEW"
      BY <2>1, <2>2 DEF Idle, Passing, Answering, Task
    <2> QED
      BY <1>5, <2>3, IdleCore DEF PostJoin, PostDecline
  <1> QED
    BY <1>1, <1>2, <1>3, <1>4, <1>5 DEF Message

(* So do the scans, which only start handlers.                             *)
LEMMA CoreScan ==
    ASSUME TasksTyped, RowsTyped, Core, NEW c \in Calls, Scan(c)
    PROVE  Core'
  <1>1. UNCHANGED <<status, agent, offered, busy>>
    BY DEF Scan, RingOut, ExpireScan, WaitScan, NoAnswerScan, callVars, agentVars
  <1>2. \A u \in work' \ work : u.at \in {"withdraw", "wait", "endRinging"} /\ u.call = c
    BY DEF Scan, RingOut, ExpireScan, WaitScan, NoAnswerScan, Task
  <1>3. work' # work => status[c] # "NEW"
    BY DEF Scan, RingOut, ExpireScan, WaitScan, NoAnswerScan
  <1>4. \A u \in work' \ work : Idle(u) /\ u.call \in Calls /\ status[u.call] # "NEW"
    BY <1>2, <1>3 DEF Idle, Passing, Answering
  <1> QED
    BY <1>1, <1>4, IdleCore

(* So do the steps of an arriving call: its claim needs a free agent.      *)
LEMMA CoreNew ==
    ASSUME TasksTyped, RowsTyped, Core, NEW t \in work, NewStep(t)
    PROVE  Core'
  <1> USE DEF callVars, agentVars
  <1>1. CASE NewAssigned(t)
    <2>1. t.call \in Calls /\ t.queue \in Queues
      BY <1>1, TaskTyped DEF NewAssigned, TaskConsistent
    <2>2. PICK a \in Agents : Claimable(a) /\ MakeOffer(t.call, a)
      BY <1>1, <2>1 DEF NewAssigned
    <2> QED
      BY <1>1, <2>1, <2>2, OfferCore DEF NewAssigned, Finish
  <1>2. CASE NewInOrder(t)
    BY <1>2, AdvanceCore DEF NewInOrder, Stages
  <1>3. CASE NewRingAll(t) \/ NewWaits(t)
    BY <1>3, FinishCore DEF NewRingAll, NewWaits
  <1> QED
    BY <1>1, <1>2, <1>3 DEF NewStep

(* So do the steps of an accept: its claim takes the call only from nobody *)
(* or from the agent it is offered to, and clears the offer.               *)
LEMMA CoreJoin ==
    ASSUME TasksTyped, RowsTyped, Core, NEW t \in work, JoinStep(t)
    PROVE  Core'
  <1> USE DEF callVars, agentVars
  <1>1. /\ t.call \in Calls
        /\ t.at \in {"join", "claim", "hold", "media", "answer", "confirm", "live"}
              => t.agent \in Agents
    BY TaskTyped DEF TaskConsistent
  <1>2. CASE Join(t)
    <2>1. CASE status[t.call] = "RINGING" /\ Goto(t, "claim")
      BY <1>2, <2>1, AdvanceCore DEF Join, Stages
    <2>2. CASE status[t.call] = "IN_PROGRESS" /\ agent[t.call] = t.agent /\ Goto(t, "media")
      <3> DEFINE u == [t EXCEPT !.at = "media"]
      <3>1. u.at = "media" /\ u.call = t.call /\ u.agent = t.agent /\ work' = (work \ {t}) \cup {u}
        BY <2>2, TaskTyped DEF Work, Goto
      <3>2. ~Passing(u) /\ u.at # "settle" /\ offered[t.call] = 0
        BY <1>1, <2>2, <3>1 DEF Passing, Core, RowsConsistent
      <3> HIDE DEF u
      <3>3. UNCHANGED <<status, agent, offered, busy>>
        BY <1>2 DEF Join
      <3> QED
        BY <2>2, <3>1, <3>2, <3>3 DEF Core, OfferHoldsAgent, PassingHoldsAgent, OnePassPerOffer,
              AnsweringOwnsCall, RowsConsistent, Ringing, Live, Final
    <2> QED
      BY <1>2, <2>1, <2>2 DEF Join
  <1>3. CASE JoinIgnored(t) \/ ClaimLost(t) \/ NothingToAnswer(t)
    <2>1. Finish(t) \/ Goto(t, "fail")
      BY <1>3 DEF JoinIgnored, ClaimLost, NothingToAnswer
    <2> QED
      BY <1>3, <2>1, AdvanceCore, FinishCore DEF JoinIgnored, ClaimLost, NothingToAnswer, Stages
  <1>4. CASE JoinOverCapacity(t) \/ NoLeg(t) \/ LiveTooLate(t)
    BY <1>4, AdvanceCore DEF JoinOverCapacity, NoLeg, LiveTooLate, Stages
  <1>5. CASE ClaimForJoin(t) \/ ConfirmClaim(t)
    BY <1>1, <1>5, TakeCore DEF ClaimForJoin, ConfirmClaim
  <1>6. CASE Hold(t)
    <2> DEFINE u == [t EXCEPT !.at = "media"]
    <2>1. /\ u.at = "media" /\ u.call = t.call /\ u.agent = t.agent
          /\ work' = (work \ {t}) \cup {u} /\ t.agent \in Agents /\ Answering(t)
      BY <1>1, <1>6, TaskTyped DEF Hold, Work, Goto, Answering
    <2>2. ~Passing(u) /\ u.at # "settle"
      BY <2>1 DEF Passing
    <2> HIDE DEF u
    <2>3. /\ UNCHANGED <<status, agent, offered>>
          /\ \A x \in Agents : busy'[x] = busy[x] \/ (x = t.agent /\ busy[x] = None /\ busy'[x] = t.call)
      BY <1>6 DEF Hold, Held, RowsTyped
    <2> USE DEF Core
    <2>4. OfferHoldsAgent'
      BY <1>1, <2>3 DEF OfferHoldsAgent, Ringing, Live, RowsTyped
    <2>5. PassingHoldsAgent'
      BY <1>1, <2>1, <2>2, <2>3, TaskTyped DEF PassingHoldsAgent, Passing, Live, RowsTyped
    <2>6. OnePassPerOffer'
      BY <2>1, <2>2, <2>3 DEF OnePassPerOffer, Live
    <2>7. AnsweringOwnsCall'
      BY <2>1, <2>3 DEF AnsweringOwnsCall, Live
    <2>8. RowsConsistent'
      BY <2>1, <2>2, <2>3 DEF RowsConsistent, Final
    <2> QED
      BY <2>4, <2>5, <2>6, <2>7, <2>8
  <1>7. CASE Media(t)
    BY <1>7, AdvanceCore DEF Media, Stages, Answering
  <1>8. CASE AnswerCustomer(t)
    BY <1>8, AdvanceCore DEF AnswerCustomer, Stages, Answering
  <1>9. CASE GoLive(t)
    <2>1. /\ status[t.call] = "RINGING" /\ status' = [status EXCEPT ![t.call] = "IN_PROGRESS"]
          /\ work' \subseteq work /\ UNCHANGED <<agent, offered, busy>>
      BY <1>9 DEF GoLive, Finish
    <2>2. agent[t.call] \in Agents /\ offered[t.call] = 0
      BY <1>1, <1>9, <2>1 DEF GoLive, Core, AnsweringOwnsCall, Answering, Live
    <2> QED
      BY <1>1, <2>1, <2>2 DEF Core, OfferHoldsAgent, PassingHoldsAgent, OnePassPerOffer,
            AnsweringOwnsCall, RowsConsistent, Ringing, Live, Final, RowsTyped
  <1>10. CASE Failed(t)
    <2>1. CASE Final(t.call) /\ t.agent \in Agents
      <3>1. ~Live(t.call) /\ busy' = Released(t.agent, t.call)
        BY <1>10, <2>1 DEF Failed, Final, Live
      <3> QED
        BY <1>1, <1>10, <2>1, <3>1, ReleaseCore DEF Failed, Finish
    <2>2. CASE Final(t.call) /\ t.agent \notin Agents
      <3>1. busy' = busy
        BY <1>10, <2>2 DEF Failed, Released, RowsTyped
      <3> QED
        BY <1>10, <3>1, FinishCore DEF Failed
    <2>3. CASE ~Final(t.call)
      BY <1>10, <2>3, FinishCore DEF Failed
    <2> QED
      BY <2>1, <2>2, <2>3
  <1> QED
    BY <1>2, <1>3, <1>4, <1>5, <1>6, <1>7, <1>8, <1>9, <1>10 DEF JoinStep

(* So do the steps of a passed offer: whoever withdraws it is the only one *)
(* to release its agent.                                                   *)
LEMMA CorePass ==
    ASSUME TasksTyped, RowsTyped, Core, NEW t \in work, PassStep(t)
    PROVE  Core'
  <1> USE DEF callVars, agentVars
  <1>1. /\ t \in Work /\ t.call \in Calls
        /\ t.at \in {"decline", "reject", "withdraw", "record", "release"} => t.agent \in Agents
        /\ t.at \in {"withdraw", "record", "release"} => t.queue \in Queues
        /\ status[t.call] # "NEW"
    BY TaskTyped DEF TaskConsistent, Core, RowsConsistent
  <1>2. CASE DeclineOffer(t)
    <2>1. \A u \in work' \ work : Idle(u) /\ u.call \in Calls /\ status[u.call] # "NEW"
      BY <1>1, <1>2 DEF DeclineOffer, Task, Idle, Passing, Answering
    <2> QED
      BY <1>2, <2>1, IdleCore DEF DeclineOffer
  <1>3. CASE DeclineCall(t)
    BY <1>3, AdvanceCore DEF DeclineCall, Stages
  <1>4. CASE DeclineIgnored(t)
    BY <1>4, FinishCore DEF DeclineIgnored
  <1>5. CASE RejectCall(t)
    <2>1. CASE CanTake(t.call, t.agent)
      BY <1>1, <1>5, <2>1, TakeCore DEF RejectCall
    <2>2. CASE ~CanTake(t.call, t.agent)
      BY <1>5, <2>2, FinishCore DEF RejectCall
    <2> QED
      BY <2>1, <2>2
  <1>6. CASE Withdraw(t)
    <2>1. CASE CanWithdraw(t)
      <3> DEFINE u == [t EXCEPT !.at = "record"]
      <3>1. /\ u \in Work /\ u.at = "record" /\ u.call = t.call /\ u.agent = t.agent
            /\ work' = (work \ {t}) \cup {u}
        BY <1>1, <1>6, <2>1 DEF Withdraw, Goto, Work, Stages
      <3> HIDE DEF u
      <3> QED
        BY <1>1, <1>6, <2>1, <3>1, DropCore DEF Withdraw, CanWithdraw
    <2>2. CASE ~CanWithdraw(t)
      BY <1>6, <2>2, FinishCore DEF Withdraw
    <2> QED
      BY <2>1, <2>2
  <1>7. CASE Record(t)
    BY <1>1, <1>7, AdvanceCore DEF Record, Stages, Passing
  <1>8. CASE Release(t)
    <2> DEFINE u == [t EXCEPT !.at = "miss"]
    <2>1. work' = work \ {t} \/ work' = (work \ {t}) \cup {u}
      BY <1>8 DEF Release, Goto, Finish
    <2>2. u.at = "miss" /\ u.call = t.call /\ u # t
      BY <1>1, <1>8 DEF Release, Work
    <2>3. Idle(u)
      BY <2>2 DEF Idle, Passing, Answering
    <2> HIDE DEF u
    <2>4. t \in work \ work' /\ Passing(t)
      BY <1>1, <1>8, <2>1, <2>2 DEF Release, Passing
    <2> QED
      BY <1>1, <1>8, <2>1, <2>2, <2>3, <2>4, ReleaseCore DEF Release
  <1>9. CASE Miss(t)
    BY <1>9, FinishCore DEF Miss
  <1> QED
    BY <1>2, <1>3, <1>4, <1>5, <1>6, <1>7, <1>8, <1>9 DEF PassStep

(* So do the steps of an overflow, which withdraws and releases in the     *)
(* same way.                                                               *)
LEMMA CoreWait ==
    ASSUME TasksTyped, RowsTyped, Core, NEW t \in work, WaitStep(t)
    PROVE  Core'
  <1> USE DEF callVars, agentVars
  <1>1. /\ t \in Work /\ t.call \in Calls /\ t.agent \in Agents \cup {None}
        /\ status[t.call] # "NEW"
    BY TaskTyped DEF Core, RowsConsistent
  <1>2. CASE MoveToOverflow(t)
    <2> DEFINE u == Task("moved", t.call, t.agent, Overflow[t.queue], 0)
    <2>1. /\ Overflow[t.queue] \in Queues
          /\ work' = (work \ {t}) \cup {u}
      BY <1>2, TaskTyped DEF MoveToOverflow, TaskConsistent
    <2>2. u \in Work /\ u.at = "moved" /\ u.call = t.call /\ u.agent = t.agent
      BY <1>1, <2>1, TaskType DEF Stages, Task
    <2> HIDE DEF u
    <2> QED
      BY <1>1, <1>2, <2>1, <2>2, DropCore DEF MoveToOverflow
  <1>3. CASE NotMoved(t)
    BY <1>3, FinishCore DEF NotMoved
  <1>4. CASE Moved(t)
    <2>1. CASE t.agent = None
      BY <1>4, <2>1, AdvanceCore DEF Moved, Stages
    <2>2. CASE t.agent \in Agents
      <3> DEFINE u == [t EXCEPT !.at = "enter"]
      <3>1. work' = (work \ {t}) \cup {u}
        BY <1>4 DEF Moved, Goto
      <3>2. u.at = "enter" /\ u.call = t.call /\ u # t
        BY <1>1, <1>4 DEF Moved, Work
      <3>3. Idle(u)
        BY <3>2 DEF Idle, Passing, Answering
      <3> HIDE DEF u
      <3>4. t \in work \ work' /\ Passing(t)
        BY <1>1, <1>4, <2>2, <3>1, <3>2 DEF Moved, Passing
      <3>5. busy' = Released(t.agent, t.call)
        BY <1>4, <2>2 DEF Moved
      <3> QED
        BY <1>1, <1>4, <2>2, <3>1, <3>2, <3>3, <3>4, <3>5, ReleaseCore DEF Moved
    <2> QED
      BY <1>1, <2>1, <2>2
  <1>5. CASE EnterQueue(t)
    BY <1>5, FinishCore DEF EnterQueue
  <1> QED
    BY <1>2, <1>3, <1>4, <1>5 DEF WaitStep

(* So do the steps that end a call: nothing is claimed about ended calls'  *)
(* offers, and settling releases only their agents.                        *)
LEMMA CoreEnd ==
    ASSUME TasksTyped, RowsTyped, Core, NEW t \in work, EndStep(t)
    PROVE  Core'
  <1> USE DEF callVars, agentVars
  <1>1. /\ t \in Work /\ t.call \in Calls /\ t.agent \in Agents \cup {None}
        /\ status[t.call] # "NEW"
    BY TaskTyped DEF Core, RowsConsistent
  <1>2. CASE CommitEnd(t)
    <2> DEFINE final == FinalStatus(t)
               stamp == IF t.at \in {"end", "endRinging"} THEN 0 ELSE offered[t.call]
               seen == IF t.at = "endFailed" THEN 1 ELSE t.seen
    <2>1. /\ work' = (work \ {t}) \cup {Task("settle", t.call, t.agent, None, seen)}
          /\ status' = [status EXCEPT ![t.call] = final]
          /\ offered' = [offered EXCEPT ![t.call] = stamp]
          /\ UNCHANGED <<agent, busy>>
          /\ final \in {"TERMINATED", "FAILED"} /\ stamp \in {0, offered[t.call]}
      BY <1>2 DEF CommitEnd, FinalStatus
    <2> HIDE DEF final, stamp, seen
    <2> DEFINE u == Task("settle", t.call, t.agent, None, seen)
    <2>2. u.at = "settle" /\ u.call = t.call /\ ~Passing(u) /\ ~Answering(u)
      BY DEF Task, Passing, Answering
    <2> HIDE DEF u
    <2> USE DEF Core
    <2>3. OfferHoldsAgent'
      BY <1>1, <2>1 DEF OfferHoldsAgent, Ringing, Live, RowsTyped
    <2>5. PassingHoldsAgent'
      BY <1>1, <2>1, <2>2, TaskTyped DEF u, PassingHoldsAgent, Live, RowsTyped
    <2>6. OnePassPerOffer'
      BY <1>1, <2>1, <2>2, TaskTyped DEF u, OnePassPerOffer, Live, RowsTyped
    <2>7. AnsweringOwnsCall'
      BY <1>1, <2>1, <2>2, TaskTyped DEF u, AnsweringOwnsCall, Live, RowsTyped
    <2>8. RowsConsistent'
      BY <1>1, <2>1, <2>2, TaskTyped DEF u, RowsConsistent, Final, RowsTyped
    <2> QED
      BY <2>3, <2>5, <2>6, <2>7, <2>8
  <1>3. CASE EndLost(t)
    <2>1. Finish(t) \/ Goto(t, "fail")
      BY <1>3 DEF EndLost
    <2> QED
      BY <1>3, <2>1, AdvanceCore, FinishCore DEF EndLost, Stages
  <1>4. CASE Settle(t)
    <2>1. Finish(t) \/ Goto(t, "fail") \/ Goto(t, "miss")
      BY <1>4 DEF Settle
    <2>2. CASE t.agent = None
      BY <1>4, <2>1, <2>2, AdvanceCore, FinishCore DEF Settle, Stages
    <2>3. CASE t.agent \in Agents
      <3>1. ~Live(t.call) /\ busy' = Released(t.agent, t.call)
        BY <1>4, <2>3 DEF Settle, Core, RowsConsistent, Final, Live
      <3>2. \A u \in work' \ work : u.at \in {"fail", "miss"} /\ u.call = t.call
        BY <1>1, <2>1 DEF Finish, Goto, Work
      <3>3. \A u \in work' \ work : Idle(u)
        BY <3>2 DEF Idle, Passing, Answering
      <3> QED
        BY <1>1, <1>4, <2>3, <3>1, <3>2, <3>3, ReleaseCore DEF Settle
    <2> QED
      BY <1>1, <2>2, <2>3
  <1> QED
    BY <1>2, <1>3, <1>4 DEF EndStep

(* So do the steps of a drain.                                             *)
LEMMA CoreDrain ==
    ASSUME TasksTyped, RowsTyped, Core, NEW d \in drains, DrainStep(d)
    PROVE  Core'
  <1> USE DEF callVars, agentVars
  <1>1. CASE DrainAssign(d)
    <2>1. d.call \in Calls /\ d.pool \subseteq Agents
      BY <1>1 DEF DrainAssign, RowsTyped, Drain
    <2>2. PICK a \in Agents : Claimable(a) /\ MakeOffer(d.call, a)
      BY <1>1, <2>1 DEF DrainAssign
    <2> QED
      BY <1>1, <2>1, <2>2, OfferCore DEF DrainAssign
  <1>2. CASE ~DrainAssign(d)
    <2>1. UNCHANGED <<status, agent, offered, busy, work>>
      BY <1>2 DEF DrainStep, DrainMembers, DrainRead, DrainNext, DrainListDone, DrainSkip, DrainNobody
    <2> QED
      BY <2>1, IdleCore
  <1> QED
    BY <1>1, <1>2

(* So does every step.                                                     *)
LEMMA CoreNext ==
    ASSUME TasksTyped, RowsTyped, Core, [Next]_vars
    PROVE  Core'
  <1> USE DEF callVars, agentVars
  <1>1. ASSUME NEW c \in Calls, Message(c) \/ Scan(c)
        PROVE  Core'
    BY <1>1, CoreMessage, CoreScan
  <1>2. ASSUME NEW t \in work, WorkStep(t)
        PROVE  Core'
    BY <1>2, CoreNew, CoreJoin, CorePass, CoreWait, CoreEnd DEF WorkStep
  <1>3. ASSUME NEW d \in drains, DrainStep(d)
        PROVE  Core'
    BY <1>3, CoreDrain
  <1>4. ASSUME NEW a \in Agents, Sweep(a)
        PROVE  Core'
    <2> DEFINE c == busy[a]
    <2>1. c \in Calls /\ ~Live(c)
      BY <1>4 DEF Sweep, RowsTyped
    <2>2. busy' = Released(a, c)
      BY <1>4 DEF Sweep, Released, RowsTyped
    <2> QED
      BY <1>4, <2>1, <2>2, ReleaseCore DEF Sweep
  <1>5. ASSUME UNCHANGED <<status, agent, offered, busy>>, work' \subseteq work
        PROVE  Core'
    BY <1>5, IdleCore
  <1>6. ASSUME NEW x \in due, StartDrain(x)
        PROVE  Core'
    BY <1>5, <1>6 DEF StartDrain
  <1>7. ASSUME NEW a \in Agents, SetAvailability(a)
        PROVE  Core'
    BY <1>5, <1>7 DEF SetAvailability
  <1>8. CASE Crash
    BY <1>5, <1>8 DEF Crash, Finish
  <1>9. CASE UNCHANGED vars
    BY <1>5, <1>9 DEF vars
  <1> QED
    BY <1>1, <1>2, <1>3, <1>4, <1>6, <1>7, <1>8, <1>9 DEF Next

-----------------------------------------------------------------------------
(* The invariants.                                                         *)

(* The inductive invariant in the three parts that the proof treats        *)
(* separately.                                                             *)
LEMMA IInvParts == IInv <=> TasksTyped /\ RowsTyped /\ Core
  BY TypedParts DEF IInv, Core

(* The inductive invariant holds initially ...                             *)
LEMMA IInvInit == Init => IInv
  BY TypedInit, CoreInit, IInvParts

(* ... and every step preserves it.                                        *)
LEMMA IInvNext == IInv /\ [Next]_vars => IInv'
  <1>1. TasksTyped' /\ RowsTyped' /\ Core' => IInv'
    BY DEF IInv, Core, TypeOK, HandlersConsistent, TasksTyped, RowsTyped
  <1> QED
    BY <1>1, TypedNext, CoreNext, IInvParts

(* The invariant that the other theorems rest on holds in every state.     *)
THEOREM InductiveInvariant == Spec => []IInv
  BY IInvInit, IInvNext, PTL DEF Spec

(* A ringing call holds its agent: no late release of a passed, overflowed *)
(* or ended call frees an agent who is being rung (releaseFromCall).       *)
THEOREM OffersHoldAgents == Spec => []OfferHoldsAgent
  <1>1. IInv => OfferHoldsAgent
    BY DEF IInv
  <1> QED
    BY <1>1, InductiveInvariant, PTL

(* No agent is ever rung for two calls (claimAgentAndAssignCall).          *)
THEOREM OneOfferAtATime == Spec => []OneOfferPerAgent
  <1>1. OfferHoldsAgent => OneOfferPerAgent
    BY DEF OfferHoldsAgent, OneOfferPerAgent
  <1> QED
    BY <1>1, OffersHoldAgents, PTL

-----------------------------------------------------------------------------
(* What a step may change, for the action properties and the refinement.   *)

(* The statements that write a call's status, agent or offer.              *)
LEMMA RowSteps ==
    ASSUME TasksTyped, RowsTyped, Core, [Next]_vars
    PROVE  \/ UNCHANGED <<status, agent, offered>>
           \/ \E c \in Calls : Arrive(c)
           \/ \E c \in Calls, a \in Agents : /\ Unassigned(c) /\ Claimable(a) /\ MakeOffer(c, a)
                                             /\ UNCHANGED status
           \/ \E c \in Calls, a \in Agents : CanTake(c, a) /\ TakeCall(c, a) /\ UNCHANGED status
           \/ \E c \in Calls : /\ status[c] = "RINGING" /\ (agent[c] = None \/ offered[c] # 0)
                               /\ DropOffer(c) /\ UNCHANGED status
           \/ \E t \in work : GoLive(t)
           \/ \E t \in work : CommitEnd(t)
  <1> USE DEF callVars, agentVars
  <1>1. ASSUME NEW c \in Calls, Message(c) \/ Scan(c)
        PROVE  Arrive(c) \/ UNCHANGED <<status, agent, offered>>
    BY <1>1 DEF Message, HangUp, MediaLost, ProviderEnd, RingingAgentReconnect, PostJoin, PostDecline,
                Scan, RingOut, ExpireScan, WaitScan, NoAnswerScan
  <1>2. ASSUME NEW t \in work, NewStep(t)
        PROVE  \/ UNCHANGED <<status, agent, offered>>
               \/ \E a \in Agents : /\ Unassigned(t.call) /\ Claimable(a) /\ MakeOffer(t.call, a)
                                    /\ UNCHANGED status
    BY <1>2, TaskTyped DEF NewStep, NewRingAll, NewInOrder, NewAssigned, NewWaits, TaskConsistent
  <1>3. ASSUME NEW t \in work, JoinStep(t)
        PROVE  \/ UNCHANGED <<status, agent, offered>>
               \/ \E a \in Agents : CanTake(t.call, a) /\ TakeCall(t.call, a) /\ UNCHANGED status
               \/ GoLive(t)
    BY <1>3, TaskTyped DEF JoinStep, Join, JoinIgnored, JoinOverCapacity, ClaimForJoin, Hold, Media,
          NoLeg, AnswerCustomer, NothingToAnswer, ConfirmClaim, ClaimLost, LiveTooLate, Failed,
          TaskConsistent
  <1>4. ASSUME NEW t \in work, PassStep(t)
        PROVE  \/ UNCHANGED <<status, agent, offered>>
               \/ \E a \in Agents : CanTake(t.call, a) /\ TakeCall(t.call, a) /\ UNCHANGED status
               \/ /\ status[t.call] = "RINGING" /\ (agent[t.call] = None \/ offered[t.call] # 0)
                  /\ DropOffer(t.call) /\ UNCHANGED status
    BY <1>4, TaskTyped DEF PassStep, DeclineOffer, DeclineCall, DeclineIgnored, RejectCall, Withdraw,
          CanWithdraw, Record, Release, Miss, TaskConsistent
  <1>5. ASSUME NEW t \in work, WaitStep(t)
        PROVE  \/ UNCHANGED <<status, agent, offered>>
               \/ /\ status[t.call] = "RINGING" /\ (agent[t.call] = None \/ offered[t.call] # 0)
                  /\ DropOffer(t.call) /\ UNCHANGED status
    BY <1>5 DEF WaitStep, MoveToOverflow, NotMoved, Moved, EnterQueue
  <1>6. ASSUME NEW t \in work, EndStep(t)
        PROVE  CommitEnd(t) \/ UNCHANGED <<status, agent, offered>>
    BY <1>6 DEF EndStep, EndLost, Settle
  <1>7. ASSUME NEW d \in drains, DrainStep(d)
        PROVE  \/ UNCHANGED <<status, agent, offered>>
               \/ /\ d.call \in Calls /\ UNCHANGED status
                  /\ \E a \in Agents : Unassigned(d.call) /\ Claimable(a) /\ MakeOffer(d.call, a)
    <2>1. d.at = "claim" => d.call \in Calls /\ d.pool \subseteq Agents
      BY DEF RowsTyped, Drain
    <2> QED
      BY <1>7, <2>1 DEF DrainStep, DrainMembers, DrainRead, DrainNext, DrainListDone, DrainAssign,
            DrainSkip, DrainNobody
  <1>8. ASSUME \/ \E x \in due : StartDrain(x)
               \/ \E a \in Agents : SetAvailability(a) \/ Sweep(a)
               \/ Crash
               \/ UNCHANGED vars
        PROVE  UNCHANGED <<status, agent, offered>>
    BY <1>8 DEF StartDrain, SetAvailability, Sweep, Crash, vars
  <1>9. \A t \in work : t.call \in Calls
    BY TaskTyped
  <1> QED
    BY <1>1, <1>2, <1>3, <1>4, <1>5, <1>6, <1>7, <1>8, <1>9 DEF Next, WorkStep

(* From the accept claim on nobody else gets the call                      *)
(* (assignCallToAgentIfEligible, withdrawOffer, overflowToQueue).          *)
THEOREM AnsweringKeepsCall == Spec => AnsweringCallIsKept
  <1> DEFINE Kept == \A c \in Calls :
        status[c] = "RINGING" /\ agent[c] # None /\ offered[c] = 0 => agent'[c] = agent[c]
  <1>1. TasksTyped /\ RowsTyped /\ Core /\ [Next]_vars => Kept
    <2> SUFFICES ASSUME TasksTyped, RowsTyped, Core, [Next]_vars
                 PROVE  Kept
      OBVIOUS
    <2>1. ASSUME NEW t \in work, GoLive(t) \/ CommitEnd(t)
          PROVE  Kept
      BY <2>1 DEF GoLive, CommitEnd
    <2> QED
      BY <2>1, RowSteps DEF Arrive, Unassigned, MakeOffer, CanTake, TakeCall, DropOffer, RowsTyped
  <1>2. IInv => TasksTyped /\ RowsTyped /\ Core
    BY IInvParts
  <1>3. IInv /\ [Next]_vars => [Kept]_vars
    BY <1>1, <1>2
  <1> QED
    BY <1>3, InductiveInvariant, PTL DEF Spec, AnsweringCallIsKept

(* An ended call is never revived, and a failure never overwritten         *)
(* (transitionStatus, terminateCallIfNotTerminated, finalizeCallAsFailed). *)
THEOREM FinalCallsStayFinal == Spec => FinalIsFinal
  <1> DEFINE Stays == \A c \in Calls : /\ Final(c) => Final(c)'
                                       /\ status[c] = "FAILED" => status'[c] = "FAILED"
  <1>1. TasksTyped /\ RowsTyped /\ Core /\ [Next]_vars => Stays
    <2> SUFFICES ASSUME TasksTyped, RowsTyped, Core, [Next]_vars
                 PROVE  Stays
      OBVIOUS
    <2>1. ASSUME NEW t \in work, GoLive(t)
          PROVE  Stays
      BY <2>1, TaskTyped DEF GoLive, Final, RowsTyped
    <2>2. ASSUME NEW t \in work, CommitEnd(t)
          PROVE  Stays
      BY <2>2, TaskTyped DEF CommitEnd, FinalStatus, CanEnd, Live, Final, RowsTyped
    <2> QED
      BY <2>1, <2>2, RowSteps DEF Arrive, Final, RowsTyped
  <1>2. IInv => TasksTyped /\ RowsTyped /\ Core
    BY IInvParts
  <1>3. IInv /\ [Next]_vars => [Stays]_vars
    BY <1>1, <1>2
  <1> QED
    BY <1>3, InductiveInvariant, PTL DEF Spec, FinalIsFinal

(* Only the update that ends a call starts a handler that settles it.      *)
LEMMA SettleSteps ==
    ASSUME TasksTyped, RowsTyped, Core, [Next]_vars, NEW u \in work' \ work, u.at = "settle"
    PROVE  \E t \in work : CommitEnd(t) /\ u.call = t.call
  <1>1. ASSUME NEW t \in work, NEW at \in Stages \ {"settle"}, Goto(t, at)
        PROVE  FALSE
    BY <1>1, TaskTyped DEF Goto, Work
  <1>2. ASSUME NEW t \in work, Finish(t)
        PROVE  FALSE
    BY <1>2 DEF Finish
  <1>3. ASSUME NEW c \in Calls, Message(c) \/ Scan(c)
        PROVE  FALSE
    BY <1>3 DEF Message, Arrive, HangUp, MediaLost, ProviderEnd, RingingAgentReconnect, PostJoin, PostDecline,
                Scan, RingOut, ExpireScan, WaitScan, NoAnswerScan, Task
  <1>4. ASSUME NEW t \in work, NewStep(t) \/ JoinStep(t)
        PROVE  FALSE
    BY <1>1, <1>2, <1>4 DEF NewStep, NewRingAll, NewInOrder, NewAssigned, NewWaits,
          JoinStep, Join, JoinIgnored, JoinOverCapacity, ClaimForJoin, Hold, Media,
          NoLeg, AnswerCustomer, NothingToAnswer, ConfirmClaim, ClaimLost, GoLive, LiveTooLate,
          Failed, Stages
  <1>5. ASSUME NEW t \in work, PassStep(t) \/ WaitStep(t)
        PROVE  FALSE
    BY <1>1, <1>2, <1>5 DEF PassStep, DeclineOffer, DeclineCall, DeclineIgnored, RejectCall,
          Withdraw, Record, Release, Miss, WaitStep, MoveToOverflow, NotMoved, Moved, EnterQueue,
          Stages, Task
  <1>6. ASSUME NEW t \in work, EndLost(t) \/ Settle(t)
        PROVE  FALSE
    <2>1. Finish(t) \/ Goto(t, "fail") \/ Goto(t, "miss")
      BY <1>6 DEF EndLost, Settle
    <2> QED
      BY <1>1, <1>2, <2>1 DEF Stages
  <1>7. ASSUME NEW t \in work, CommitEnd(t)
        PROVE  u.call = t.call
    BY <1>7 DEF CommitEnd, Task
  <1>8. ASSUME \/ \E x \in due : StartDrain(x)
               \/ \E d \in drains : DrainStep(d)
               \/ \E a \in Agents : SetAvailability(a) \/ Sweep(a)
               \/ Crash
               \/ UNCHANGED vars
        PROVE  FALSE
    BY <1>2, <1>8 DEF StartDrain, DrainStep, DrainMembers, DrainRead, DrainNext, DrainListDone,
          DrainAssign, DrainSkip, DrainNobody, SetAvailability, Sweep, Crash, vars
  <1> QED
    BY <1>3, <1>4, <1>5, <1>6, <1>7, <1>8 DEF Next, WorkStep, EndStep

(* A handler settles a call only if its update ended it (CallTerminator).  *)
THEOREM EndersSettle == Spec => SettledByItsEnder
  <1> DEFINE Ended == \A t \in work' \ work :
        t.at = "settle" => Final(t.call)' /\ status'[t.call] # status[t.call]
  <1>1. TasksTyped /\ RowsTyped /\ Core /\ [Next]_vars => Ended
    <2> SUFFICES ASSUME TasksTyped, RowsTyped, Core, [Next]_vars,
                        NEW u \in work' \ work, u.at = "settle"
                 PROVE  Final(u.call)' /\ status'[u.call] # status[u.call]
      OBVIOUS
    <2>1. PICK t \in work : CommitEnd(t) /\ u.call = t.call
      BY SettleSteps
    <2>2. t.call \in Calls
      BY TaskTyped
    <2> QED
      BY <2>1, <2>2 DEF CommitEnd, FinalStatus, CanEnd, Live, Final, RowsTyped
  <1>2. IInv => TasksTyped /\ RowsTyped /\ Core
    BY IInvParts
  <1>3. IInv /\ [Next]_vars => [Ended]_vars
    BY <1>1, <1>2
  <1> QED
    BY <1>3, InductiveInvariant, PTL DEF Spec, SettledByItsEnder

-----------------------------------------------------------------------------
(* Ring timeouts: what a scan read of an offer.                            *)

Scans == OneScanPerCall /\ ScannedOffersRang

(* What a step may do to the offer that a scan has read.                   *)
OfferRests(c) ==
    \/ /\ offered'[c] = offered[c] /\ (rung[c] => rung'[c])
       /\ status'[c] = "RINGING" => status[c] = "RINGING" \/ offered[c] = 0
    \/ status'[c] # "RINGING"
    \/ offered'[c] = 0
    \/ offered'[c] = FreshStamp(c)

(* An offer that rang goes on to have rung until it is withdrawn, taken,   *)
(* ended or made anew with a later stamp.                                  *)
LEMMA RungSteps ==
    ASSUME TasksTyped, RowsTyped, Core, [Next]_vars, NEW c \in Calls
    PROVE  OfferRests(c)
  <1> USE DEF callVars, agentVars, OfferRests, RowsTyped
  <1>1. ASSUME NEW x \in Calls, Message(x) \/ Scan(x)
        PROVE  OfferRests(c)
    <2>1. CASE Arrive(x)
      BY <2>1 DEF Arrive, Core, RowsConsistent
    <2>2. CASE RingOut(x)
      BY <2>2 DEF RingOut
    <2> QED
      BY <1>1, <2>1, <2>2 DEF Message, HangUp, MediaLost, ProviderEnd, RingingAgentReconnect,
         PostJoin, PostDecline, Scan, ExpireScan, WaitScan, NoAnswerScan
  <1>2. ASSUME NEW t \in work, NewStep(t)
        PROVE  OfferRests(c)
    BY <1>2, TaskTyped DEF NewStep, NewRingAll, NewInOrder, NewAssigned, NewWaits, MakeOffer
  <1>3. ASSUME NEW t \in work, JoinStep(t)
        PROVE  OfferRests(c)
    BY <1>3, TaskTyped DEF JoinStep, Join, JoinIgnored, JoinOverCapacity, ClaimForJoin, Hold, Media,
          NoLeg, AnswerCustomer, NothingToAnswer, ConfirmClaim, ClaimLost, GoLive, LiveTooLate,
          Failed, TakeCall
  <1>4. ASSUME NEW t \in work, PassStep(t)
        PROVE  OfferRests(c)
    BY <1>4, TaskTyped DEF PassStep, DeclineOffer, DeclineCall, DeclineIgnored, RejectCall, Withdraw,
          Record, Release, Miss, TakeCall, DropOffer
  <1>5. ASSUME NEW t \in work, WaitStep(t)
        PROVE  OfferRests(c)
    BY <1>5, TaskTyped DEF WaitStep, MoveToOverflow, NotMoved, Moved, EnterQueue, DropOffer
  <1>6. ASSUME NEW t \in work, EndStep(t)
        PROVE  OfferRests(c)
    BY <1>6, TaskTyped DEF EndStep, CommitEnd, FinalStatus, EndLost, Settle
  <1>7. ASSUME NEW d \in drains, DrainStep(d)
        PROVE  OfferRests(c)
    BY <1>7 DEF DrainStep, DrainMembers, DrainRead, DrainNext, DrainListDone, DrainAssign,
       DrainSkip, DrainNobody, MakeOffer
  <1>8. ASSUME \/ \E x \in due : StartDrain(x)
               \/ \E a \in Agents : SetAvailability(a) \/ Sweep(a)
               \/ Crash
               \/ UNCHANGED vars
        PROVE  OfferRests(c)
    BY <1>8 DEF StartDrain, SetAvailability, Sweep, Crash, vars
  <1> QED
    BY <1>1, <1>2, <1>3, <1>4, <1>5, <1>6, <1>7, <1>8 DEF Next, WorkStep

Expired(c) == Task("withdraw", c, agent[c], queue[c], offered[c])

(* A timed out offer is on its way because a scan found it, and recorded   *)
(* because it was withdrawn.                                               *)
LEMMA TimeOutSteps ==
    ASSUME TasksTyped, RowsTyped, Core, [Next]_vars, NEW u \in work' \ work,
           u.at \in {"withdraw", "record"}, u.seen # 0
    PROVE  \/ \E c \in Calls : ExpireScan(c) /\ u = Expired(c)
           \/ \E t \in work : /\ t.at = "withdraw" /\ CanWithdraw(t)
                              /\ u = [t EXCEPT !.at = "record"]
  <1>1. ASSUME NEW t \in work, NEW at \in Stages \ {"withdraw", "record"}, Goto(t, at)
        PROVE  FALSE
    BY <1>1, TaskTyped DEF Goto, Work
  <1>2. ASSUME NEW t \in work, Finish(t)
        PROVE  FALSE
    BY <1>2 DEF Finish
  <1>3. ASSUME NEW c \in Calls, Message(c) \/ Scan(c)
        PROVE  ExpireScan(c) /\ u = Expired(c)
    BY <1>3 DEF Message, Arrive, HangUp, MediaLost, ProviderEnd, RingingAgentReconnect, PostJoin, PostDecline,
                Scan, RingOut, ExpireScan, WaitScan, NoAnswerScan, Task, Expired
  <1>4. ASSUME NEW t \in work, NewStep(t) \/ JoinStep(t)
        PROVE  FALSE
    BY <1>1, <1>2, <1>4 DEF NewStep, NewRingAll, NewInOrder, NewAssigned, NewWaits,
          JoinStep, Join, JoinIgnored, JoinOverCapacity, ClaimForJoin, Hold, Media,
          NoLeg, AnswerCustomer, NothingToAnswer, ConfirmClaim, ClaimLost, GoLive, LiveTooLate,
          Failed, Stages
  <1>5. ASSUME NEW t \in work, PassStep(t) \/ WaitStep(t), ~Withdraw(t)
        PROVE  FALSE
    BY <1>1, <1>2, <1>5 DEF PassStep, DeclineOffer, DeclineCall, DeclineIgnored, RejectCall,
          Record, Release, Miss, WaitStep, MoveToOverflow, NotMoved, Moved, EnterQueue,
          Stages, Task
  <1>6. ASSUME NEW t \in work, Withdraw(t)
        PROVE  t.at = "withdraw" /\ CanWithdraw(t) /\ u = [t EXCEPT !.at = "record"]
    BY <1>2, <1>6 DEF Withdraw, Goto
  <1>7. ASSUME NEW t \in work, EndStep(t)
        PROVE  FALSE
    BY <1>1, <1>2, <1>7 DEF EndStep, CommitEnd, EndLost, Settle, Stages, Task
  <1>8. ASSUME \/ \E x \in due : StartDrain(x)
               \/ \E d \in drains : DrainStep(d)
               \/ \E a \in Agents : SetAvailability(a) \/ Sweep(a)
               \/ Crash
               \/ UNCHANGED vars
        PROVE  FALSE
    BY <1>2, <1>8 DEF StartDrain, DrainStep, DrainMembers, DrainRead, DrainNext, DrainListDone,
          DrainAssign, DrainSkip, DrainNobody, SetAvailability, Sweep, Crash, vars
  <1> QED
    BY <1>3, <1>4, <1>5, <1>6, <1>7, <1>8 DEF Next, WorkStep

(* A later offer differs from the one that a scan is passing on.           *)
LEMMA FreshStamps ==
    ASSUME TasksTyped, OneScanPerCall, NEW t \in work, Scanned(t)
    PROVE  FreshStamp(t.call) # t.seen
  <1>1. t.seen \in {1, 2}
    BY TaskTyped DEF Work, Stamps, Scanned
  <1>2. CASE t.seen = 1
    BY <1>2 DEF FreshStamp, Scanned
  <1>3. CASE t.seen = 2
    BY <1>3 DEF FreshStamp, Scanned, OneScanPerCall
  <1> QED
    BY <1>1, <1>2, <1>3

(* Every step keeps what the scans know.                                   *)
LEMMA ScansNext ==
    ASSUME TasksTyped, RowsTyped, Core, Scans, [Next]_vars
    PROVE  Scans'
  <1>1. ASSUME NEW u \in work' \ work, Scanned(u)
        PROVE  \E c \in Calls : ExpireScan(c) /\ u = Expired(c)
    BY <1>1, TimeOutSteps, TaskTyped DEF Scanned, Work
  <1>2. ASSUME NEW t \in work', NEW u \in work', Scanned(t), Scanned(u), t.call = u.call, u \notin work
        PROVE  t = u
    <2>1. PICK c \in Calls : ExpireScan(c) /\ u = Expired(c)
      BY <1>1, <1>2
    <2>2. CASE t \in work
      <3>1. t.queue \in Queues /\ t.call = c /\ t.seen # 0
        BY <1>2, <2>1, <2>2, TaskTyped DEF TaskConsistent, Scanned, Expired, Task
      <3> QED
        BY <2>1, <2>2, <3>1, NoneAssumption DEF ExpireScan
    <2>3. CASE t \notin work
      BY <1>2, <2>1, <2>3 DEF ExpireScan, Expired
    <2> QED
      BY <2>2, <2>3
  <1>3. OneScanPerCall'
    BY <1>2 DEF OneScanPerCall, Scans, Scanned
  <1>4. ASSUME NEW t \in work', Scanned(t), status'[t.call] = "RINGING", offered'[t.call] = t.seen
        PROVE  rung'[t.call]
    <2>1. CASE t \in work
      <3>1. t.call \in Calls /\ OfferRests(t.call) /\ FreshStamp(t.call) # t.seen
        BY <2>1, <1>4, TaskTyped, RungSteps, FreshStamps DEF Scans
      <3> QED
        BY <1>4, <2>1, <3>1 DEF OfferRests, Scans, ScannedOffersRang, Scanned
    <2>2. CASE t \notin work
      <3>1. PICK c \in Calls : ExpireScan(c) /\ t = Expired(c)
        BY <1>1, <1>4, <2>2
      <3> QED
        BY <3>1 DEF ExpireScan, Expired, Task, callVars
    <2> QED
      BY <2>1, <2>2
  <1> QED
    BY <1>3, <1>4 DEF Scans, ScannedOffersRang, Scanned

(* An offer is recorded as missed only if it rang its whole timeout: not   *)
(* one that was declined and made again since the scan read it             *)
(* (withdrawOffer's expiredBefore).                                        *)
THEOREM TimedOutOffersRang == Spec => OnlyRungOffersTimeOut
  <1> DEFINE Rang == \A t \in work' \ work : t.at = "record" /\ t.seen # 0 => rung[t.call]
  <1>1. Init => Scans
    BY DEF Init, Scans, OneScanPerCall, ScannedOffersRang
  <1>2. IInv => TasksTyped /\ RowsTyped /\ Core
    BY IInvParts
  <1>3. IInv /\ Scans /\ [Next]_vars => Scans'
    BY <1>2, ScansNext
  <1>4. TasksTyped /\ RowsTyped /\ Core /\ Scans /\ [Next]_vars => Rang
    <2> SUFFICES ASSUME TasksTyped, RowsTyped, Core, Scans, [Next]_vars,
                        NEW u \in work' \ work, u.at = "record", u.seen # 0
                 PROVE  rung[u.call]
      OBVIOUS
    <2>1. PICK t \in work : t.at = "withdraw" /\ CanWithdraw(t) /\ u = [t EXCEPT !.at = "record"]
      BY TimeOutSteps DEF Expired, Task
    <2>2. u.call = t.call /\ u.seen = t.seen
      BY <2>1, TaskTyped DEF Work
    <2> QED
      BY <2>1, <2>2 DEF CanWithdraw, Scans, ScannedOffersRang, Scanned
  <1>5. IInv /\ Scans /\ [Next]_vars => [Rang]_vars
    BY <1>2, <1>4
  <1> QED
    BY <1>1, <1>3, <1>5, InductiveInvariant, PTL DEF Spec, OnlyRungOffersTimeOut

-----------------------------------------------------------------------------
(* Routing implements CallOffers.                                          *)

(* The phase that the refinement mapping gives a call ...                  *)
LEMMA PhaseOf ==
    ASSUME RowsTyped
    PROVE  /\ phase = [c \in Calls |-> phase[c]]
           /\ \A c \in Calls : phase[c] = IF status[c] = "NEW" THEN "new"
                                  ELSE IF status[c] = "IN_PROGRESS" THEN "connected"
                                  ELSE IF status[c] \in {"TERMINATED", "FAILED"} THEN "ended"
                                  ELSE IF offered[c] # 0 THEN "offered"
                                  ELSE IF agent[c] = None THEN "waiting" ELSE "answering"
  BY DEF phase, RowsTyped, Statuses

(* ... and the one it gives it after a step.                               *)
LEMMA NextPhaseOf ==
    ASSUME RowsTyped'
    PROVE  /\ phase' = [c \in Calls |-> phase'[c]]
           /\ \A c \in Calls : phase'[c] = IF status'[c] = "NEW" THEN "new"
                                  ELSE IF status'[c] = "IN_PROGRESS" THEN "connected"
                                  ELSE IF status'[c] \in {"TERMINATED", "FAILED"} THEN "ended"
                                  ELSE IF offered'[c] # 0 THEN "offered"
                                  ELSE IF agent'[c] = None THEN "waiting" ELSE "answering"
  BY DEF phase, RowsTyped, Statuses

(* The initial states map to those of CallOffers.                          *)
LEMMA OffersInit == Init => Offers!Init
  BY DEF Init, Offers!Init, phase

(* A step that changes one call's row only is a move of CallOffers.        *)
OnlyRowOf(c) == \A d \in Calls \ {c} :
    status'[d] = status[d] /\ offered'[d] = offered[d] /\ agent'[d] = agent[d]

(* A step that changes the status or the offer of a single call moves only *)
(* that call's phase.                                                      *)
LEMMA OffersMoves ==
    ASSUME RowsTyped, RowsTyped', NEW c \in Calls, NEW to, OnlyRowOf(c), phase'[c] = to
    PROVE  phase' = [phase EXCEPT ![c] = to]
  <1>1. \A d \in Calls \ {c} : phase'[d] = phase[d]
    BY PhaseOf, NextPhaseOf DEF OnlyRowOf
  <1> QED
    BY <1>1, PhaseOf, NextPhaseOf

(* Every step of the code is a step of CallOffers or leaves phase and      *)
(* agent alone.                                                            *)
LEMMA OffersNext ==
    ASSUME TasksTyped, RowsTyped, RowsTyped', Core, [Next]_vars
    PROVE  [Offers!Next]_(Offers!vars)
  <1> USE DEF Core
  <1>1. CASE UNCHANGED <<status, agent, offered>>
    BY <1>1 DEF Offers!vars, phase
  <1>2. ASSUME NEW c \in Calls, Arrive(c)
        PROVE  Offers!Next
    <2>1. phase[c] = "new" /\ phase'[c] = "waiting" /\ UNCHANGED agent
      BY <1>2, PhaseOf, NextPhaseOf DEF Arrive, RowsConsistent, RowsTyped
    <2>2. Offers!Moves(c, {"new"}, "waiting")
      <3>1. OnlyRowOf(c)
        BY <1>2, <2>1 DEF OnlyRowOf, Arrive, RowsTyped
      <3> QED
        BY <1>2, <2>1, <3>1, OffersMoves DEF Offers!Moves
    <2> QED
      BY <2>1, <2>2 DEF Offers!Next, Offers!Arrive
  <1>3. ASSUME NEW c \in Calls, NEW a \in Agents,
               Unassigned(c), Claimable(a), MakeOffer(c, a), UNCHANGED status
        PROVE  Offers!Next
    <2>1. FreshStamp(c) \in {1, 2}
      BY DEF FreshStamp
    <2>2. phase[c] = "waiting" /\ phase'[c] = "offered"
      <3>1. status[c] = "RINGING" /\ agent[c] = None /\ offered[c] = 0
        BY <1>3 DEF Unassigned, OfferHoldsAgent, Ringing, Live
      <3>2. status'[c] = "RINGING" /\ offered'[c] # 0
        BY <1>3, <2>1, <3>1 DEF MakeOffer, RowsTyped
      <3> QED
        BY <3>1, <3>2, PhaseOf, NextPhaseOf
    <2>3. Offers!Moves(c, {"waiting"}, "offered")
      <3>1. OnlyRowOf(c)
        BY <1>3, <2>2 DEF OnlyRowOf, MakeOffer, RowsTyped
      <3> QED
        BY <1>3, <2>2, <3>1, OffersMoves DEF Offers!Moves
    <2>4. \A o \in Calls : phase[o] = "offered" => agent[o] # a
      <3>1. ASSUME NEW o \in Calls, phase[o] = "offered"
            PROVE  status[o] = "RINGING" /\ offered[o] # 0
        <4>1. status[o] \in Statuses
          BY DEF RowsTyped
        <4> QED
          BY <3>1, <4>1, PhaseOf DEF Statuses
      <3>2. \A o \in Calls : busy[a] # o
        BY <1>3, NoneAssumption DEF Claimable, Available
      <3> QED
        BY <3>1, <3>2 DEF OfferHoldsAgent, Ringing, Live
    <2> QED
      BY <1>3, <2>3, <2>4 DEF Offers!Next, Offers!Offer, MakeOffer
  <1>4. ASSUME NEW c \in Calls, NEW a \in Agents, CanTake(c, a), TakeCall(c, a), UNCHANGED status
        PROVE  [Offers!Next]_(Offers!vars)
    <2>1. CASE status[c] = "IN_PROGRESS" \/ (agent[c] = a /\ offered[c] = 0)
      <3>1. agent[c] = a /\ offered[c] = 0
        BY <1>4, <2>1 DEF CanTake, RowsConsistent
      <3>2. UNCHANGED <<status, agent, offered>>
        BY <1>4, <3>1 DEF TakeCall, RowsTyped
      <3> QED
        BY <1>1, <3>2
    <2>2. CASE ~(status[c] = "IN_PROGRESS" \/ (agent[c] = a /\ offered[c] = 0))
      <3>1. /\ phase[c] \in {"waiting", "offered"} /\ phase'[c] = "answering"
            /\ phase[c] = "offered" => agent[c] = a
        <4>1. /\ status[c] = "RINGING"
              /\ offered[c] # 0 => agent[c] = a
              /\ offered[c] = 0 => agent[c] = None
          BY <1>4, <2>2 DEF CanTake, OfferHoldsAgent, Ringing, Live
        <4>2. status'[c] = "RINGING" /\ offered'[c] = 0 /\ agent'[c] # None
          BY <1>4, <4>1, NoneAssumption DEF TakeCall, RowsTyped
        <4>3. phase'[c] = "answering"
          BY <4>2, NextPhaseOf
        <4> QED
          BY <4>1, <4>3, PhaseOf
      <3>2. Offers!Moves(c, {"waiting", "offered"}, "answering")
        <4>1. OnlyRowOf(c)
          BY <1>4, <3>1 DEF OnlyRowOf, TakeCall, RowsTyped
        <4> QED
          BY <1>4, <3>1, <4>1, OffersMoves DEF Offers!Moves
      <3> QED
        BY <1>4, <3>1, <3>2 DEF Offers!Next, Offers!Take, TakeCall
    <2> QED
      BY <2>1, <2>2
  <1>5. ASSUME NEW c \in Calls, status[c] = "RINGING", agent[c] = None \/ offered[c] # 0,
               DropOffer(c), UNCHANGED status
        PROVE  [Offers!Next]_(Offers!vars)
    <2>1. CASE agent[c] = None
      <3>1. offered[c] = 0
        BY <1>5, <2>1 DEF OfferHoldsAgent, Ringing, Live
      <3>2. UNCHANGED <<status, agent, offered>>
        BY <1>5, <2>1, <3>1 DEF DropOffer, RowsTyped
      <3> QED
        BY <1>1, <3>2
    <2>2. CASE agent[c] # None
      <3>1. phase[c] = "offered" /\ phase'[c] = "waiting"
        <4>1. status'[c] = "RINGING" /\ offered'[c] = 0 /\ agent'[c] = None
          BY <1>5 DEF DropOffer, RowsTyped
        <4>2. phase[c] = "offered"
          BY <1>5, <2>2, PhaseOf
        <4> QED
          BY <4>1, <4>2, NextPhaseOf
      <3>2. Offers!Moves(c, {"offered"}, "waiting")
        <4>1. OnlyRowOf(c)
          BY <1>5, <3>1 DEF OnlyRowOf, DropOffer, RowsTyped
        <4> QED
          BY <1>5, <3>1, <4>1, OffersMoves DEF Offers!Moves
      <3> QED
        BY <1>5, <3>2 DEF Offers!Next, Offers!TakeBack, DropOffer
    <2> QED
      BY <2>1, <2>2
  <1>6. ASSUME NEW t \in work, GoLive(t)
        PROVE  Offers!Next
    <2>1. t.call \in Calls /\ (t.at = "live" => t.agent \in Agents)
      BY TaskTyped DEF TaskConsistent
    <2>2. phase[t.call] = "answering" /\ phase'[t.call] = "connected" /\ UNCHANGED agent
      <3>1. /\ status[t.call] = "RINGING" /\ status'[t.call] = "IN_PROGRESS"
            /\ UNCHANGED <<agent, offered>>
        BY <1>6, <2>1 DEF GoLive, RowsTyped
      <3>2. agent[t.call] # None /\ offered[t.call] = 0
        BY <1>6, <2>1, <3>1 DEF GoLive, AnsweringOwnsCall, Answering, Live
      <3> QED
        BY <2>1, <3>1, <3>2, PhaseOf, NextPhaseOf
    <2>3. Offers!Moves(t.call, {"answering"}, "connected")
      <3>1. OnlyRowOf(t.call)
        BY <1>6, <2>1, <2>2 DEF OnlyRowOf, GoLive, RowsTyped
      <3> QED
        BY <1>6, <2>1, <2>2, <3>1, OffersMoves DEF Offers!Moves
    <2> QED
      BY <2>1, <2>2, <2>3 DEF Offers!Next, Offers!Connect
  <1>7. ASSUME NEW t \in work, CommitEnd(t)
        PROVE  [Offers!Next]_(Offers!vars)
    <2> DEFINE c == t.call
    <2>1. c \in Calls /\ UNCHANGED agent
      BY <1>7, TaskTyped DEF CommitEnd
    <2>2. phase'[c] = "ended"
      BY <1>7, <2>1, NextPhaseOf DEF CommitEnd, FinalStatus, RowsTyped
    <2>3. CASE Live(c)
      <3>1. phase[c] \in {"waiting", "offered", "answering", "connected"}
        BY <2>1, <2>3, PhaseOf DEF Live
      <3>2. Offers!Moves(c, {"waiting", "offered", "answering", "connected"}, "ended")
        <4>1. OnlyRowOf(c)
          BY <1>7, <2>1, <2>2, <3>1 DEF OnlyRowOf, CommitEnd, RowsTyped
        <4> QED
          BY <1>7, <2>1, <2>2, <3>1, <4>1, OffersMoves DEF Offers!Moves
      <3> QED
        BY <2>1, <3>2 DEF Offers!Next, Offers!End
    <2>4. CASE ~Live(c)
      <3>1. phase[c] = "ended"
        BY <1>7, <2>1, <2>4, PhaseOf DEF CommitEnd, CanEnd, Live
      <3>2. Offers!Moves(c, {"ended"}, "ended")
        <4>1. OnlyRowOf(c)
          BY <1>7, <2>1, <2>2, <3>1 DEF OnlyRowOf, CommitEnd, RowsTyped
        <4> QED
          BY <1>7, <2>1, <2>2, <3>1, <4>1, OffersMoves DEF Offers!Moves
      <3>3. phase' = phase
        BY <2>1, <3>1, <3>2, PhaseOf DEF Offers!Moves
      <3> QED
        BY <2>1, <3>3 DEF Offers!vars
    <2> QED
      BY <2>3, <2>4
  <1> QED
    BY <1>1, <1>2, <1>3, <1>4, <1>5, <1>6, <1>7, RowSteps

(* Whatever handlers, drains, timers and crashes do to the rows, a call is *)
(* offered to one agent at a time, who rings for nothing else, and is never*)
(* taken from an agent who answers it (AgentAssignmentCoordinator).        *)
THEOREM RoutingImplementsOffers == Spec => OffersSpec
  <1>1. IInv => TasksTyped /\ RowsTyped /\ Core
    BY IInvParts
  <1>2. IInv' => RowsTyped'
    BY DEF IInv, TypeOK, HandlersConsistent, RowsTyped
  <1>3. IInv /\ IInv' /\ [Next]_vars => [Offers!Next]_(Offers!vars)
    BY <1>1, <1>2, OffersNext
  <1> QED
    BY <1>3, OffersInit, InductiveInvariant, PTL DEF Spec, OffersSpec, Offers!Spec
=============================================================================
