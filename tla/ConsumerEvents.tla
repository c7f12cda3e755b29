---------------------------- MODULE ConsumerEvents ----------------------------
(***************************************************************************)
(* One event of a call on its way to the consumer: the workers that see    *)
(* its transition write it to the outbox (ConsumerEventPublisher), and     *)
(* whichever holds the dispatcher's lease POSTs it until the consumer      *)
(* answers 2xx (OutboxDispatcher).                                         *)
(***************************************************************************)
EXTENDS Naturals, FiniteSets

CONSTANTS
    Workers,
    None,
    MaxAttempts,        \* attempts before an event is given up
    WriteTries,         \* tries of one write to the outbox
    MaxFaults,          \* bound: failed statements, lapsed leases, crashes
    MaxRedeliveries     \* bound: times the consumer asks for it again

ASSUME WorkersAssumption == IsFiniteSet(Workers) /\ None \notin Workers
ASSUME BoundsAssumption ==
    /\ MaxAttempts \in Nat \ {0} /\ WriteTries \in Nat \ {0}
    /\ MaxFaults \in Nat /\ MaxRedeliveries \in Nat

VARIABLES
    publisher,     \* each worker's handling of the transition, if it sees it
    tries,         \* failed writes of it
    event,         \* the row in webhook_deliveries
    lease,         \* the worker that holds the dispatcher's lease
    dispatcher,    \* each worker's tick: the attempts it read, the answer it got
    stopped,       \* workers whose dispatcher was stopped for a shutdown
    acked,         \* the consumer has answered 2xx
    sent,          \* requests begun, up to MaxAttempts
    faults, redeliveries

vars == <<publisher, tries, event, lease, dispatcher, stopped, acked, sent, faults,
          redeliveries>>
outgoing == <<lease, dispatcher, stopped, acked, sent, redeliveries>>
incoming == <<publisher, tries>>
counts == <<acked, sent>>

NoEvent == [status |-> "NONE", attempts |-> 0, due |-> FALSE]
Rest == [at |-> "none", attempts |-> 0]

Events == [status : {"NONE", "PENDING", "DELIVERED", "FAILED"}, attempts : Nat, due : BOOLEAN]
Ticks == [at : {"none", "find", "post", "acked", "refused", "failing"}, attempts : Nat]

TypeOK ==
    /\ publisher \in [Workers -> {"none", "check", "write", "done", "lost"}]
    /\ tries \in [Workers -> 0 .. WriteTries]
    /\ event \in Events
    /\ (event.status = "NONE") => event = NoEvent
    /\ lease \in Workers \cup {None}
    /\ dispatcher \in [Workers -> Ticks]
    /\ stopped \subseteq Workers
    /\ acked \in BOOLEAN /\ sent \in 0 .. MaxAttempts
    /\ faults \in 0 .. MaxFaults /\ redeliveries \in 0 .. MaxRedeliveries

Init ==
    /\ publisher = [w \in Workers |-> "none"] /\ tries = [w \in Workers |-> 0]
    /\ event = NoEvent /\ lease = None /\ dispatcher = [w \in Workers |-> Rest]
    /\ stopped = {} /\ acked = FALSE /\ sent = 0
    /\ faults = 0 /\ redeliveries = 0

Fault == faults < MaxFaults /\ faults' = faults + 1
Publishes(w, step) == publisher' = [publisher EXCEPT ![w] = step]

-----------------------------------------------------------------------------
(* The write.  A transition may be seen by several workers.                *)

Observe(w) ==
    /\ publisher[w] = "none" /\ Publishes(w, "check")
    /\ UNCHANGED <<tries, event, outgoing, faults>>

(* Fault: whoever looks first has the event to itself.                     *)
CheckClaims(w) ==
    /\ publisher[w] = "check" /\ UNCHANGED faults
    /\ Publishes(w, IF \E v \in Workers \ {w} : publisher[v] # "none" THEN "done" ELSE "write")
    /\ UNCHANGED <<tries, event, outgoing>>

(* A read that fails here loses the event for this worker: only the write  *)
(* is tried again.                                                         *)
Check(w) ==
    /\ publisher[w] = "check"
    /\ \/ event # NoEvent /\ Publishes(w, "done") /\ UNCHANGED faults
       \/ event = NoEvent /\ Publishes(w, "write") /\ UNCHANGED faults
       \/ Fault /\ Publishes(w, "lost")
    /\ UNCHANGED <<tries, event, outgoing>>

(* The unique key turns the second write away.                             *)
Write(w) ==
    /\ publisher[w] = "write"
    /\ \/ /\ Publishes(w, "done") /\ UNCHANGED <<tries, faults>>
          /\ event' = IF event = NoEvent THEN [NoEvent EXCEPT !.status = "PENDING", !.due = TRUE]
                      ELSE event
       \/ /\ Fault /\ UNCHANGED event
          /\ tries' = [tries EXCEPT ![w] = @ + 1]
          /\ Publishes(w, IF tries[w] + 1 = WriteTries THEN "lost" ELSE "write")
    /\ UNCHANGED outgoing

-----------------------------------------------------------------------------
(* The dispatcher's tick.                                                  *)

At(w, step) == dispatcher[w].at = step
Goes(w, step) == dispatcher' = [dispatcher EXCEPT ![w].at = step]
Ends(w) == dispatcher' = [dispatcher EXCEPT ![w] = Rest]

HoldLease(w) ==
    /\ At(w, "none") /\ w \notin stopped /\ lease \in {w, None}
    /\ lease' = w /\ Goes(w, "find")
    /\ UNCHANGED <<incoming, event, stopped, counts, faults, redeliveries>>

(* The lease is renewed at the start of a tick only.                       *)
LeaseLapses ==
    /\ lease # None /\ (lease \in stopped \/ ~At(lease, "none")) /\ Fault
    /\ lease' = None
    /\ UNCHANGED <<incoming, event, dispatcher, stopped, counts, redeliveries>>

OneMore(n) == IF n < MaxAttempts THEN n + 1 ELSE n

FindDue(w) ==
    /\ At(w, "find")
    /\ IF event.status = "PENDING" /\ event.due
       THEN /\ dispatcher' = [dispatcher EXCEPT ![w] = [at |-> "post", attempts |-> event.attempts]]
            /\ sent' = OneMore(sent)
       ELSE Ends(w) /\ UNCHANGED sent
    /\ UNCHANGED <<incoming, event, lease, stopped, acked, faults, redeliveries>>

(* 2xx, another answer, or none; a time-out hides whether the consumer has *)
(* the event.                                                              *)
Post(w) ==
    /\ At(w, "post")
    /\ \/ Goes(w, "acked") /\ acked' = TRUE
       \/ Goes(w, "refused") /\ UNCHANGED acked
       \/ Goes(w, "failing") /\ UNCHANGED acked
    /\ UNCHANGED <<incoming, event, lease, stopped, sent, faults, redeliveries>>

(* A delivery that cannot be marked counts as a failed attempt.            *)
MarkDelivered(w) ==
    /\ At(w, "acked")
    /\ \/ /\ event' = [event EXCEPT !.status = "DELIVERED", !.attempts = @ + 1]
          /\ Ends(w) /\ UNCHANGED faults
       \/ Fault /\ Goes(w, "failing") /\ UNCHANGED event
    /\ UNCHANGED <<incoming, lease, stopped, counts, redeliveries>>

(* Fault: off by one.                                                      *)
GivesUpEarly(w) == dispatcher[w].attempts + 2 >= MaxAttempts

GivesUp(w) == dispatcher[w].attempts + 1 >= MaxAttempts

(* A refusal that cannot be marked is caught like a POST that threw, and   *)
(* so marked once more; then the row is left as it is, and due.            *)
MarkAttemptFailed(w) ==
    /\ \/ /\ At(w, "refused") \/ At(w, "failing")
          /\ event' = IF GivesUp(w)
                      THEN [event EXCEPT !.status = "FAILED", !.attempts = @ + 1]
                      ELSE [event EXCEPT !.due = FALSE, !.attempts = @ + 1]
          /\ Ends(w) /\ UNCHANGED faults
       \/ At(w, "refused") /\ Goes(w, "failing") /\ Fault /\ UNCHANGED event
       \/ At(w, "failing") /\ Ends(w) /\ Fault /\ UNCHANGED event
    /\ UNCHANGED <<incoming, lease, stopped, counts, redeliveries>>

(* The next attempt's time comes.                                          *)
BecomesDue ==
    /\ event.status = "PENDING" /\ ~event.due
    /\ event' = [event EXCEPT !.due = TRUE]
    /\ UNCHANGED <<incoming, outgoing, faults>>

-----------------------------------------------------------------------------
(* The consumer asks for the event again.                                  *)
Redeliver ==
    /\ event # NoEvent /\ redeliveries < MaxRedeliveries
    /\ redeliveries' = redeliveries + 1
    /\ event' = [status |-> "PENDING", attempts |-> 0, due |-> TRUE]
    /\ UNCHANGED <<incoming, lease, dispatcher, stopped, acked, sent, faults>>

(* A shutdown gives the lease up and lets the tick go on to its end.       *)
Stop(w) ==
    /\ w \notin stopped /\ Fault
    /\ stopped' = stopped \cup {w} /\ lease' = IF lease = w THEN None ELSE lease
    /\ UNCHANGED <<incoming, event, dispatcher, counts, redeliveries>>

(* The worker is back under its old id, and so with its old lease.         *)
Restart(w) ==
    /\ w \in stopped /\ At(w, "none") /\ stopped' = stopped \ {w}
    /\ UNCHANGED <<incoming, event, lease, dispatcher, counts, faults, redeliveries>>

Crash(w) ==
    /\ w \notin stopped /\ Fault
    /\ stopped' = stopped \cup {w} /\ Ends(w)
    /\ Publishes(w, IF publisher[w] = "none" THEN "none"
                    ELSE IF publisher[w] = "done" THEN "done" ELSE "lost")
    /\ UNCHANGED <<tries, event, lease, counts, redeliveries>>

-----------------------------------------------------------------------------
Publish(w) == Check(w) \/ Write(w)
Tick(w) == HoldLease(w) \/ FindDue(w) \/ Post(w) \/ MarkDelivered(w) \/ MarkAttemptFailed(w)

Next ==
    \/ \E w \in Workers : \/ Observe(w) \/ Publish(w) \/ Tick(w)
                          \/ Stop(w) \/ Restart(w) \/ Crash(w)
    \/ LeaseLapses \/ BecomesDue \/ Redeliver

(* Each worker's event loop goes on, a stopped worker is started again,    *)
(* and a lease nobody renews runs out.                                     *)
Fairness ==
    /\ \A w \in Workers : WF_vars(Publish(w)) /\ WF_vars(Tick(w)) /\ WF_vars(Restart(w))
    /\ WF_vars(BecomesDue)

Spec == Init /\ [][Next]_vars /\ Fairness

-----------------------------------------------------------------------------
(* Whoever is done with the event knows it in the outbox: it is lost only  *)
(* if every worker that saw it failed to write it.                         *)
DoneIsWritten == (\E w \in Workers : publisher[w] = "done") => event # NoEvent

(* An earned verdict: the consumer has taken the event, or it was sent as  *)
(* often as promised (docs: given up after the 12th failed attempt).       *)
Earned == \/ event.status = "DELIVERED" /\ acked
          \/ event.status = "FAILED" /\ sent >= MaxAttempts

(* A verdict is earned: what is marked delivered was taken, what is given  *)
(* up was sent, although two dispatchers may count one event's attempts.   *)
VerdictIsEarned == event.status \in {"DELIVERED", "FAILED"} => Earned

(* An event in the outbox comes to a verdict that is earned, whoever held  *)
(* the dispatcher's lease, whatever was lost, asked for again or crashed.  *)
EventIsSettled == (event.status = "PENDING") ~> Earned

-----------------------------------------------------------------------------
(* The inductive invariant behind the verdict: until the event has been    *)
(* sent MaxAttempts times, no attempt is counted that was not made.        *)

(* The requests whose outcome is not in the row yet.                       *)
InFlight == {w \in Workers : dispatcher[w].at \in {"post", "acked", "refused", "failing"}}

AttemptsAreSent == sent < MaxAttempts =>
    /\ event.attempts + Cardinality(InFlight) <= sent
    /\ \A w \in InFlight : dispatcher[w].attempts + 1 <= sent

(* Who is still to write has a try left.                                   *)
TriesLeft == \A w \in Workers : publisher[w] \in {"none", "check", "write"} => tries[w] < WriteTries

IInv ==
    /\ TypeOK /\ TriesLeft /\ DoneIsWritten /\ AttemptsAreSent /\ VerdictIsEarned
    /\ \A w \in Workers : dispatcher[w].at = "acked" => acked
    /\ InFlight # {} => event.status # "NONE"

=============================================================================
