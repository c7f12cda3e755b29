------------------------------ MODULE CallPushes ------------------------------
(***************************************************************************)
(* The pushes that ring an agent's devices for a call and stop the ring    *)
(* (CallPushNotifier, ApnsVoipService, FcmService, OneSignalService), and  *)
(* the register of the devices' tokens they go to (PushTokenRepository).   *)
(* One call of one queue; the phones and the push services are external.   *)
(***************************************************************************)
EXTENDS Integers, FiniteSets

CONSTANTS
    Agents, Devices,    \* the queue's members; the phones and browsers they use
    Alone,              \* the members who are offered the call alone at times
    Voip, Web,          \* devices reached through APNs VoIP, through OneSignal
    Home,               \* who is signed in on each device, and registered, at the start
    None,
    MaxAttempts,        \* posts of one push
    MaxNotices,         \* bound: notifications whose tokens are still to be read when the call
                        \* goes on, and one more
    MaxExtras           \* bound: offers made again, declines, sign-ins, sign-outs and renewed
                        \* tokens, failed registrations and pushes

ASSUME DevicesAssumption == Voip \cap Web = {} /\ Voip \cup Web \subseteq Devices
ASSUME HomeAssumption ==
    Home \in [Devices -> Agents] /\ Alone \subseteq Agents /\ None \notin Agents \cup Devices
ASSUME BoundsAssumption ==
    MaxAttempts \in Nat \ {0} /\ {MaxNotices, MaxExtras} \subseteq Nat

VARIABLES
    call,          \* status, the agent_id of its row, to whom it is offered, who answered where
    round,
    row,           \* per agent and device: the registered token, 0 without
    phone,         \* the device: who is signed in, its token, a registration due, ringing
    storing,       \* registrations under way
    notices,       \* notifications under way: what for, to whom, in which round
    sends,         \* pushes under way, one per token
    removing,      \* invalid tokens about to be deleted
    untold,        \* devices whose ring nobody can be expected to stop
    extras

registry == <<row, storing, removing>>
vars == <<call, round, registry, phone, notices, sends, untold, extras>>

Provider(d) == IF d \in Voip THEN "APNS_VOIP" ELSE IF d \in Web THEN "ONESIGNAL" ELSE "FCM"
Cancelling == {"withdrawn", "declined", "resolved", "taken", "ended"}
Token == 0 .. MaxExtras + 1

Calls == [status : {"waiting", "ringing", "answered", "over"}, agent : Agents \cup {None},
          offered : SUBSET Agents, on : Devices \cup {None}, known : BOOLEAN]
Phones == [user : Agents \cup {None}, token : Token, due : BOOLEAN, ring : BOOLEAN]
Registrations == [agent : Agents, device : Devices, token : Token]
Notifications == [why : Cancelling \cup {"offered"}, ids : SUBSET Agents,
                  but : Devices \cup {None}, round : 0 .. MaxExtras + 1]
Pushes == [why : Cancelling \cup {"offered"}, device : Devices, token : Token,
           tries : 1 .. MaxAttempts, round : 0 .. MaxExtras + 1]

TypeOK ==
    /\ call \in Calls /\ round \in 0 .. MaxExtras + 1
    /\ row \in [Agents -> [Devices -> Token]] /\ phone \in [Devices -> Phones]
    /\ storing \subseteq Registrations /\ notices \subseteq Notifications /\ sends \subseteq Pushes
    /\ removing \subseteq [device : Devices, token : Token]
    /\ untold \subseteq Devices /\ extras \in 0 .. MaxExtras

Init ==
    /\ call = [status |-> "waiting", agent |-> None, offered |-> {}, on |-> None, known |-> FALSE]
    /\ round = 0
    /\ row = [a \in Agents |-> [d \in Devices |-> IF Home[d] = a THEN 1 ELSE 0]]
    /\ phone = [d \in Devices |-> [user |-> Home[d], token |-> 1, due |-> FALSE, ring |-> FALSE]]
    /\ storing = {} /\ notices = {} /\ sends = {} /\ removing = {}
    /\ untold = Web /\ extras = 0

Extra == extras < MaxExtras /\ extras' = extras + 1

-----------------------------------------------------------------------------
(* The register of tokens.                                                 *)

Move(d, f) ==
    Extra /\ call.status # "over" /\ phone' = [phone EXCEPT ![d] = f]

(* The app renews its token; another agent signs in on the device.  Either *)
(* has the consumer register the token.                                    *)
RenewToken(d) ==
    /\ phone[d].user # None
    /\ Move(d, [phone[d] EXCEPT !.token = @ + 1, !.due = TRUE])
    /\ UNCHANGED <<call, round, registry, notices, sends, untold>>

SignIn(d, a) ==
    /\ call.on # d /\ phone[d].user # a
    /\ Move(d, [phone[d] EXCEPT !.user = a, !.due = TRUE])
    /\ untold' = untold \cup {d}
    /\ UNCHANGED <<call, round, registry, notices, sends>>

(* Signing out deletes the device's rows.                                  *)
UnregisterDevice(d) ==
    /\ call.on # d /\ phone[d].user # None /\ \A s \in storing : s.device # d
    /\ Move(d, [phone[d] EXCEPT !.user = None, !.due = FALSE])
    /\ row' = [row EXCEPT ![phone[d].user][d] = 0] /\ untold' = untold \cup {d}
    /\ UNCHANGED <<call, round, storing, removing, notices, sends>>

(* The token leaves every other row, then gets its own; a device's        *)
(* registrations are made one after the other.                             *)
Displaced(a, d) == [b \in Agents |-> [e \in Devices |->
    IF e = d /\ row[b][e] = phone[d].token /\ b # a THEN 0 ELSE row[b][e]]]

Register(d) ==
    /\ phone[d].due /\ \A s \in storing : s.device # d
    /\ row' = Displaced(phone[d].user, d) /\ phone' = [phone EXCEPT ![d].due = FALSE]
    /\ storing' = storing \cup {[agent |-> phone[d].user, device |-> d, token |-> phone[d].token]}
    /\ UNCHANGED <<call, round, removing, notices, sends, untold, extras>>

InsertToken(s) ==
    /\ row' = [row EXCEPT ![s.agent][s.device] = s.token] /\ storing' = storing \ {s}
    /\ UNCHANGED <<call, round, phone, removing, notices, sends, untold, extras>>

(* The second statement may fail; the consumer registers the token again.  *)
RegisterFails(s) ==
    /\ Extra /\ storing' = storing \ {s}
    /\ phone' = [phone EXCEPT ![s.device].due = phone[s.device].user # None]
    /\ untold' = untold \cup {s.device}
    /\ UNCHANGED <<call, round, row, removing, notices, sends>>

(* A token that a push service reported as invalid goes, whoever has it.   *)
(* Fault: the device goes, not the token.                                  *)
PrunesTheDevice(t) == [a \in Agents |-> [d \in Devices |-> IF d = t.device THEN 0 ELSE row[a][d]]]
Pruned(t) == [a \in Agents |-> [d \in Devices |->
    IF d = t.device /\ row[a][d] = t.token THEN 0 ELSE row[a][d]]]

RemoveToken(t) ==
    /\ removing' = removing \ {t} /\ row' = Pruned(t)
    /\ UNCHANGED <<call, round, phone, storing, notices, sends, untold, extras>>

-----------------------------------------------------------------------------
(* The call's events and the notifications they begin.                     *)

Notice(why, ids, but) == [why |-> why, ids |-> ids, but |-> but, round |-> round']

Begin(ns) ==
    /\ Cardinality(notices) < MaxNotices
    /\ notices' = notices \cup {n \in ns : n.ids # {}}

(* Offered to one agent, or by a RING_ALL queue to all its members.        *)
Offer ==
    /\ call.status = "waiting" /\ round' = round + 1
    /\ IF round = 0 THEN UNCHANGED extras ELSE Extra
    /\ \E ids \in {{a} : a \in Alone} \cup {Agents} :
         /\ call' = [call EXCEPT !.status = "ringing", !.offered = ids,
                       !.agent = IF ids = Agents THEN None ELSE CHOOSE a \in ids : TRUE]
         /\ Begin({Notice("offered", ids, None)})
    /\ UNCHANGED <<registry, phone, sends, untold>>

RingAll == call.agent = None

(* Whom the end of a call or of its offer concerns: its agent, or for a    *)
(* call nobody took every member of the queue.                             *)
(* Fault: the members are left out.                                        *)
ForgetsTheQueue == IF call.agent # None THEN {call.agent} ELSE {}
Concerned == IF call.agent # None THEN {call.agent} ELSE Agents

Withdraw ==
    /\ call.status = "ringing" /\ UNCHANGED round
    /\ call' = [call EXCEPT !.status = "waiting", !.offered = {}, !.agent = None]
    /\ Begin({Notice("withdrawn", Concerned, None)})
    /\ UNCHANGED <<registry, phone, sends, untold, extras>>

(* A decline of a RING_ALL offer dismisses it for this agent only, after   *)
(* it has been logged.  An offer to one agent that is declined is          *)
(* withdrawn.                                                              *)
Decline(a) ==
    /\ call.status = "ringing" /\ RingAll /\ UNCHANGED round
    /\ Extra /\ call' = [call EXCEPT !.offered = @ \ {a}]
    /\ Begin({Notice("declined", {a}, None)})
    /\ UNCHANGED <<registry, phone, sends, untold>>

(* The agent answers on a device, whether or not that one rang: a decline  *)
(* on another of the agent's devices does not take the call from this one. *)
(* Fault: every member counts as another member.                           *)
TellsTheAnswerer(a, d) ==
    {Notice("resolved", {a}, d)} \cup
    (IF RingAll THEN {Notice("taken", Agents, None)} ELSE {})
Resolution(a, d) ==
    {Notice("resolved", {a}, d)} \cup
    (IF RingAll THEN {Notice("taken", Agents \ {a}, None)} ELSE {})

Accept(a, d) ==
    /\ call.status = "ringing" /\ (RingAll \/ call.agent = a) /\ phone[d].user = a /\ UNCHANGED round
    /\ call' = [call EXCEPT !.status = "answered", !.agent = a, !.on = d, !.offered = {},
                  !.known = row[a][d] = phone[d].token]
    /\ phone' = [phone EXCEPT ![d].ring = FALSE]
    /\ Begin(Resolution(a, d))
    /\ UNCHANGED <<registry, sends, untold, extras>>

EndCall ==
    /\ call.status # "over" /\ UNCHANGED round
    /\ call' = [call EXCEPT !.status = "over", !.offered = {}, !.on = None]
    /\ Begin({Notice("ended", Concerned, None)})
    /\ UNCHANGED <<registry, phone, sends, untold, extras>>

-----------------------------------------------------------------------------
(* A notification on its way.                                              *)

(* A second call offered to a ringing agent is not delivered.              *)
Suppress(n) ==
    /\ n.why = "offered" /\ Cardinality(n.ids) = 1
    /\ notices' = notices \ {n}
    /\ UNCHANGED <<call, round, registry, phone, sends, untold, extras>>

(* Rooms, logs and members come first, and nothing is looked at again      *)
(* after them.  Then the tokens of these agents are read, but the          *)
(* answering device's own; a browser is never told to stop.                *)
Targets(n) ==
    {x \in n.ids \X (Devices \ ({n.but} \cup IF n.why = "offered" THEN {} ELSE Web)) :
        row[x[1]][x[2]] # 0}

ReadTokens(n) ==
    /\ notices' = notices \ {n}
    /\ sends' = sends \cup {[why |-> n.why, device |-> x[2], token |-> row[x[1]][x[2]], tries |-> 1,
                             round |-> n.round] : x \in Targets(n)}
    /\ UNCHANGED <<call, round, registry, phone, untold, extras>>

(* The push service has it and the phone takes it: an incoming call rings  *)
(* it unless it holds that call, any other stops the ring.  A ring for     *)
(* what is no longer offered is one that nobody will stop.                 *)
Rings(s) == s.why = "offered" /\ call.on # s.device
Ghost(s) == Rings(s) /\ (s.round # round \/ phone[s.device].user \notin call.offered)

Reaches(s) ==
    /\ s.token = phone[s.device].token
    /\ phone' = [phone EXCEPT ![s.device].ring = Rings(s)]
    /\ untold' = untold \cup {d \in {s.device} : Ghost(s)}

Arrives(s) ==
    /\ Reaches(s) /\ sends' = sends \ {s}
    /\ UNCHANGED <<call, round, registry, notices, extras>>

(* APNs and OneSignal are asked again when they do not answer, and may     *)
(* have delivered all the same.                                            *)
Retry(s) ==
    /\ Extra /\ Provider(s.device) # "FCM" /\ s.tries < MaxAttempts
    /\ sends' = (sends \ {s}) \cup {[s EXCEPT !.tries = @ + 1]}
    /\ (Reaches(s) \/ UNCHANGED <<phone, untold>>)
    /\ UNCHANGED <<call, round, registry, notices>>

(* Refused, throttled, discarded, or the last attempt failed.              *)
Lost(s) ==
    /\ Extra /\ sends' = sends \ {s} /\ untold' = untold \cup {s.device}
    /\ UNCHANGED <<call, round, registry, phone, notices>>

Invalid(s) ==
    /\ s.token # phone[s.device].token /\ sends' = sends \ {s}
    /\ removing' = removing \cup {[device |-> s.device, token |-> s.token]}
    /\ untold' = untold \cup {s.device}
    /\ UNCHANGED <<call, round, row, storing, phone, notices, extras>>

-----------------------------------------------------------------------------

DeviceStep ==
    \/ \E d \in Devices : RenewToken(d) \/ UnregisterDevice(d) \/ Register(d)
    \/ \E d \in Devices, a \in Agents : SignIn(d, a)
    \/ \E s \in storing : InsertToken(s) \/ RegisterFails(s)
    \/ \E t \in removing : RemoveToken(t)

CallStep ==
    \/ Offer \/ Withdraw \/ EndCall
    \/ \E a \in Agents : Decline(a) \/ \E d \in Devices : Accept(a, d)

PushStep ==
    \/ \E n \in notices : Suppress(n) \/ ReadTokens(n)
    \/ \E s \in sends : Arrives(s) \/ Retry(s) \/ Lost(s) \/ Invalid(s)

Next == DeviceStep \/ CallStep \/ PushStep

Spec == Init /\ [][Next]_vars

-----------------------------------------------------------------------------
(* What the pushes promise.                                                *)

(* A call.cancelled that the answer itself sets off (to the agent's other  *)
(* devices and to the other members) is never on its way to the device     *)
(* that holds the call: it would tear the live call down                   *)
(* (CallPushNotifier.notifyCallResolved), whoever used that device before. *)
AnsweredDeviceIsSpared ==
    call.status = "answered" /\ call.known =>
        \A s \in sends : s.why \in {"resolved", "taken"} /\ s.token = phone[s.device].token
                           => s.device # call.on

(* When nothing is under way, no device rings for a call that is answered  *)
(* or over, in whatever rounds it was offered (notifyCancelled,            *)
(* notifyCallEnded): unless a push was lost, reached it after its ring had *)
(* been taken back, or its token moved.                                    *)
RingsAreStopped ==
    call.status # "ringing" /\ notices = {} /\ sends = {} =>
        \A d \in Devices \ untold : ~phone[d].ring

(* A signed-in device whose registration is not under way is registered,   *)
(* with its newest token and for its agent alone: neither the deletion of  *)
(* an older, invalid token nor another agent's earlier use of the device   *)
(* costs it its pushes (register, removeToken).                            *)
SignedInDevicesAreReached ==
    \A d \in Devices : phone[d].user # None /\ ~phone[d].due /\ (\A s \in storing : s.device # d) =>
        \A a \in Agents : row[a][d] = phone[d].token <=> a = phone[d].user
-----------------------------------------------------------------------------
(* The inductive invariant behind them.                                    *)

(* Nothing is newer than the token of the device, and what is about to be  *)
(* deleted is older.                                                       *)
TokensInv ==
    /\ round <= extras + 1
    /\ \A d \in Devices : phone[d].token \in 1 .. extras + 1
    /\ \A a \in Agents, d \in Devices : row[a][d] <= phone[d].token
    /\ \A s \in storing : s.token # 0 /\ s.token <= phone[s.device].token
    /\ \A s \in sends : s.token <= phone[s.device].token
    /\ \A t \in removing : t.token < phone[t.device].token

(* One registration per device is under way, and the newest token is one   *)
(* agent's: the registered one's, or that of its registration.             *)
RegisterInv ==
    /\ \A d \in Devices : phone[d].due => phone[d].user # None
    /\ \A s, t \in storing : s.device = t.device => s = t
    /\ \A d \in Devices : \A a, b \in Agents :
           row[a][d] = phone[d].token /\ row[b][d] = phone[d].token => a = b
    /\ \A s \in storing : \A b \in Agents :
           s.token = phone[s.device].token /\ row[b][s.device] = s.token => b = s.agent
    /\ \A s \in storing : ~phone[s.device].due =>
           s.agent = phone[s.device].user /\ s.token = phone[s.device].token
    /\ \A d \in Devices : phone[d].user # None /\ ~phone[d].due =>
           row[phone[d].user][d] = phone[d].token \/ \E s \in storing : s.device = d

(* What the answer sets off spares its device, and its agent's fellow      *)
(* members do not come by the device's token while it holds the call.      *)
Answering == {"resolved", "taken"}
AnswerInv ==
    /\ call.status \in {"waiting", "ringing"} =>
           \A m \in notices \cup sends : m.why \notin Answering
    /\ call.status = "answered" =>
           /\ call.agent \in Agents /\ call.on \in Devices /\ phone[call.on].user = call.agent
           /\ \A n \in notices : /\ n.why = "resolved" => n.but = call.on
                                 /\ n.why = "taken" => call.agent \notin n.ids
    /\ call.status = "answered" /\ call.known =>
           /\ \A b \in Agents : row[b][call.on] = phone[call.on].token => b = call.agent
           /\ \A s \in storing :
                  s.device = call.on /\ s.token = phone[call.on].token => s.agent = call.agent
           /\ \A s \in sends : s.why \in Answering /\ s.device = call.on
                                   => s.token # phone[call.on].token

(* A device whose ring can be stopped is registered to its first agent,    *)
(* and rings only while the call is offered to that agent, or with a       *)
(* notification or a push to stop it on its way.                           *)
Stopping(d) ==
    \/ \E n \in notices : n.why \in Cancelling /\ Home[d] \in n.ids /\ n.but # d
    \/ \E s \in sends : s.why \in Cancelling /\ s.device = d
RingInv ==
    /\ call.status # "ringing" => call.offered = {}
    /\ call.agent # None => call.offered \subseteq {call.agent}
    /\ \A d \in Devices \ untold :
           /\ d \notin Web /\ phone[d].user = Home[d] /\ row[Home[d]][d] # 0
           /\ \A t \in removing : t.device # d
           /\ phone[d].ring => Home[d] \in call.offered \/ Stopping(d)

IInv == TypeOK /\ TokensInv /\ RegisterInv /\ AnswerInv /\ RingInv

=============================================================================
