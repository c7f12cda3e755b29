# Callio in TLA+

Callio (`src/`) is a call engine for contact centres: N Node.js workers share one MySQL
database and one Redis, take calls from WhatsApp and SIP channels, offer them to agents
connected by WebSocket or reached by push, run IVR flows, bridge media and tell the consumer's
systems what happened. A call's legs live on one worker, which holds the call's lease; everything
else (claims, timers, ends, sweeps) may run on any worker. What makes the engine correct is
therefore not in one function. It is in how guarded SQL updates, handlers that `await` between
them, timers on other workers, lost messages and crashes work together. This project models that
with TLA+, checks it with TLC and proves central parts with TLAPS.

Paths below are relative to `src/src/`, except docs and the SDK (`src/sdk`).

## Inventory

| Component | State | Operations | What is hard | What makes it correct | Module |
|---|---|---|---|---|---|
| Offer routing: `core/routing/AgentAssignmentCoordinator`, `QueueRouter`, `OfferHistory`, `AutoOfflinePolicy`, `persistence/AgentRepository` | `agents.availability`, `busy_call_id`, `calls.agent_id/offered_at/queue_id`, offer history | claim for a new call, drain, pass on, overflow, release, sweep, shift change | claims on several workers, late releases, lost wake-ups | one offer per agent; a ringing call holds its agent; no hold leaks | `CallRouting` |
| Queue timeouts: `core/routing/QueueTimeoutService` | `offered_at`, `queued_at`, `overflow_count` | ring timeout, max wait, overflow, handover expiry | a timer that decided on an old read | only offers that rang out are missed; answered calls are left alone; waiting ends | `CallRouting`, `CallHandover` |
| Accept, decline, end: `core/events/handlers/*`, `core/calls/CallTerminator`, `CallCleanupService` | `calls.status`, the agent leg | accept, decline, hang-up, stuck-call scan, settle | accept racing hang-up, timeout, decline, accept; crash between end and settle | ended calls stay ended; settled by the ender; no agent stays held | `CallRouting` |
| Provider events: `core/channels/ChannelIngress`, outbound starts | rows, tombstones, ownership | arrival, answer, status, end, dial, cancel | reordered, repeated, concurrent events | an end that came first rings nobody; agents are let go; reasons come right | `ProviderEvents` |
| Transfer, reconnect, network loss, deadlines | `agent_id`, `offered_at` of answered calls, stored deadlines | transfer, accept, expire, page lost and back | crash and accept between statements; set and clear of timers | an accepted handover stays; handovers and lost agents are not waited for without end | `CallHandover` |
| Call inbox and adoption: `infra/cluster/CallInbox`, `core/calls/CallAdoption` | lease, stream, cursor, leased set, room snapshot | claim, read, renew, post, adopt, release, shutdown | lapsed leases, crash at any step, purge | one owner again; inputs are read; ended calls are forgotten | `CallInbox` |
| IVR: `core/ivr/*` | session, engine, timers, `calls.state` | accept, start, key, timeout, replay, transfer, stop | keys against timers, prompts and hang-up | no agent during the flow; the session ends | `IvrSession` |
| Media rooms: `media/rooms/RoomMedia`, supervisors | room, conference, queued operations | legs, bridge, supervisors, drop, close, sweep | operations that find another room than their handler saw | no leg outlives its call; silence and private replies end | `CallRooms` |
| Direct media, agent gateway, agent SDK | sockets, pages, `DirectCall`, device of the row | accept, reconnect, switch, resync, redeliver | lost sockets and messages, reloads, prompts, two devices | one page talks; the customer is heard again; pages let go of ended calls | `AgentLine` |
| Push notifications: `push/*` | tokens, what each device rings for | ring, cancel, retry, register, prune | cancels and rings that overtake each other | the answering device is spared; rings are stopped; registered devices stay registered | `CallPushes` |
| Consumer events: `outbox/*`, `ConsumerEventPublisher` | `webhook_deliveries`, dispatcher lease | publish, deliver, retry, give up, redeliver | several writers and dispatchers, crashes | done is written; each event earns its verdict | `ConsumerEvents` |
| Idempotent requests: `http/v1/idempotency` | key rows | claim, replay, take over, expire | slow original against takeover | nothing runs twice; one answer per key | `IdempotentRequests` |
| Recordings, retention, erasure | recording rows, files, logs | record, upload, delete, erase, purge | deletion against an upload, batches against ends | what is erased does not come back; uploads settle; batches reach all | `CallData` |
| Queue order: `CallAgentAssignmentService` | Redis order and metadata | reconcile, lock | read-modify-write beside other writers | (orders the board and equal candidates only) | not modelled |
| Management API, reports, boards, presence | rows of the configuration | edit, query | | | not modelled |

Interaction: socket messages become entries in the call's inbox (`call:accept` → `AGENT_JOINED` →
`handleAgentJoined`). `CallInbox._deliver` does not await a handler before it starts the next, so
handlers of one call interleave even on one worker. Timers and drains act on rows directly from any
worker; a worker that ends a call it does not own posts a notice to the owner's inbox. The room's
operations run one after another in a queue of their own, on what they find when their turn comes.
Towards agents, events go through the gateway to sockets that may be gone, and pushes go to devices
whose tokens are read later. The only synchronisation between workers is the `WHERE` clause of each
`UPDATE`, the unique keys, and the atomic commands of Redis.

`PROJECT.json` lists the hazards this code is exposed to, each at its line, with the properties that
would catch it or the reason why none does.

## Modules

Each component module states its state, one action per statement, operation or message, its
fairness, its properties and, beside the definition they change, the faults used to show that each
property can fail. `MC…` modules give the small instances their values.

| Module | Contents |
|---|---|
| `CallOffers` | The promise of routing: a call waits, is offered to one agent at a time, is taken, connected and ended. No rows, workers or handlers. |
| `CallRouting` | Routing of inbound queue calls; implements `CallOffers`. |
| `CallHandover` | An answered call changes hands: transfers, handovers, lost pages, lost audio, deadlines. |
| `ProviderEvents` | A provider's events about an inbound or outbound call, against what Callio does to it. |
| `CallInbox` | The worker that runs a call: lease, stream, cursor, take-over, shutdown, snapshot. |
| `IvrSession` | A call in its IVR flow, from the accept to the transfer or the end. |
| `CallRooms` | The call's media room, its queue of operations, and the handlers that fill it. |
| `AgentLine` | A call of a personal line between the agent's devices, the gateway and rtpengine. |
| `CallPushes` | Ring and cancel pushes and the register of device tokens. |
| `ConsumerEvents` | One event from the transition through the outbox to its verdict. |
| `IdempotentRequests` | Requests with one Idempotency-Key. |
| `CallData` | Recordings, retention, deletion and erasure. |
| `CallRoutingProofs`, `CallHandoverProofs`, `ProviderEventsProofs`, `IvrSessionProofs`, `CallPushesProofs`, `ConsumerEventsProofs`, `IdempotentRequestsProofs`, `CallDataProofs` | Theorems about the module of that name. |

Common to all: **one SQL statement, Redis command or message is one step**, and a handler between two
statements is a record that holds what it has read (`work` in `CallRouting`, `CallHandover`,
`ProviderEvents`; `request`, `dispatcher`, `job`, `stops`, `sends` elsewhere). **Time is left
out**: a timer that is set may fire at any moment, which includes every real timing; where a real
timing matters, a guard says which (below). Bounds are constants, named with their role; they limit
how much happens or is concurrent, never what a handler does. Variables that start with `history` in
their comment only serve the properties.

### `CallRouting`

* **One SQL statement or transaction is one step.** A handler between two statements is a record
  in `work`: the stage it is at (`at`), and what it read and still carries (`call`, `agent`,
  `queue`, and `seen`, the offer time that a scan read). Any other step may come in between; this
  is what an `await`, another worker or another handler of the same call can do.
* **Rows.** `status`, `agent`, `offered`, `queue`, `hops` are `calls.status`, `agent_id`,
  `offered_at`, `queue_id`, `overflow_count`; `shift` and `busy` are `agents.availability` and
  `busy_call_id`; `declined` and `missed` are OfferHistory's two Redis sets. `leg` is the one
  pending agent leg of the call's room, which an accept uses up.
* **Time.** Nothing is timed. A timer may fire as soon as its subject exists, which includes every
  real timing. `offered` holds a stamp instead of a time: a new offer gets one that differs from
  what any scan in flight has read, because a ring timeout is at least seconds long and
  `offered_at <= expiredBefore` cannot hold for an offer made after the scan. `rung` records that
  the current offer has rung its timeout.
* **Arrival** (`Arrive` … `NewWaits`): the row is created; unless the queue is RING_ALL or an older
  call waits, a member is claimed (`claimForNewCall`, `claimAgentAndAssignCall`); else the call
  waits and the tenant's queues are drained. A claim reads the guard of the agent row and of the
  call row in one transaction.
* **Accept** (`PostJoin` … `Failed`): `handleAgentJoined` statement by statement: checks, accept
  claim, hold, media, the provider's answer, second claim, `RINGING → IN_PROGRESS`, and the error
  path. The three reads at the start (capacity, other active call, status) are one step, because
  each is followed by a guarded claim that does not trust them.
* **Decline and ring timeout** (`PostDecline` … `Miss`): both pass the offer on: withdraw (guarded),
  record, release, then the miss policy and a drain of the queue. A RING_ALL call is only dismissed,
  unless the agent has taken it: then the decline ends it.
* **Max wait** (`WaitScan` … `EnterQueue`): the move to the overflow queue is guarded on the queue
  and agent the scan saw; whoever was rung is released afterwards; the new queue offers the call.
* **End** (`HangUp`, `MediaLost`, `ProviderEnd`, `NoAnswerScan`, `WaitScan` → `CommitEnd`/`EndLost`
  → `Settle`): every path reads the call first and commits with its own guard: unconditional,
  `onlyIfStatus RINGING`, or the provider's failure, which overrides a `TERMINATED`. Who commits
  settles with the row as read before: releases the agent, drains, closes the media. The wait for
  the provider and the notifications in between change no row and are not steps.
* **Drains** (`StartDrain` … `DrainNobody`): the queues with waiting calls, for each the members and
  the waiting calls as read, then claims in call order; an attempt repeats if another worker took a
  call. Which queue and which candidate come first is left open; the code's order is one of the
  choices.
* **Sweep**: `releaseAgentsOfEndedCalls` of the cleanup loop.
* **Crash**: a handler, drain or pending drain of a worker vanishes where it was. The rows stay.
* **Sent by others**: accepts and declines as `CallAccess.asAgent` admits them, hang-ups, provider
  ends and failures, shift changes (`SetAvailability` also stands for the drain of a client's
  resync) and reconnects of a ringing client. All are free to happen or not.

The bounds are constants with their role in the comment next to them: `MaxMessages` (handlers in
flight when a message is taken), `MaxWork` (the same for scans), `MaxDrains`, `MaxRequests` (shift
changes, resyncs, provider failures), `MaxCrashes`. They limit how much is concurrent, never
what a handler does.

### `CallHandover`

One answered call and the handlers of `TransferEventHandler`, `AgentEventHandler`,
`QueueTimeoutService`, `ConnectionEventHandler`, `CustomerNetworkLossPolicy` and `Deadlines`.

* A transfer is `ClaimTarget`, `Move` (or `MoveConflict`, `UndoClaim`), `MarkHandover`,
  `FreeSource`, `DropSource`, `OfferTarget`: the order of the statements in the handler. Whether the
  handover is marked depends on the status read at its start.
* An accept branches on the row as the code does: `ClaimHandover` for an answered call, `ClaimOffer`
  for a ringing one. `HandoverScan` reads; `ReturnHandover` and `ExpireHandover` write with the
  guard of `returnHandoverToQueue` and `expireHandover`.
* `deadlines` is the call's part of `callio:deadlines`; `DeadlineDue` takes a deadline away before
  its handler acts, and `Crash` may lose that handler.
* How a queue picks the next agent is one step (`QueueOffers`): that is `CallRouting`'s subject.
* Seconds against milliseconds: while a transfer has statements left that follow one another without a
  wait (`Moving`), no time-out and no answer of the new target comes in between.
* Left out: the network *warning* (it changes no state), a reconnect without an SDP offer, declines
  by an agent who is answering. The agent on the call reconnects only when it is in progress.

### `ProviderEvents`

One call, inbound or outbound, between the provider (`line`, `net`: external, from how the channel
translators use it) and the handlers of `ChannelIngress`, `InitiationEventHandler`, the stuck-call
and intent scans, and `CallOwnershipService`. Each event may be handled by any worker, concurrently
with the others, in any order and again (`MaxExtras`).

* The arrival looks for the tombstone before and after the row is inserted (`CheckTombstone`,
  `CreateCall`, `LateCheck`); the end writes it after it has looked twice (`LookUpAgain`, `Entomb`).
* Status handlers write on what they read (`RingTime` … `AnswerStatus`), with no guard, as the code.
* `Claim` and `SettleClaim` are the ownership of the provider's call id; `SweepClaims` the scan of it.
* An agent's accept, and the IVR, are one step or left to their modules.

### `CallInbox`

One call and the workers. A worker is one run of a process, because the lease names the boot. `job` is
an arrival or an adoption between two commands, `phase` a shutdown between two steps of
`shutdown.js`, `snap` the stored room. The cursor is saved after the read (`Read`, `SaveCursor`) and the
handlers of inputs run on their own (`Handle`). Crashes, shutdowns and stalls that let a lease lapse
are bounded together by `MaxFaults`; one other worker stays up. A set-up under way settles before
its worker is shut down, and the lease does not lapse during it.

### `IvrSession`

The session, its engine with its timers and its prompt, the two callers of `stopSession` (the flow
and the end of the call), and `IvrTransferHandler` between its awaits. `latch` is
`_completedCallIds`, `early` the guard of `startSession`, `hears` the listeners. A crash forgets the
memory; `Adopt` resumes at the saved node and runs its flow again. A prompt that fails plays the error
message or, without one, hangs up at once, also at the first node (`HangsUpAtOnce`). The end may come
on this worker or another. The agent's answer after the transfer is `CallRouting`'s. Not modelled: a
shutdown during a transfer, and a caller whose worker dies before the first position is saved (no IVR after that).

### `CallRooms`

`chain` is the room's queue of operations (`_serial`): handlers (`work`, in two slots) put operations
into it and wait; an operation begins, may fail at the media server (`MaxFailures`) after it has taken
away what it replaces (`begun`), and acts on the room it finds. `late` are operations queued on a
room that was closed meanwhile, `stray` the legs they leave; `SweepOrphans` and `Reconcile` collect.
Every operation that creates, answers or joins a leg, plays a sound or applies the rules can fail, at any
of its commands: `BridgeFails` stops where `bridge` gives up (the customer's join, the hold music's stop,
an agent's join, the tone's stop, the rules), `Plays` is a sound that the media server refuses (logged) or
that fails the operation, `JoinFailsHere` a supervisor whose new leg fails after the old one went.
`unheard` is history: a failed command has left the customer without what was to be heard next (hold
music, tone, or an agent's leg), and no bridge has succeeded since. `SilenceEnds` excuses that state and
nothing else; Disagreements lists the ways into it. It is about a customer in the conference: one
whose join failed is not in it, and hears nothing either.
The call begins ringing or already monitored. Hold's end, players, recording and the snapshot are left
out; crash and adoption are `CallInbox`'s.

### `AgentLine`

A call of a personal line, the agent's devices with one SDK page each (`CallioAgent`, `Call`), their
sockets, the gateway (`socketHandlers`, `connectionHandler`, `delivery`) and `DirectMedia`.
`up[d]` are requests, handled side by side as the gateway does; `down[d]` are events, in order.

* A handler is one step but for two waits: the accept for the agent's audio (`AudioArrives`,
  `NoAudio`) and `calls:list` between read and send (`Sync`, `SendList`).
* `Drop` loses what is on its way both ways; what a page emits while it has no socket is buffered by
  the client and kept in `up`. `ghost` is a socket whose end the gateway has not noticed yet.
* The list leaves out what is over, and may leave out a call that rings (older than a minute, which
  `CallQueryService` gives to the cleanup). `call:handled` ends a ringing page but that of the device
  that answered. `overtaken` says that a list with the call in it was sent after the call's end: only
  then may a page keep an ended call.
* A page has one `Call` object in its life (`_resolved`). `asks` are microphone prompts, `armed` the
  15 s timer of a peer connection.
* Bounds on timing: one message at most on its way to a page (`MaxOnTheWay`), a page's request is
  handled before the page goes on unless its handler waits (`Quiet`), a second drop comes after the
  first was noticed, no switch while a prompt is open.
* `WorkerDies` is a worker's death and the adoption by another in one step; the gap between is
  `CallInbox`'s. Other calls, queue capacity, TURN, supervisors and outbound calls are left out.

### `CallPushes`

One call of a queue, the notifications of `CallPushNotifier` (`notices`, tokens read when it gets to
it), pushes under way (`sends`, with retries), what rings on each phone, and
`PushTokenRepository`. Phones and push services are external. Registrations of one device are
serial; a device changes hands only before the call is over. The overflow queue has the same members.

### `ConsumerEvents`

The row of one event, the workers that see its transition (`publisher`), and the dispatcher of each
worker between reading and marking (`dispatcher`), under a lease that may lapse when a tick takes too
long. A mark that fails is tried once more, as a failed attempt, from the handler of the error
(`OutboxDispatcher.js:116-118`), also when it was the mark of a delivery. Subscriptions, payloads and
signing are left out, and so is a statement that took effect although it reported an error: it would count
one attempt twice. `sent` saturates at `MaxAttempts`.

### `IdempotentRequests`

The key's row and the requests under way at `claim`, `find`, `remove`, `takeOver`, `run`, `store`, one
statement each. `excused` and `overlaps` count what the code does not promise: effects and answers
that were lost with a worker, failed (5xx), came after the two minutes, could not be stored, or
expired. A key expires with no handler running (24 h against minutes).

### `CallData`

The calls of one customer, each recorded or not. `recorder` is the worker's part in a recording
(`RoomRecorder`), `object` the file in storage, `request` a deletion or erasure between statements
(`CallErasure`), `sweep` the retention sweep. `recorder = "over"` also stands for the waits of ten and two
minutes: `FailStale` comes when nobody works on the recording any more. A given-up upload whose
file is stored counts as a fault. The instance has one request at a time, which may be repeated when
refused; the module, and its theorems, have any number side by side. `before` and `sure` are history: the
calls that had ended when an erasure was asked for, and those whose end was announced and whose
recording was settled when the request read them. `Overtaken` names the erasures that are answered
early: its whole batch was deleted by others (`if (!erased) break;`, `CallErasure.js:69`). The sweep lists
expired recordings in batches (`PurgeBatch` for 100), and goes on while a batch made progress. Its minute
(`BUDGET_MS`) may be over at any of its parts, which is a fault and leaves the rest to the next sweep
(`SweepDetail`, `ListDone`); like every fault that happens `MaxFaults` times. So `ExpiredIsPurged` does
not speak of a backlog that uses up every sweep before the recordings' turn, nor of a hundred files that
can never be deleted and stand before all others: both hold a purge up without end. Anonymising is
one step; the retention of events, storage not configured and quotas are left out.

## Runs

| Run | Instance | Properties and what they show |
|---|---|---|
| `routing_calls` | 2 calls, 2 agents, a RING_ALL queue with max wait, a queue with ring timeout, one overlapping message, two scans, one provider failure or shift change | `OfferHoldsAgent`, `AnsweringCallIsKept`, `FinalIsFinal`, `SettledByItsEnder`; `OffersSpec`: routing implements `CallOffers` |
| `routing_liveness` | 1 call, 1 agent, two queues that overflow into each other, drains, one crash, fairness | `TypeOK` (with it the bound on overflows), `OnlyRungOffersTimeOut`, `EndedCallsLetGo`, `WaitingComesToAnEnd` |
| `handover` | 2 agents, 2 events (transfer, page lost, audio lost, crash), 2 handlers at once | `AcceptedHandoverStays`, `LostAgentIsNotAwaitedForever`, `HandoverComesToAnEnd` |
| `provider` | 1 inbound or outbound call, one repetition or hang-up, 2 handlers at once | `EndedFirstRingsNobody`, `HeldAgentIsSettled`, `InboundNoAnswerIsCorrected` |
| `inbox` | 2 workers, 1 input and the notice of the end, 1 crash, shutdown or stall | `OneOwnerAgain`, `InputsAreRead`, `EndedCallsAreForgotten` |
| `ivr` | greeting, two menus, queue, hang-up and a node without audio; 2 keys, 1 crash | `NoAgentDuringTheFlow`, `SessionComesToAnEnd`, `EndedCallsEndAgain` |
| `rooms` | 2 agents, 1 supervisor, 2 handlers at once, 2 requests, 1 failed operation | `PrivateReplyEnds`, `SilenceEnds`, `EndedCallsKeepNoLegs` |
| `agent_line` | 2 devices, 1 or both open, 1 fault, 1 switch | `EndedCallIsLetGo`, `OnePageTalks`, `CustomerIsHeardAgain` |
| `call_pushes` | 2 agents with an iPhone and an Android phone, 2 attempts, 2 extras | `AnsweredDeviceIsSpared`, `RingsAreStopped`, `SignedInDevicesAreReached` |
| `consumer_events` | 2 workers, 3 attempts, 2 faults, 1 redelivery | `DoneIsWritten`, `EventIsSettled` |
| `idempotency` | 2 requests that may differ, 2 faults, 1 expiry | `NothingRunsTwice`, `SameAnswer`, `KeyIsSettled` |
| `call_data` | 2 calls, both recorded, or one of them beside a request; batches of 1, 1 fault | `ErasedLeavesNothing`, `PurgedIsGone`, `EndedCallsAreErased`, `RecordingSettles`, `ExpiredIsPurged` |

Each property is stated in words, with the code it is about, where it is defined.

**Why these bounds.** The races are between two handlers (or a handler and a timer, or two workers):
two of each is enough for one to overtake the other, and a third only repeats it. Two calls with two
agents are the least for an agent claimed twice, a stolen release and a drain that finds its call
taken. `MaxOverflows` is 1 instead of 3: a loop of two queues returns to its start with one more hop,
which the bound then forbids. `routing_calls` has no drains and no crash, because with them two calls
take longer than five minutes; they are in `routing_liveness`, and the safety properties are proved with
them for any instance. One fault at a time (`inbox`, `agent_line`, `rooms`, `call_data`) shows that
the code recovers from each; where a second fault hits the recovery itself (`idempotency`,
`consumer_events`) there are two. `Batch = 1` makes an erasure of two calls work in several
batches, `PurgeBatch = 1` a sweep of two recordings. `MCCallData` starts with the request answered where
both calls are recorded, since a request beside two recordings takes longer than five minutes; the
theorems have any number of both.
Deadlock checking is off except for `consumer_events`: a call that is over and whose bounds are used
up stops.

**Faults.** Every property has a mutant in `PROJECT.json`: a change of the kind a maintainer could make (a
`WHERE` condition dropped, a release that does not ask for which call, a cursor that starts at
the end). TLC finds each property violated under its fault.

**Fairness.** Workers keep running: a handler that has begun goes on (WF per operation, not per
statement), scans and sweeps run from `setInterval`, a stored deadline that is due is claimed, a lease
of a dead worker lapses, a stopped worker is started again. Strong fairness is assumed in three places:
`MoveToOverflow` (the scan takes milliseconds, an offer rings for seconds), `LookForOrphan` (an
adopter's scan comes by again and again), and the consumer who repeats a request until it is answered
(`KeyIsSettled` is about that consumer). In `AgentLine` sockets reconnect, since the client retries
without end, prompts are answered, peer connections connect or fail. Nothing is assumed of customers,
providers, agents who need not accept, or unopened pages. Who may stop for good is excused in the
property itself, visibly: `LostAgentIsNotAwaitedForever` holds while no worker dies,
`SessionComesToAnEnd` unless the flow was replayed, `SilenceEnds` unless a failed command left the
customer with nothing to hear (`unheard`), `EndedCallsAreForgotten` unless a worker was stalled, and
`AgentLine` excuses a page that gave up silently or that nobody watches. The next section says why.

## Disagreements between the code and its own words

Found while the models were written and checked. The code is as it is in the models; the properties
above say what does hold.

Routing

* "An agent must not accept a second call while already on one" (`AgentEventHandler.js:60`): a read
  before the claim. Two accepts of one agent for two RING_ALL calls both pass.
* A waiting call is "picked up as soon as someone is free" (`ChannelIngress.js:388-389`): an agent of
  two queues who declines is free, but only the declined call's queue is drained.
* Side effects of an end "run once" (`CallTerminator.js:3-4`): a provider failure upgrades a
  `TERMINATED` call on purpose, and settles it again as well.
* An unanswered call overflows or ends after `max_wait_seconds` (`QueueTimeoutService.js:6-7`): when an
  accept fails after its claim, the call keeps its agent without an offer time and no scan sees it.
* A decline must not end a call that was answered meanwhile (`RejectionEventHandler.js:32-34`): a
  RING_ALL decline by the agent who is just accepting does.

Transfer and reconnect

* A reconnect deadline is for the agent who was lost (`ConnectionEventHandler.js:27-42`): a transfer
  leaves it, and it ends the new agent's call. A socket's loss noticed late has the same effect.
* A queue transfer that picks the agent who is already on the call leaves the claim behind
  (`TransferEventHandler.js:50`).
* `offered_at` on a call in progress is "a handover waiting for the target to accept"
  (`CallRepository.js:529-530`): `markHandoverOffered` asks for the agent and the status only. When an
  agent's accept of an earlier handover completes between the move and the mark of another transfer to
  the same agent, an accepted call is marked, and its time-out takes it back or ends it. The variable
  `remarked` of `CallHandover` records this case, and `AcceptedHandoverStays` excuses it by name; it takes
  two transfers and a third event, so the run's two events do not reach it.
* A late accept beside a transfer can leave two agent legs (`AgentEventHandler.js`, the leg is set
  up before the claim is confirmed).

Provider

* `NO_ANSWER` beside an `answered_at` is corrected for inbound calls only (`CallRepository.js:453-456`).
* "RINGING still takes the answer" (`ChannelIngress.js:524-526`): after `ACCEPTED` it does not, and
  the order of the two is not guaranteed.
* A consumer's cancel is for calls not dialled yet (`callRoutes.js:194-196`): one that races
  `call:start` ends the row of a call that is then dialled.
* A hang-up before the provider has returned its call id does not tell the provider
  (`CallTerminator.js:113`).

Inbox

* Shutdown hands "the calls held here over" (`shutdown.js:72`) while adoption goes on until a later
  step: the leaving worker may take the call back, and closes its room.
* The next owner reads what its predecessor "has not processed": the cursor moves before the handlers
  run (`CallInbox.js:263`).
* A worker that stalls past its lease may add an ended call to the leased set again.

IVR

* Replay after the flow's end (`IvrEngine.js:100-101`) restarts with an input handler that is gone: it
  throws and the caller hears nothing.
* The transfer's unguarded `updateCallState` can bring an ended call back to `RINGING`; the stuck-call
  scan ends it again (`EndedCallsEndAgain`).

Rooms

* "One supervisor per call" (`docs/agent-protocol.md:152`): the check precedes the queued operation, so
  two join (`MonitorEventHandler.js:33`). A repeated `monitor:answer` removes the active supervisor.
* Whispering unmutes the supervisor before the customer stops hearing them (`RoomMedia.js:189-190`).
* "The customer hears the reconnect tone until one joins" (`docs/architecture.md:415-416`,
  `docs/agent-protocol.md:294`), unless a command of the media server fails. `bridge` stops the hold
  music before it joins the agents and gives up at the first join that fails (`RoomMedia.js:346-347`): the
  customer is in the room with no agent and no sound, and nothing tries again but a later bridge.
  `startHold` and `dropAgent` note a sound as playing before they ask for it (`holdOn`, `toneOn`, 202-203,
  487-488): a refused `play` is only logged, and never asked for again. A failed `answerAgent` after the
  old leg was destroyed leaves silence (287-299).
* An accept that fails after its leg was taken, and a failed `supervisorAnswered`, leave their legs.
* A late disconnect of an old socket drops the new leg.

Agent line

* A page that only blips and comes back with its media alive never clears the 120 s deadline
  (`docs/agent-protocol.md:309-311`), which then ends a healthy call; so does closing the old device's
  page after a switch.
* A call that was resolved on a page never rings there again, although it may be offered anew
  (`CallioAgent.js:222-225`).
* `getUserMedia` that resolves after the call's end leaves the microphone on (`Call.js:151-168`); a
  prompt longer than 15 s kills the accept or leaves a page nobody watches.
* An accept lost with its socket makes the page `active` on a ringing call after the reconnect.
* `_awaitAgentAudio` counts packets of an earlier leg (`DirectMedia.js:145-156`).

Consumer events, pushes, stored data

* A redelivered event "gets the full retry schedule" (`OutboxRepository.js:61-62`); a dispatcher that
  read the old attempts may still give it up.
* A cancel must not reach the device that answered (`CallPushNotifier.js:149-151`): one that was begun
  before the answer, or is repeated, does. Web rings are never cancelled.
* "Nothing is changed then" when a file cannot be deleted (`docs/management-api.md:580`): files before
  it in the list are gone already. An upload that lands after its row was settled leaves a file that
  nothing refers to (`docs/management-api.md:567`).
* An erasure reaches "every ended call" of the customer (`docs/management-api.md:571-576`): when others
  have deleted the whole of a batch in the meantime, it ends there and answers with success, whatever
  batches are left (`Overtaken` in `CallData`). `activeCallsSkipped` is counted after the last batch.

## Proofs

TLC checks the instances above; TLAPS proves the following for every value of the constants that
satisfies the named assumptions of the module. The assumptions say what identifiers are (`None` is
none of them, call ids are positive integers and ascend with time, members and overflow targets are
agents and queues) and that bounds are natural numbers. Every safety property that a run checks is
stated by a theorem. No theorem needs fairness.

| Module | Theorem | Property |
|---|---|---|
| `CallRoutingProofs` | `OffersHoldAgents`, `OneOfferAtATime` | `OfferHoldsAgent`, `OneOfferPerAgent` |
| | `AnsweringKeepsCall` | `AnsweringCallIsKept` |
| | `FinalCallsStayFinal`, `EndersSettle` | `FinalIsFinal`, `SettledByItsEnder` |
| | `TimedOutOffersRang` | `OnlyRungOffersTimeOut` |
| | `RoutingImplementsOffers` | `Spec => Offers!Spec` with `phase` and `who <- agent` |
| `CallHandoverProofs` | `AcceptedHandoversStay` | `AcceptedHandoverStays` |
| `ProviderEventsProofs` | `EndedFirstIsSilent` | `EndedFirstRingsNobody` |
| | `HeldAgentsAreSettled` | `HeldAgentIsSettled` |
| `IvrSessionProofs` | `FlowKeepsAgentsOut` | `NoAgentDuringTheFlow` |
| `CallPushesProofs` | `AnsweredDevicesAreSpared`, `StoppedRings`, `SignedInReached` | `AnsweredDeviceIsSpared`, `RingsAreStopped`, `SignedInDevicesAreReached` |
| `ConsumerEventsProofs` | `DoneStaysWritten`, `VerdictsAreEarned` | `DoneIsWritten`, `VerdictIsEarned` |
| `IdempotentRequestsProofs` | `EffectsExcused`, `AnswersAgree` | `NothingRunsTwice`, `SameAnswer` |
| `CallDataProofs` | `ErasedIsGone`, `ErasuresReachAll`, `PurgedFilesAreGone` | `ErasedLeavesNothing`, `EndedCallsAreErased`, `PurgedIsGone` |

Besides these, each module has `TypeCorrect` (`TypeOK`; in `CallRouting` it holds the bound on
overflows) and the invariance of its inductive invariant `IInv` (`Invariance`, in `CallRoutingProofs`
`InductiveInvariant`). Every `IInv` was checked by TLC on the run's instance before it was proved. A
proof has one lemma per group of actions, one step per action, and below it one step per conjunct the
action can disturb; types and the conjuncts that say something are preserved separately.

**`CallRouting`.** That a ringing call holds its agent (`OfferHoldsAgent`) does not follow from
itself: a handler on its way to `releaseFromCall(agent, call)` would free the agent under a new offer of
the *same* call, which the exactness of the release cannot tell apart. `IInv` adds what the handlers in
flight know:

* `PassingHoldsAgent`: until it releases them, a handler that took an offer from an agent knows that
  the call still holds them and does not ring them. The claim's `busy_call_id IS NULL` keeps
  everyone from offering the call to that agent again before.
* `OnePassPerOffer`: only one handler passes a given offer on (the withdrawal is guarded on it).
* `AnsweringOwnsCall`: from its claim on, an accept in flight has the call, with no offer time.
* `RowsConsistent`, `HandlersConsistent`: an answered call has an agent; only ended calls are
  settled; a handler's fields are set as its stage needs; one handler overflows a call at a time.

The action properties follow from `IInv` and lemmas on which steps change a row (`RowSteps`) or start to
settle (`SettleSteps`). For the refinement, `OffersMoves` reduces a step to the move of the one call
whose row it changes, and `OffersNext` names the step of `CallOffers` for each action. That a missed offer
has rung its whole timeout needs two more facts: a call has one scan's handler at a time
(`OneScanPerCall`), and while the offer that it read stands, that offer has rung (`ScannedOffersRang`): a
new offer's stamp differs from what a scan in flight has read. The second needs the first, since a
handler on its way forces new stamps only to differ from its own.

**`CallHandover`.** `AcceptedIsNotOffered`: a call that its agent has accepted has no offer time unless a
later transfer marked it. Every statement that offers the call changes the agent or is that mark, and
the time-outs' `offered_at IS NOT NULL` does the rest. `TaskConsistent` says which agents a handler at
a stage has, so that a time-out never finds `None` in the row.

**`ProviderEvents`.** `ArrivalInv`: at most one handler is past the creation of the row, and none while
there is no row. Where the end came first and its tombstone has not lapsed, nothing was shown, no
handler is past its second look, and as long as one may still look (no row yet, or at `late`) the
tombstone is there. The second look, after the insert, is what makes this inductive: with the first one
alone, an end between the look and the insert is missed. `HeldInv`: who ends a call that holds an agent
is at `settle`, or at a correction of the reason before it; only settling lets the agent go.

**`IvrSession`.** `FlowInv`: while the session is set up, the engine runs or the transfer may still start
the flow again, the row has no agent and says `IVR` unless the call is over. For that the flow's own stop
is not under way then, the end's stop only once the call is over, and a stopped engine is silent, so that
no key or timer starts it again. It holds until a crash: a resumed session runs its flow again although the
transfer may have been made, which `Resumes` marks and `NoAgentDuringTheFlow` excuses.

**`CallPushes`.** `TokensInv`: what is stored, sent or about to be stored is no newer than its device's
token, and what is about to be deleted is older, so a deletion never takes a new registration with it.
`RegisterInv`: the newest token of a device is with one agent, the registered one or the one of the
single registration under way. `AnswerInv`: before an answer nothing tells of one; after it the notices
spare the device that answered and its agent, and no push to it has the token that it has now. `RingInv`:
a device that rings, and that can be told, has its offer standing or a cancel on its way.

**`ConsumerEvents`.** `AttemptsAreSent` counts: until the event has been sent `MaxAttempts` times,
the row's attempts and the requests whose outcome is not recorded yet are no more than what was sent, and
the same for what each dispatcher has read. Two dispatchers after a lapsed lease may send too much, never
too little. `TriesLeft`: a worker that is not done with writing has a try left.

**`IdempotentRequests`.** Two sums over a finite set of requests. An *opening* is a state of the row that
lets a handler start: no row, an expired one, or one in progress without an owner. Effects, handlers that
have yet to run and openings are at most one more than what is excused (`EffectsAccounted`); answers,
handlers that run and openings at most one more than the overlaps (`AnswersAccounted`). Claims and
take-overs turn an opening into a handler, `Run` spends it, and a stored answer closes the key. Only a
store that failed, a death, two idle minutes and an expiry open it again, and each of them counts as an
excuse. `RowConsistent` adds that a replayed answer was given and that only expired rows are removed.

**`CallData`.** `RowsFollowFiles` and `SweepFollowsFiles`: a row that is completed or purged is nobody's
work any more, no upload is on its way then, and the sweep marks a row only after its file is gone.
`BatchesHaveEnded`, `RequestsAreSure`: of each call it is sure of, a request in its batch either has the
file to delete or the file is gone, and before the last statement the events are gone too.
`ErasedStaySilent`: nothing will write about such a call any more. `ErasuresReachAll` needs that a batch
takes the calls in order, by a lemma on the least elements of a set.

**Only model-checked.** Liveness under fairness and ENABLED are out of the prover's reach, so every
property that something eventually happens stays with TLC: those of `CallRooms`, `CallInbox` and
`AgentLine`, which are all of this kind, and `EndedCallsLetGo`, `WaitingComesToAnEnd`,
`LostAgentIsNotAwaitedForever`, `HandoverComesToAnEnd`, `InboundNoAnswerIsCorrected`,
`SessionComesToAnEnd`, `EndedCallsEndAgain`, `EventIsSettled`, `KeyIsSettled`, `RecordingSettles` and
`ExpiredIsPurged`. So does induction over data; no theorem needs it, and no module declares a recursive
operator.

## What the model leaves out

Beside what the modules' sections say: the refusal of calls by a full queue (an `Arrive` that ends at
once); the length of the miss streak (whether an agent goes OFFLINE after a miss is a choice); the
order of equal candidates (round robin, priority, the stored order of `CallAgentAssignmentService`);
two ring-timeout handlers of one call at once (a scan awaits each pass, and one worker scans at a time as
long as its lock of 30 s holds); which worker a handler runs on, as far as no memory of a
worker is concerned; the claim of an offer and its delivery to the agent, which are one step in
`CallRouting` and apart in `AgentLine` and `CallPushes`. Queue order, the management API, reports,
boards and presence have no module: they order or show what the rows say and decide nothing above.

## Plan

* Composition of `CallInbox` with `CallRooms`: a room that is adopted while its operations are queued.
* The queue order as a read, reconcile and write beside its other writers.
* Larger instances of `routing_calls` (drains and two calls together) outside the five minutes.
* Safety lemmas about `CallInbox`'s lease and `AgentLine`'s messages on which their liveness rests.
