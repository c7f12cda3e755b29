------------------------------ MODULE CallInbox ------------------------------
(***************************************************************************)
(* The one worker that runs a call, and what happens to the call when that *)
(* worker dies, stalls or is shut down (CallInbox, CallAdoption and the    *)
(* room that RoomMedia keeps for it).                                      *)
(*                                                                         *)
(* Redis holds the call's lease, its membership in the set of leased       *)
(* calls, the stream of inputs with the owner's cursor, and the snapshot   *)
(* of the room; a worker's memory holds what it owns, how far it has read, *)
(* and its room.  A worker is one run of the process (bootId), so a        *)
(* restarted one is another worker.                                        *)
(***************************************************************************)
EXTENDS Integers, FiniteSets

CONSTANTS
    Workers,        \* runs of the process
    None,
    MaxInputs,      \* bound: inputs posted for the call, notice of its end aside
    MaxFaults       \* bound: workers that die or are shut down, and leases that
                    \* lapse under a live worker, all together

ASSUME NoneAssumption == None \notin Workers
ASSUME BoundsAssumption == MaxInputs \in Nat /\ MaxFaults \in Nat

VARIABLES
    lease,      \* callio:call:<id>:lease
    leased,     \* the call is in callio:calls:leased
    stream,     \* inputs in callio:call:<id>:inbox
    cursor,     \* callio:call:<id>:cursor
    snap,       \* the room's snapshot exists
    legs,       \* the call's legs are up on the media server
    maker,      \* the worker whose tag the legs carry
    over,       \* the call's row has a final status
    phase,      \* a worker's life, and how far its shutdown is
    owned,      \* workers that hold the call in callInbox.owned
    reading,    \* those of them with a handler
    last,       \* how far each has read
    saving,     \* the cursor each is writing
    room,       \* workers that have a room for the call
    job,        \* set-up of the call, or the take-over in progress, per worker
    running,    \* inputs being handled: <<worker, input>>
    purging,    \* workers about to drop the inbox of the ended call
    ending,     \* workers that ended the call but have not told the owner
    posted,     \* inputs posted so far
    notice,     \* the input that tells the owner of the call's end; 0: none
    started,    \* inputs whose handler ever started
    faults      \* workers that left, and leases that lapsed under a live one

redis == <<lease, leased, stream, cursor, snap>>
memory == <<phase, owned, reading, last, saving, room, job>>
inputs == <<running, purging, ending, posted, notice, started>>
vars == <<redis, legs, maker, over, memory, inputs, faults>>

Inputs == 1 .. MaxInputs + 1
Phases == {"up", "roomsGone", "leaseGone", "mediaStopped", "adoptionStopped", "gone"}
Kinds == {"arrive", "adopt"}
Stages == {"row", "forget", "lease", "cursor", "add", "rebuild", "giveUp", "forgetLive",
           "read", "legs", "save"}
Jobs == [kind : Kinds, at : Stages] \cup {None}

FaultsSoFar == faults.exits + faults.stalls
Alive == {w \in Workers : phase[w] # "gone"}
Owners == owned \cap Alive

TypeOK == /\ lease \in Workers \cup {None} /\ leased \in BOOLEAN
          /\ stream \subseteq Inputs /\ cursor \in 0 .. MaxInputs + 1
          /\ snap \in BOOLEAN /\ legs \in BOOLEAN /\ maker \in Workers \cup {None}
          /\ over \in BOOLEAN /\ phase \in [Workers -> Phases]
          /\ owned \subseteq Workers /\ reading \subseteq owned
          /\ last \in [Workers -> 0 .. MaxInputs + 1]
          /\ saving \in [Workers -> 0 .. MaxInputs + 1]
          /\ room \subseteq Workers /\ job \in [Workers -> Jobs]
          /\ running \subseteq Workers \X Inputs
          /\ purging \subseteq Workers /\ ending \subseteq Workers
          /\ posted \in 0 .. MaxInputs + 1 /\ notice \in 0 .. MaxInputs + 1
          /\ started \subseteq Inputs
          /\ faults \in [exits : 0 .. MaxFaults, stalls : 0 .. MaxFaults]

(* A call has arrived at some worker, which sets it up.                    *)
Home == CHOOSE w \in Workers : TRUE

Init == /\ lease = None /\ leased = FALSE /\ stream = {} /\ cursor = 0 /\ snap = FALSE
        /\ legs = FALSE /\ maker = None /\ over = FALSE
        /\ phase = [w \in Workers |-> "up"]
        /\ owned = {} /\ reading = {} /\ last = [w \in Workers |-> 0]
        /\ saving = [w \in Workers |-> 0] /\ room = {}
        /\ job = [w \in Workers |->
                     IF w = Home THEN [kind |-> "arrive", at |-> "lease"] ELSE None]
        /\ running = {} /\ purging = {} /\ ending = {}
        /\ posted = 0 /\ notice = 0 /\ started = {}
        /\ faults = [exits |-> 0, stalls |-> 0]

-----------------------------------------------------------------------------
At(w, at) == job[w] # None /\ job[w].at = at
Goto(w, at) == job' = [job EXCEPT ![w] = [@ EXCEPT !.at = at]]
Done(w) == job' = [job EXCEPT ![w] = None]

(* Nothing left in the inbox, the call no longer in the leased set.        *)
DropInbox == leased' = FALSE /\ stream' = {} /\ cursor' = 0

(* release(): the lease goes if it is this worker's.                       *)
Release(w) ==
    /\ owned' = owned \ {w} /\ reading' = reading \ {w}
    /\ lease' = IF w \in owned /\ lease = w THEN None ELSE lease

(* close(): the legs, the room and its snapshot, where there is a room.    *)
CloseRoom(w) ==
    IF w \in room THEN room' = room \ {w} /\ legs' = FALSE /\ snap' = FALSE
    ELSE UNCHANGED <<room, legs, snap>>

-----------------------------------------------------------------------------
(* Taking the call: own() at its set-up, claim() and read() for a          *)
(* take-over.                                                              *)

ClaimLease(w) ==
    /\ At(w, "lease")
    /\ \/ w \in owned /\ Goto(w, IF job[w].kind = "arrive" THEN "read" ELSE "rebuild")
          /\ UNCHANGED lease
       \/ w \notin owned /\ lease \in {None, w} /\ lease' = w /\ Goto(w, "cursor")
       \/ w \notin owned /\ lease \notin {None, w} /\ Done(w) /\ UNCHANGED lease
    /\ UNCHANGED <<leased, stream, cursor, snap, legs, maker, over, phase, owned, reading,
                   last, saving, room, inputs, faults>>

(* Fault: an adopter starts with what is posted from now on.               *)
SkipToEnd(w) ==
    /\ At(w, "cursor")
    /\ owned' = owned \cup {w} /\ last' = [last EXCEPT ![w] = posted]
    /\ Goto(w, "add")
    /\ UNCHANGED <<redis, legs, maker, over, phase, reading, saving, room, inputs, faults>>

TakeCursor(w) ==
    /\ At(w, "cursor")
    /\ owned' = owned \cup {w} /\ last' = [last EXCEPT ![w] = cursor]
    /\ Goto(w, "add")
    /\ UNCHANGED <<redis, legs, maker, over, phase, reading, saving, room, inputs, faults>>

AddLeased(w) ==
    /\ At(w, "add")
    /\ leased' = TRUE
    /\ Goto(w, IF job[w].kind = "arrive" THEN "read" ELSE "rebuild")
    /\ UNCHANGED <<lease, stream, cursor, snap, legs, maker, over, phase, owned, reading,
                   last, saving, room, inputs, faults>>

StartReading(w) ==
    /\ At(w, "read")
    /\ reading' = IF w \in owned THEN reading \cup {w} ELSE reading
    /\ IF job[w].kind = "arrive" THEN Goto(w, "legs") ELSE Done(w)
    /\ UNCHANGED <<redis, legs, maker, over, phase, owned, last, saving, room, inputs, faults>>

(* The first leg makes the room, which is saved afterwards.                *)
MakeLegs(w) ==
    /\ At(w, "legs")
    /\ legs' = TRUE /\ maker' = w /\ room' = room \cup {w}
    /\ Goto(w, "save")
    /\ UNCHANGED <<redis, over, phase, owned, reading, last, saving, inputs, faults>>

SaveRoom(w) ==
    /\ At(w, "save")
    /\ snap' = (snap \/ w \in room)
    /\ Done(w)
    /\ UNCHANGED <<lease, leased, stream, cursor, legs, maker, over, phase, owned, reading,
                   last, saving, room, inputs, faults>>

-----------------------------------------------------------------------------
(* CallAdoption: each worker looks for leased calls without a lease.  The  *)
(* timer is stopped late in a shutdown.                                    *)

LookForOrphan(w) ==
    /\ phase[w] \in Phases \ {"adoptionStopped", "gone"}
    /\ job[w] = None /\ w \notin owned /\ leased /\ lease = None
    /\ job' = [job EXCEPT ![w] = [kind |-> "adopt", at |-> "row"]]
    /\ UNCHANGED <<redis, legs, maker, over, phase, owned, reading, last, saving, room,
                   inputs, faults>>

CheckRow(w) ==
    /\ At(w, "row")
    /\ Goto(w, IF over THEN "forget" ELSE "lease")
    /\ UNCHANGED <<redis, legs, maker, over, phase, owned, reading, last, saving, room,
                   inputs, faults>>

(* Fault: an ended call's state goes, its place in the leased set stays.   *)
DropStateOnly(w) ==
    /\ At(w, "forget")
    /\ snap' = FALSE
    /\ Done(w)
    /\ UNCHANGED <<lease, leased, stream, cursor, legs, maker, over, phase, owned, reading,
                   last, saving, room, inputs, faults>>

ForgetEnded(w) ==
    /\ At(w, "forget")
    /\ DropInbox /\ snap' = FALSE
    /\ Done(w)
    /\ UNCHANGED <<lease, legs, maker, over, phase, owned, reading, last, saving, room,
                   inputs, faults>>

(* The room is rebuilt from its snapshot; without one the call is let go,  *)
(* and without a media plane it is left to a later look.                   *)
Rebuild(w) ==
    /\ At(w, "rebuild")
    /\ phase[w] \notin {"mediaStopped", "adoptionStopped"}
    /\ IF w \in room \/ snap THEN room' = room \cup {w} /\ Goto(w, "read")
       ELSE Goto(w, "giveUp") /\ UNCHANGED room
    /\ UNCHANGED <<redis, legs, maker, over, phase, owned, reading, last, saving, inputs,
                   faults>>

RebuildFails(w) ==
    /\ At(w, "rebuild")
    /\ phase[w] \in {"mediaStopped", "adoptionStopped"}
    /\ Release(w) /\ Done(w)
    /\ UNCHANGED <<leased, stream, cursor, snap, legs, maker, over, phase, last, saving,
                   room, inputs, faults>>

GiveUp(w) ==
    /\ At(w, "giveUp")
    /\ Release(w) /\ Goto(w, "forgetLive")
    /\ UNCHANGED <<leased, stream, cursor, snap, legs, maker, over, phase, last, saving,
                   room, inputs, faults>>

ForgetLive(w) ==
    /\ At(w, "forgetLive")
    /\ DropInbox
    /\ Done(w)
    /\ UNCHANGED <<lease, snap, legs, maker, over, phase, owned, reading, last, saving, room,
                   inputs, faults>>

-----------------------------------------------------------------------------
(* Inputs.                                                                 *)

Post ==
    /\ ~over /\ leased /\ posted < MaxInputs
    /\ posted' = posted + 1 /\ stream' = stream \cup {posted + 1}
    /\ UNCHANGED <<lease, leased, cursor, snap, legs, maker, over, memory, running, purging,
                   ending, notice, started, faults>>

(* The read loop hands every new entry to its handler, all at once; the    *)
(* cursor is written without waiting for the handlers.                     *)
Read(w) ==
    LET new == {i \in stream : i > last[w]} IN
    /\ w \in reading /\ new # {}
    /\ last' = [last EXCEPT ![w] = posted]
    /\ saving' = [saving EXCEPT ![w] = posted]
    /\ running' = running \cup {<<w, i>> : i \in new}
    /\ started' = started \cup new
    /\ UNCHANGED <<redis, legs, maker, over, phase, owned, reading, room, job, purging,
                   ending, posted, notice, faults>>

SaveCursor(w) ==
    /\ saving[w] # 0
    /\ cursor' = saving[w] /\ saving' = [saving EXCEPT ![w] = 0]
    /\ UNCHANGED <<lease, leased, stream, snap, legs, maker, over, phase, owned, reading,
                   last, room, job, inputs, faults>>

Handle(w, i) ==
    /\ <<w, i>> \in running /\ i # notice
    /\ running' = running \ {<<w, i>>}
    /\ UNCHANGED <<redis, legs, maker, over, memory, purging, ending, posted, notice,
                   started, faults>>

(* A handler ends the call, or learns that it has ended: the media goes,   *)
(* then the lease, then the inbox.                                         *)
HandleEnd(w, i) ==
    /\ <<w, i>> \in running /\ (i = notice \/ ~over)
    /\ running' = running \ {<<w, i>>}
    /\ over' = TRUE
    /\ CloseRoom(w) /\ Release(w)
    /\ purging' = purging \cup {w}
    /\ UNCHANGED <<leased, stream, cursor, maker, phase, last, saving, job, ending, posted,
                   notice, started, faults>>

Purge(w) ==
    /\ w \in purging
    /\ purging' = purging \ {w}
    /\ DropInbox
    /\ UNCHANGED <<lease, snap, legs, maker, over, memory, running, ending, posted, notice,
                   started, faults>>

(* Any worker ends the call (the provider, a timer, a scan), drops its     *)
(* state and tells the owner through the inbox.                            *)
EndElsewhere(w) ==
    /\ w \in Alive /\ ~over /\ maker # None
    /\ over' = TRUE /\ ending' = ending \cup {w}
    /\ UNCHANGED <<redis, legs, maker, memory, running, purging, posted, notice, started,
                   faults>>

TellOwner(w) ==
    /\ w \in ending
    /\ ending' = ending \ {w}
    /\ room' = room \ {w} /\ snap' = FALSE
    /\ legs' = (legs /\ w \notin room)
    /\ posted' = posted + 1 /\ notice' = posted + 1 /\ stream' = stream \cup {posted + 1}
    /\ UNCHANGED <<lease, leased, cursor, maker, over, phase, owned, reading, last, saving,
                   job, running, purging, started, faults>>

(* The scan closes the room of a call that is over.                        *)
Reconcile(w) ==
    /\ w \in room /\ over
    /\ CloseRoom(w)
    /\ UNCHANGED <<lease, leased, stream, cursor, maker, over, phase, owned, reading, last,
                   saving, job, inputs, faults>>

(* Legs whose worker is gone, or that their own worker no longer holds,    *)
(* of a call that is not live (sweepOrphans).                              *)
IsLive == lease # None \/ leased

SweepLegs(w) ==
    /\ legs /\ w \in Alive /\ w \notin room
    /\ maker = w \/ phase[maker] = "gone"
    /\ ~IsLive
    /\ legs' = FALSE
    /\ UNCHANGED <<redis, maker, over, memory, inputs, faults>>

-----------------------------------------------------------------------------
(* Leases lapse: of a worker that is gone, or of one that is too slow to   *)
(* renew it, which it notices at its next renewal.  A set-up or take-over  *)
(* is far shorter than a lease.                                            *)
LeaseLapses ==
    /\ lease # None
    /\ IF phase[lease] = "gone" THEN UNCHANGED faults
       ELSE /\ FaultsSoFar < MaxFaults /\ job[lease] = None
            /\ faults' = [faults EXCEPT !.stalls = @ + 1]
    /\ lease' = None
    /\ UNCHANGED <<leased, stream, cursor, snap, legs, maker, over, memory, inputs>>

(* Fault: a renewal takes the lease whoever has it.                        *)
RenewForced(w) ==
    /\ w \in owned /\ lease # w
    /\ lease' = w
    /\ UNCHANGED <<leased, stream, cursor, snap, legs, maker, over, memory, inputs, faults>>

Renew(w) ==
    /\ w \in owned /\ lease # w
    /\ owned' = owned \ {w} /\ reading' = reading \ {w}
    /\ UNCHANGED <<redis, legs, maker, over, phase, last, saving, room, job, inputs, faults>>

(* What a worker's memory leaves behind when it is gone.                   *)
Vanish(w) ==
    /\ owned' = owned \ {w} /\ reading' = reading \ {w} /\ room' = room \ {w}
    /\ saving' = [saving EXCEPT ![w] = 0] /\ job' = [job EXCEPT ![w] = None]
    /\ running' = {r \in running : r[1] # w}
    /\ purging' = purging \ {w} /\ ending' = ending \ {w}
    /\ phase' = [phase EXCEPT ![w] = "gone"]

(* Some other worker goes on, or the next one has started.                *)
OthersStay(w) == \E v \in Workers \ {w} : phase[v] = "up"

Crash(w) ==
    /\ phase[w] = "up" /\ OthersStay(w)
    /\ FaultsSoFar < MaxFaults /\ faults' = [faults EXCEPT !.exits = @ + 1]
    /\ Vanish(w)
    /\ UNCHANGED <<redis, legs, maker, over, last, posted, notice, started>>

(* Shutdown, step by step; a set-up under way is given time to settle.     *)
LetRoomsGo(w) ==
    /\ phase[w] = "up" /\ OthersStay(w)
    /\ job[w] # None => job[w].kind = "adopt"
    /\ FaultsSoFar < MaxFaults /\ faults' = [faults EXCEPT !.exits = @ + 1]
    /\ phase' = [phase EXCEPT ![w] = "roomsGone"] /\ room' = room \ {w}
    /\ UNCHANGED <<redis, legs, maker, over, owned, reading, last, saving, job, inputs>>

LetLeaseGo(w) ==
    /\ phase[w] = "roomsGone"
    /\ phase' = [phase EXCEPT ![w] = "leaseGone"]
    /\ Release(w)
    /\ UNCHANGED <<leased, stream, cursor, snap, legs, maker, over, last, saving, room, job,
                   inputs, faults>>

StopMedia(w) ==
    /\ phase[w] = "leaseGone"
    /\ phase' = [phase EXCEPT ![w] = "mediaStopped"]
    /\ CloseRoom(w)
    /\ UNCHANGED <<lease, leased, stream, cursor, maker, over, owned, reading, last, saving,
                   job, inputs, faults>>

StopAdoption(w) ==
    /\ phase[w] = "mediaStopped"
    /\ phase' = [phase EXCEPT ![w] = "adoptionStopped"]
    /\ UNCHANGED <<redis, legs, maker, over, owned, reading, last, saving, room, job, inputs,
                   faults>>

Exit(w) ==
    /\ phase[w] = "adoptionStopped"
    /\ lease' = IF w \in owned /\ lease = w THEN None ELSE lease
    /\ Vanish(w)
    /\ UNCHANGED <<leased, stream, cursor, snap, legs, maker, over, last, posted, notice,
                   started, faults>>

-----------------------------------------------------------------------------
JobStep(w) ==
    \/ ClaimLease(w) \/ TakeCursor(w) \/ AddLeased(w) \/ StartReading(w) \/ MakeLegs(w)
    \/ SaveRoom(w) \/ CheckRow(w) \/ ForgetEnded(w) \/ Rebuild(w) \/ RebuildFails(w)
    \/ GiveUp(w) \/ ForgetLive(w)

Shutdown(w) == LetLeaseGo(w) \/ StopMedia(w) \/ StopAdoption(w) \/ Exit(w)

HandleAny(w) == \E i \in Inputs : Handle(w, i) \/ HandleEnd(w, i)

Next ==
    \/ Post \/ LeaseLapses
    \/ \E w \in Workers :
           \/ JobStep(w) \/ LookForOrphan(w) \/ Read(w) \/ SaveCursor(w) \/ HandleAny(w)
           \/ Purge(w) \/ EndElsewhere(w) \/ TellOwner(w) \/ Reconcile(w) \/ SweepLegs(w)
           \/ Renew(w) \/ Crash(w) \/ LetRoomsGo(w) \/ Shutdown(w)

(* Timers, read loops and handlers of the workers that live go on, and the *)
(* leases of the dead lapse.                                               *)
Fairness ==
    /\ WF_vars(LeaseLapses /\ phase[lease] = "gone")
    /\ \A w \in Workers :
           /\ WF_vars(JobStep(w)) /\ SF_vars(LookForOrphan(w)) /\ WF_vars(Read(w))
           /\ WF_vars(SaveCursor(w)) /\ WF_vars(HandleAny(w)) /\ WF_vars(Purge(w))
           /\ WF_vars(TellOwner(w)) /\ WF_vars(Reconcile(w)) /\ WF_vars(Renew(w))
           /\ WF_vars(Shutdown(w)) /\ WF_vars(SweepLegs(w))

Spec == Init /\ [][Next]_vars /\ Fairness

-----------------------------------------------------------------------------
(* One worker runs a call, unless a lease has lapsed under a live worker;  *)
(* then both do, until the first finds out at its next renewal (claim,     *)
(* _renew).                                                                *)
OneOwnerAgain == Cardinality(Owners) > 1 ~> Cardinality(Owners) <= 1

(* An input of a live call is read, by the owner or by the next one, also  *)
(* if it was posted while nobody held the lease (post).                    *)
InputsAreRead ==
    \A i \in 1 .. MaxInputs : (i \in stream /\ snap) ~> (i \in started \/ over \/ ~snap)

(* Once the notice of its end is in the inbox, the call leaves the set     *)
(* that the adopters look through, whoever owns it then (#releaseIfEnded); *)
(* a worker that lost its lease to a stall may yet add it again (claim).   *)
EndedCallsAreForgotten == (notice # 0 /\ leased) ~> ~leased \/ faults.stalls > 0

=============================================================================
