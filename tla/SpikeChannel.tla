---------------------------- MODULE SpikeChannel ----------------------------
(***************************************************************************)
(* The shared memory between the game process and the SPiKE worker, at the *)
(* grain of single memory accesses.                                        *)
(*                                                                         *)
(*   - The host thread is SpikeSource::Impl::run: it publishes the newest  *)
(*     depth frame of every camera (IpcHost::publish_depth), then looks    *)
(*     for a new pose (IpcHost::wait_for_pose).                            *)
(*   - The worker is the Python loop in worker.py: it waits for the input  *)
(*     event, reads every camera (IpcChannel.read_depth), and may publish  *)
(*     a pose (IpcChannel.publish_pose).                                   *)
(*                                                                         *)
(* Each slot is a sequence lock: the writer makes the sequence word odd,   *)
(* stores the payload, makes it even; a reader keeps a copy only when      *)
(* equal even sequence words surround it.  The compiler and memcpy may     *)
(* order the plain stores and loads of a payload as they like, so the      *)
(* parts are stored and copied in any order; the interlocked sequence      *)
(* accesses and MemoryBarrier keep the sequence accesses where they are.   *)
(*                                                                         *)
(* Stamps are frame_sequence in a depth slot and generation in the pose    *)
(* slot.  A part of a payload is modelled by the stamp of the publication  *)
(* it belongs to.                                                          *)
(***************************************************************************)
EXTENDS Naturals

CONSTANTS
    CameraCount,        \* kCameraCount
    Parts,              \* the words of a payload
    Stamp,              \* the word that holds frame_sequence or generation
    DepthAttempts,      \* tries of one read_depth call (5 in the code)
    PoseAttempts,       \* tries between two waits of wait_for_pose (4)
    MaxFrame,           \* bound on frame_sequence
    MaxGeneration       \* bound on generation

ASSUME ChannelAssumption ==
    /\ CameraCount \in Nat \ {0}
    /\ Stamp \in Parts
    /\ DepthAttempts \in Nat \ {0}
    /\ PoseAttempts \in Nat \ {0}
    /\ MaxFrame \in Nat
    /\ MaxGeneration \in Nat

Cameras == 0 .. CameraCount - 1
Pose    == CameraCount              \* the slot after the cameras is the PoseFrame
Slots   == 0 .. CameraCount
Sides   == {"host", "worker"}

\* The single writer of a slot; the other side is its single reader.
Writer(s) == IF s = Pose THEN "worker" ELSE "host"

VARIABLES
    sequence,       \* [Slots -> Nat]: the sequence word of every slot
    payload,        \* [Slots -> [Parts -> Nat]]: its payload
    inputEvent,     \* the auto-reset event the worker waits on
    outputEvent,    \* the auto-reset event the host waits on
    workerState,    \* control.worker_state
    shutdown,       \* control.shutdown_requested
    stop,           \* SpikeSource::Impl::stop
    calibrating,    \* the worker still lacks a background of some camera
    pc,             \* [Sides -> step]: where either side is
    at,             \* [Sides -> Slots]: the slot it works on
    stamp,          \* [Slots -> Nat]: stamp of the last publication begun
    unwritten,      \* [Sides -> SUBSET Parts]: payload still to be stored
    attempt,        \* [Sides -> Nat]: failed tries of the current read
    first,          \* [Sides -> Nat]: sequence word read before the copy
    copied,         \* [Sides -> SUBSET Parts]: parts copied by this try
    copy,           \* [Sides -> [Parts -> Nat]]: the copy
    late,           \* the host's wait ran out: this is its last round of tries
    cursor,         \* [Slots -> Nat]: source_sequence of the worker and
                    \*   output_generation of the host
    newest,         \* history: stamp of the last publication completed
    delivered       \* history: the last snapshot the reader accepted

memVars  == <<sequence, payload, newest>>
readVars == <<attempt, first, copied, copy, cursor, delivered>>
ctlVars  == <<workerState, shutdown, stop, calibrating>>
vars == <<memVars, inputEvent, outputEvent, ctlVars, pc, at, stamp, unwritten,
          readVars, late>>

Even(n) == n % 2 = 0
Whole(n) == [p \in Parts |-> n]

HostSteps   == {"scan", "store", "signal", "look", "copy", "expired", "state",
                "ended"}
WorkerSteps == {"wait", "look", "copy", "decide", "store", "signal",
                "announce", "exited", "dead"}
WorkerAlive == pc["worker"] \notin {"exited", "dead"}

Goto(side, step) == pc' = [pc EXCEPT ![side] = step]
Visit(side, s)   == at' = [at EXCEPT ![side] = s]

Init ==
    /\ sequence = [s \in Slots |-> 0]
    /\ payload = [s \in Slots |-> Whole(0)]
    /\ newest = [s \in Slots |-> 0]
    /\ inputEvent = FALSE
    /\ outputEvent \in BOOLEAN           \* set_state(READY) may still be unread
    /\ workerState = "ready"
    /\ shutdown = FALSE
    /\ stop = FALSE
    /\ calibrating \in BOOLEAN           \* background_calibration_frames > 0
    /\ pc = [side \in Sides |-> IF side = "host" THEN "scan" ELSE "wait"]
    /\ at = [side \in Sides |-> 0]
    /\ stamp = [s \in Slots |-> 0]
    /\ unwritten = [side \in Sides |-> {}]
    /\ attempt = [side \in Sides |-> 0]
    /\ first = [side \in Sides |-> 0]
    /\ copied = [side \in Sides |-> {}]
    /\ copy = [side \in Sides |-> Whole(0)]
    /\ late = FALSE
    /\ cursor = [s \in Slots |-> 0]
    /\ delivered = [s \in Slots |-> Whole(0)]

-----------------------------------------------------------------------------
(* Writing a slot: begin_write, the stores, end_write.                     *)

\* Variants: begin_write does not mark the slot; end_write adds two.
NextOddUnmarked(n) == n
NextEvenByTwo(n) == n + 2

\* begin_write leaves an odd word and end_write an even one, whatever the
\* parity they find.
NextOdd(n)  == IF Even(n) THEN n + 1 ELSE n + 2
NextEven(n) == IF Even(n) THEN n + 2 ELSE n + 1

BeginWrite(side, s, n) ==
    /\ stamp' = [stamp EXCEPT ![s] = n]
    /\ sequence' = [sequence EXCEPT ![s] = NextOdd(@)]
    /\ unwritten' = [unwritten EXCEPT ![side] = Parts]
    /\ Goto(side, "store")
    /\ UNCHANGED <<payload, newest, inputEvent, outputEvent, ctlVars, readVars,
                   late>>

Store(side, p) ==
    /\ pc[side] = "store"
    /\ p \in unwritten[side]
    /\ payload' = [payload EXCEPT ![at[side]][p] = stamp[at[side]]]
    /\ unwritten' = [unwritten EXCEPT ![side] = @ \ {p}]
    /\ UNCHANGED <<sequence, newest, inputEvent, outputEvent, ctlVars, pc, at,
                   stamp, readVars, late>>

EndWrite(side) ==
    /\ pc[side] = "store"
    /\ unwritten[side] = {}
    /\ sequence' = [sequence EXCEPT ![at[side]] = NextEven(@)]
    /\ newest' = [newest EXCEPT ![at[side]] = stamp[at[side]]]
    /\ Goto(side, "signal")
    /\ UNCHANGED <<payload, inputEvent, outputEvent, ctlVars, at, stamp,
                   unwritten, readVars, late>>

-----------------------------------------------------------------------------
(* Reading a slot: the sequence word, the copy, the sequence word again.   *)

Attempts(side) == IF side = "host" THEN PoseAttempts ELSE DepthAttempts

\* Where a side goes when the read of its current slot is over: the worker to
\* its next camera, the host to the deadline check or to the state check.
ReadDone(side, hostStep) ==
    IF side = "host"
    THEN Goto("host", hostStep) /\ UNCHANGED at
    ELSE /\ Visit("worker", at["worker"] + 1)
         /\ Goto("worker", IF at["worker"] + 1 = Pose THEN "decide" ELSE "look")

\* The locals of a try go out of scope with it.
Forget(side) ==
    /\ first' = [first EXCEPT ![side] = 0]
    /\ copied' = [copied EXCEPT ![side] = {}]
    /\ copy' = [copy EXCEPT ![side] = Whole(0)]

\* One try was in vain; after the last one the read returns nothing.
TryAgain(side) ==
    IF attempt[side] + 1 < Attempts(side)
    THEN /\ attempt' = [attempt EXCEPT ![side] = @ + 1]
         /\ Goto(side, "look")
         /\ UNCHANGED at
    ELSE /\ attempt' = [attempt EXCEPT ![side] = 0]
         /\ ReadDone(side, "expired")

\* A word no reader can use: a write is in progress, or (for read_depth only)
\* nothing was ever published.
Unusable(side, n) == ~Even(n) \/ (side = "worker" /\ n = 0)

LookInVain(side) ==
    /\ pc[side] = "look"
    /\ Unusable(side, sequence[at[side]])
    /\ TryAgain(side)
    /\ UNCHANGED <<memVars, inputEvent, outputEvent, ctlVars, stamp, unwritten,
                   first, copied, copy, cursor, delivered, late>>

Look(side) ==
    /\ pc[side] = "look"
    /\ ~Unusable(side, sequence[at[side]])
    /\ first' = [first EXCEPT ![side] = sequence[at[side]]]
    /\ copied' = [copied EXCEPT ![side] = {}]
    /\ Goto(side, "copy")
    /\ UNCHANGED <<memVars, inputEvent, outputEvent, ctlVars, at, stamp,
                   unwritten, attempt, copy, cursor, delivered, late>>

\* Variant: only every other stamp counts as new.
MuchNewer(side) == copy[side][Stamp] > cursor[at[side]] + 1

Newer(side) == copy[side][Stamp] > cursor[at[side]]

\* read_depth looks at the metadata before it copies the samples.
CopyPart(side, p) ==
    /\ pc[side] = "copy"
    /\ p \notin copied[side]
    /\ side = "worker" =>
         \/ p = Stamp
         \/ Stamp \in copied[side] /\ Newer(side)
    /\ copied' = [copied EXCEPT ![side] = @ \union {p}]
    /\ copy' = [copy EXCEPT ![side][p] = payload[at[side]][p]]
    /\ UNCHANGED <<memVars, inputEvent, outputEvent, ctlVars, pc, at, stamp,
                   unwritten, attempt, first, cursor, delivered, late>>

\* read_depth: the metadata is not newer than the worker's cursor.  It may be
\* the metadata of a write in progress; it is not compared again.
NothingNewer ==
    /\ pc["worker"] = "copy"
    /\ Stamp \in copied["worker"]
    /\ ~Newer("worker")
    /\ attempt' = [attempt EXCEPT !["worker"] = 0]
    /\ ReadDone("worker", "expired")
    /\ Forget("worker")
    /\ UNCHANGED <<memVars, inputEvent, outputEvent, ctlVars, stamp, unwritten,
                   cursor, delivered, late>>

Consistent(side) == sequence[at[side]] = first[side]

\* The copy is kept.  During background calibration the worker leaves the
\* cursor of a camera whose background is complete where it was.
Accept(side) ==
    /\ pc[side] = "copy"
    /\ copied[side] = Parts
    /\ Consistent(side) /\ Newer(side)
    /\ delivered' = [delivered EXCEPT ![at[side]] = copy[side]]
    /\ \/ cursor' = [cursor EXCEPT ![at[side]] = copy[side][Stamp]]
       \/ side = "worker" /\ calibrating /\ UNCHANGED cursor
    /\ attempt' = [attempt EXCEPT ![side] = 0]
    /\ ReadDone(side, "state")
    /\ Forget(side)
    /\ UNCHANGED <<memVars, inputEvent, outputEvent, ctlVars, stamp, unwritten,
                   late>>

Reject(side) ==
    /\ pc[side] = "copy"
    /\ copied[side] = Parts
    /\ side = "worker" => Newer(side)
    /\ ~(Consistent(side) /\ Newer(side))
    /\ TryAgain(side)
    /\ Forget(side)
    /\ UNCHANGED <<memVars, inputEvent, outputEvent, ctlVars, stamp, unwritten,
                   cursor, delivered, late>>

-----------------------------------------------------------------------------
(* The host thread.                                                        *)

InScan == pc["host"] = "scan" /\ ~(at["host"] = 0 /\ stop)

\* Variant: a reconnected camera starts counting again.
HostBeginDepthAnew ==
    /\ InScan
    /\ at["host"] \in Cameras
    /\ \E n \in 1 .. MaxFrame : BeginWrite("host", at["host"], n)
    /\ UNCHANGED at

\* get_depth_frame has a newer frame of this camera; frames captured since the
\* last one and not published are lost.
HostBeginDepth ==
    /\ InScan
    /\ at["host"] \in Cameras
    /\ \E n \in stamp[at["host"]] + 1 .. MaxFrame :
         BeginWrite("host", at["host"], n)
    /\ UNCHANGED at

\* No newer frame, or publish_depth refused it.
HostSkipCamera ==
    /\ InScan
    /\ at["host"] \in Cameras
    /\ Visit("host", at["host"] + 1)
    /\ UNCHANGED <<memVars, inputEvent, outputEvent, ctlVars, pc, stamp,
                   unwritten, readVars, late>>

\* Variant: one signal per round, whether or not the last camera had a frame.
HostSignalLast ==
    /\ pc["host"] = "signal"
    /\ inputEvent' = (inputEvent \/ at["host"] + 1 = Pose)
    /\ Visit("host", at["host"] + 1)
    /\ Goto("host", "scan")
    /\ UNCHANGED <<memVars, outputEvent, ctlVars, stamp, unwritten, readVars,
                   late>>

HostSignal ==
    /\ pc["host"] = "signal"
    /\ inputEvent' = TRUE
    /\ Visit("host", at["host"] + 1)
    /\ Goto("host", "scan")
    /\ UNCHANGED <<memVars, outputEvent, ctlVars, stamp, unwritten, readVars,
                   late>>

HostWantPose ==
    /\ InScan
    /\ at["host"] = Pose
    /\ Goto("host", "look")
    /\ UNCHANGED <<memVars, inputEvent, outputEvent, ctlVars, at, stamp,
                   unwritten, readVars, late>>

\* Every try failed and the deadline has passed.
HostGiveUp ==
    /\ pc["host"] = "expired"
    /\ Goto("host", "state")
    /\ UNCHANGED <<memVars, inputEvent, outputEvent, ctlVars, at, stamp,
                   unwritten, readVars, late>>

\* Before the deadline: WaitForSingleObject returns because of the event
\* (which it resets) or because the time left ran out.
HostAwake ==
    /\ pc["host"] = "expired"
    /\ ~late
    /\ IF outputEvent
       THEN outputEvent' = FALSE /\ UNCHANGED late
       ELSE late' = TRUE /\ UNCHANGED outputEvent
    /\ Goto("host", "look")
    /\ UNCHANGED <<memVars, inputEvent, ctlVars, at, stamp, unwritten, readVars>>

\* End of one turn of the loop: it ends for good when the worker has faulted.
HostCheckState ==
    /\ pc["host"] = "state"
    /\ Goto("host", IF workerState = "faulted" THEN "ended" ELSE "scan")
    /\ Visit("host", 0)
    /\ late' = FALSE
    /\ UNCHANGED <<memVars, inputEvent, outputEvent, ctlVars, stamp, unwritten,
                   readVars>>

HostEnd ==
    /\ pc["host"] = "scan"
    /\ at["host"] = 0
    /\ stop
    /\ Goto("host", "ended")
    /\ UNCHANGED <<memVars, inputEvent, outputEvent, ctlVars, at, stamp,
                   unwritten, readVars, late>>

-----------------------------------------------------------------------------
(* ~SpikeSource, on the thread that drops the last reference.              *)

RequestStop ==
    /\ ~stop
    /\ stop' = TRUE
    /\ UNCHANGED <<memVars, inputEvent, outputEvent, workerState, shutdown,
                   calibrating, pc, at, stamp, unwritten, readVars, late>>

\* Variant: the event is set, the flag is not.
RequestShutdownSilently ==
    /\ stop
    /\ pc["host"] = "ended"
    /\ ~shutdown
    /\ inputEvent' = TRUE
    /\ UNCHANGED <<memVars, outputEvent, ctlVars, pc, at, stamp, unwritten,
                   readVars, late>>

\* The thread is joined; IpcHost::stop asks the worker to exit.
RequestShutdown ==
    /\ stop
    /\ pc["host"] = "ended"
    /\ ~shutdown
    /\ shutdown' = TRUE
    /\ inputEvent' = TRUE
    /\ UNCHANGED <<memVars, outputEvent, workerState, stop, calibrating, pc, at,
                   stamp, unwritten, readVars, late>>

-----------------------------------------------------------------------------
(* The worker loop.                                                        *)

\* wait_for_input returns because of the event or after 20 ms; either way all
\* cameras are read.
WorkerWake ==
    /\ pc["worker"] = "wait"
    /\ ~shutdown
    /\ inputEvent' = FALSE
    /\ Visit("worker", 0)
    /\ Goto("worker", "look")
    /\ UNCHANGED <<memVars, outputEvent, ctlVars, stamp, unwritten, readVars,
                   late>>

WorkerExit ==
    /\ pc["worker"] = "wait"
    /\ shutdown
    /\ workerState' = "stopped"
    /\ outputEvent' = TRUE
    /\ Goto("worker", "exited")
    /\ UNCHANGED <<memVars, inputEvent, shutdown, stop, calibrating, at, stamp,
                   unwritten, readVars, late>>

\* The last background is complete.
WorkerCalibrated ==
    /\ pc["worker"] = "decide"
    /\ calibrating
    /\ calibrating' = FALSE
    /\ UNCHANGED <<memVars, inputEvent, outputEvent, workerState, shutdown,
                   stop, pc, at, stamp, unwritten, readVars, late>>

WorkerPublish ==
    /\ pc["worker"] = "decide"
    /\ stamp[Pose] < MaxGeneration
    /\ BeginWrite("worker", Pose, stamp[Pose] + 1)
    /\ UNCHANGED at

\* No pose in this turn.  Outside calibration the generation advances anyway.
WorkerSkip ==
    /\ pc["worker"] = "decide"
    /\ \/ calibrating /\ UNCHANGED stamp
       \/ /\ ~calibrating
          /\ stamp[Pose] < MaxGeneration
          /\ stamp' = [stamp EXCEPT ![Pose] = @ + 1]
       \/ stamp[Pose] = MaxGeneration /\ UNCHANGED stamp      \* bound
    /\ Goto("worker", "wait")
    /\ UNCHANGED <<memVars, inputEvent, outputEvent, ctlVars, at, unwritten,
                   readVars, late>>

\* publish_pose ends with SetEvent; the first one is followed by
\* set_state(RUNNING), which sets the event again.
WorkerSignal ==
    /\ pc["worker"] = "signal"
    /\ outputEvent' = TRUE
    /\ Goto("worker", IF workerState = "ready" THEN "announce" ELSE "wait")
    /\ UNCHANGED <<memVars, inputEvent, ctlVars, at, stamp, unwritten, readVars,
                   late>>

WorkerAnnounce ==
    /\ pc["worker"] = "announce"
    /\ workerState' = "running"
    /\ outputEvent' = TRUE
    /\ Goto("worker", "wait")
    /\ UNCHANGED <<memVars, inputEvent, shutdown, stop, calibrating, at, stamp,
                   unwritten, readVars, late>>

\* An exception: main reports the fault and returns.
WorkerFault ==
    /\ pc["worker"] = "decide"
    /\ workerState' = "faulted"
    /\ outputEvent' = TRUE
    /\ Goto("worker", "exited")
    /\ UNCHANGED <<memVars, inputEvent, shutdown, stop, calibrating, at, stamp,
                   unwritten, readVars, late>>

\* The process dies between two instructions and reports nothing.
WorkerCrash ==
    /\ WorkerAlive
    /\ Goto("worker", "dead")
    /\ UNCHANGED <<memVars, inputEvent, outputEvent, ctlVars, at, stamp,
                   unwritten, readVars, late>>

-----------------------------------------------------------------------------
ReadStep(side) ==
    \/ LookInVain(side) \/ Look(side)
    \/ \E p \in Parts : CopyPart(side, p)
    \/ Accept(side) \/ Reject(side)

WriteStep(side) == (\E p \in Parts : Store(side, p)) \/ EndWrite(side)

HostStep ==
    \/ HostBeginDepth \/ HostSkipCamera \/ WriteStep("host") \/ HostSignal
    \/ HostWantPose \/ ReadStep("host") \/ HostGiveUp \/ HostAwake
    \/ HostCheckState \/ HostEnd

WorkerStep ==
    \/ WorkerWake \/ WorkerExit \/ ReadStep("worker") \/ NothingNewer
    \/ WorkerPublish \/ WorkerSkip \/ WriteStep("worker") \/ WorkerSignal
    \/ WorkerAnnounce

Next ==
    \/ HostStep \/ WorkerStep
    \/ WorkerCalibrated \/ WorkerFault \/ WorkerCrash
    \/ RequestStop \/ RequestShutdown

Spec == Init /\ [][Next]_vars

\* Both threads keep running, and the destructor, once begun, goes on.  Nothing
\* forces the worker to fault or to die, nor the owner to drop the source.
FairSpec ==
    /\ Spec
    /\ WF_vars(HostStep)
    /\ WF_vars(WorkerStep)
    /\ WF_vars(RequestShutdown)

-----------------------------------------------------------------------------
TypeOK ==
    /\ sequence \in [Slots -> Nat]
    /\ payload \in [Slots -> [Parts -> Nat]]
    /\ newest \in [Slots -> Nat]
    /\ inputEvent \in BOOLEAN
    /\ outputEvent \in BOOLEAN
    /\ workerState \in {"ready", "running", "faulted", "stopped"}
    /\ shutdown \in BOOLEAN
    /\ stop \in BOOLEAN
    /\ calibrating \in BOOLEAN
    /\ pc \in [Sides -> HostSteps \union WorkerSteps]
    /\ pc["host"] \in HostSteps
    /\ pc["worker"] \in WorkerSteps
    /\ at \in [Sides -> Slots]
    /\ stamp \in [Slots -> Nat]
    /\ unwritten \in [Sides -> SUBSET Parts]
    /\ attempt \in [Sides -> Nat]
    /\ first \in [Sides -> Nat]
    /\ copied \in [Sides -> SUBSET Parts]
    /\ copy \in [Sides -> [Parts -> Nat]]
    /\ late \in BOOLEAN
    /\ cursor \in [Slots -> Nat]
    /\ delivered \in [Slots -> [Parts -> Nat]]

-----------------------------------------------------------------------------
(* Properties.                                                             *)

\* A snapshot that read_depth or wait_for_pose returned is one publication,
\* never parts of two, however the copy interleaved with the writer and
\* wherever the writer died.
NoTornSnapshot ==
    \A s \in Slots : \A p \in Parts : delivered[s][p] = delivered[s][Stamp]

\* The reader has taken the newest complete publication of slot s.
UpToDate(s) == delivered[s][Stamp] = newest[s]

\* A publication in slot s is under way and its SetEvent is still to come.
Underway(s) == pc[Writer(s)] \in {"store", "signal"} /\ at[Writer(s)] = s

\* No wakeup is lost although two cameras share one auto-reset event and a read
\* may fail after the event was consumed: a side that blocks on a reset event
\* has taken everything published, or the writer is about to set the event.
\* The 20 ms and 25 ms limits of the waits are for liveness of the peer only.
NoLostWakeup ==
    /\ pc["worker"] = "wait" /\ ~inputEvent =>
         \A c \in Cameras : UpToDate(c) \/ Underway(c)
    /\ pc["host"] = "expired" /\ ~outputEvent /\ WorkerAlive =>
         UpToDate(Pose) \/ Underway(Pose)

\* Frames and poses reach their reader in order: what a read returns is never
\* older than what an earlier read of the slot returned, and every pose is
\* strictly newer.
DeliveryInOrder ==
    [][\A s \in Slots : delivered'[s] # delivered[s] =>
         delivered'[s][Stamp] > delivered[s][Stamp]]_vars

\* The channel implements a mailbox that holds the latest value of each slot.
Mailbox == INSTANCE LatestValue
ImplementsMailbox == Mailbox!AbsSpec

\* Whenever publications pause (here: at the bounds), a worker that stays alive
\* has read the newest depth frame of every camera in the end, even if every
\* read of it so far was torn.
DepthReachesWorker == \A c \in Cameras : []<>(UpToDate(c) \/ ~WorkerAlive)

\* The worker died inside publish_pose: the sequence word stays odd for good.
PoseAbandoned == ~WorkerAlive /\ ~Even(sequence[Pose])

\* Likewise the newest pose reaches the host, unless the host stops first or the
\* worker dies while it overwrites the pose. That leaves the pose slot odd for
\* good, and still the host thread comes round to publish depth frames.
PoseReachesHost ==
    /\ []<>(UpToDate(Pose) \/ pc["host"] = "ended" \/ PoseAbandoned)
    /\ []<>(pc["host"] = "ended" \/ (pc["host"] = "scan" /\ at["host"] = 0))

\* Once the destructor has begun, the worker is gone in the end.
ShutdownStopsWorker == stop ~> ~WorkerAlive
-----------------------------------------------------------------------------
(* The inductive invariant behind the safety properties.                   *)

\* Which slots a side can be at: the host writes cameras and reads the pose, the
\* worker the other way round.
Places ==
    /\ pc["host"] \in {"store", "signal"} => at["host"] \in Cameras
    /\ pc["host"] \in {"look", "copy", "expired"} => at["host"] = Pose
    /\ pc["worker"] \in {"look", "copy"} => at["worker"] \in Cameras
    /\ pc["worker"] \in {"decide", "store", "signal", "announce"} =>
         at["worker"] = Pose

Storing(s) == pc[Writer(s)] = "store" /\ at[Writer(s)] = s

\* An even word vouches for the whole payload; a word stays odd only while its
\* writer is storing or after the worker died there.
SlotInv(s) ==
    /\ Even(sequence[s]) => \A p \in Parts : payload[s][p] = newest[s]
    /\ Storing(s) => ~Even(sequence[s])
    /\ Storing(s) =>
         \A p \in Parts : p \in unwritten[Writer(s)] \/ payload[s][p] = stamp[s]
    /\ ~Even(sequence[s]) => Storing(s) \/ (s = Pose /\ ~WorkerAlive)
    /\ newest[s] <= stamp[s]
    /\ Storing(s) => newest[s] < stamp[s]
    /\ sequence[s] = 0 => newest[s] = 0

\* What the reader of slot s has: whole, and between its cursor and the newest.
DeliveredInv(s) ==
    /\ \A p \in Parts : delivered[s][p] = delivered[s][Stamp]
    /\ cursor[s] <= delivered[s][Stamp]
    /\ delivered[s][Stamp] <= newest[s]

\* While the word is the one read first, everything copied is the newest value.
CopyInv(side) ==
    pc[side] = "copy" =>
        /\ Even(first[side])
        /\ first[side] <= sequence[at[side]]
        /\ sequence[at[side]] = first[side] =>
             \A p \in copied[side] : copy[side][p] = newest[at[side]]

\* The reader has slot s, or will be woken for it.
InputPending(c) == inputEvent \/ Underway(c)
OutputPending == outputEvent \/ Underway(Pose) \/ ~WorkerAlive

WorkerWakeInv ==
    /\ \A c \in Cameras :
         (\/ pc["worker"] \in {"wait", "decide", "store", "signal", "announce"}
          \/ pc["worker"] \in {"look", "copy"} /\ c < at["worker"])
         => UpToDate(c) \/ InputPending(c)
    /\ pc["worker"] = "copy" /\ sequence[at["worker"]] # first["worker"] =>
         InputPending(at["worker"])

HostWakeInv ==
    /\ pc["host"] = "expired" => UpToDate(Pose) \/ OutputPending
    /\ pc["host"] = "copy" /\ sequence[Pose] # first["host"] => OutputPending

ReadInv ==
    /\ \A s \in Slots : SlotInv(s) /\ DeliveredInv(s)
    /\ \A side \in Sides : CopyInv(side)

IInv == TypeOK /\ Places /\ ReadInv /\ WorkerWakeInv /\ HostWakeInv
=============================================================================
