----------------------------- MODULE D4xxCapture -----------------------------
(***************************************************************************)
(* D4xxSource: one capture thread serves every camera in turn, publishes   *)
(* complete framesets under the camera's frame_mutex, tears a camera down  *)
(* that fails or falls silent, and restarts it by its serial number.       *)
(* Meanwhile other threads read:                                           *)
(*                                                                         *)
(*   - "spike": SpikeSource's thread asks for depth newer than its cursor  *)
(*     (get_depth_frame);                                                  *)
(*   - "pose": the inference thread of d4xx_analysis_loop takes infrared   *)
(*     and depth of the primary camera (get_pose_frame_bgr8), runs the     *)
(*     model on the one and then measures the joints in the other          *)
(*     (apply_depth_to_pose).                                              *)
(*                                                                         *)
(* A frameset is its number: infrared, depth and intrinsics are published, *)
(* copied and cleared together.  get_frame_bgr8, wait_until_ready and the  *)
(* counts of active cameras change nothing and are left out, as are the    *)
(* options of the sensors, handles that only the capture thread sees, and  *)
(* the geometry and smoothing at the end of apply_depth_to_pose.           *)
(*                                                                         *)
(* Time passes in ticks where the thread sleeps or waits for librealsense. *)
(***************************************************************************)
EXTENDS Naturals, FiniteSets

CONSTANTS
    DeviceCount,        \* cameras discovered by open
    PrimaryDevice,      \* options.primary_device
    RequiredDevices,    \* options.required_devices
    Uses,               \* what the source may be opened for
    StallTimeout,       \* options.frame_stall_timeout_ms
    ReconnectDelay,     \* options.reconnect_delay_ms
    MaxBlock,           \* bound on the time librealsense takes to start or stop
    MaxFrame            \* bound on sequence

Devices == 0 .. DeviceCount - 1

ASSUME CaptureAssumption ==
    /\ DeviceCount \in Nat \ {0}
    /\ PrimaryDevice \in Devices
    /\ RequiredDevices \in Nat
    /\ Uses \subseteq {"spike", "pose"}
    /\ StallTimeout \in Nat \ {0}
    /\ {ReconnectDelay, MaxBlock, MaxFrame} \subseteq Nat

VARIABLES
    use,            \* who reads: "spike" or "pose"
    plugged,        \* [Devices -> BOOLEAN]: the camera is on the bus
    delivering,     \* [Devices -> BOOLEAN]: its pipeline yields frames
    step,           \* where open, capture_loop or close is
    at,             \* the camera it serves
    blocked,        \* time the current call into librealsense has taken
    stop,           \* the owner has dropped the source
    active,         \* [Devices -> BOOLEAN]: DeviceStream::active
    silent,         \* [Devices -> Nat]: time since last_complete_frame
    delay,          \* [Devices -> Nat]: time left until next_reconnect
    sequence,       \* [Devices -> Nat]: frames published so far
    frame,          \* [Devices -> Nat]: the frameset held, 0 when cleared
    age,            \* [Devices -> Nat]: time since host_time_ns of that frameset
    cursor,         \* [Devices -> Nat]: input_sequence of SpikeSource's thread
    reader,         \* where the inference thread is
    image,          \* the frameset whose infrared it works on
    pending,        \* pending_pose_depth: a frameset, 0 when there is none
    measured        \* history: the image of the last pose that was measured, and
                    \* the frameset its depth came from

busVars    == <<plugged, delivering>>
streamVars == <<active, silent, delay, sequence, frame, age>>
poseVars   == <<reader, image, measured>>
readerVars == <<cursor, pending, poseVars>>
vars == <<use, busVars, step, at, blocked, stop, streamVars, readerVars>>

Steps       == {"open", "turn", "reconnect", "clear", "unpend", "stopping",
                "sleep", "closed"}
ReaderSteps == {"idle", "copy", "keep", "infer", "apply", "fallback"}
NoPose      == [image |-> 0, depth |-> 0]

Init ==
    /\ use \in Uses
    /\ plugged = [d \in Devices |-> TRUE]
    /\ delivering = [d \in Devices |-> FALSE]
    /\ step = "open"
    /\ at = 0
    /\ blocked = 0
    /\ stop = FALSE
    /\ active = [d \in Devices |-> FALSE]
    /\ silent = [d \in Devices |-> 0]
    /\ delay = [d \in Devices |-> 0]
    /\ sequence = [d \in Devices |-> 0]
    /\ frame = [d \in Devices |-> 0]
    /\ age = [d \in Devices |-> 0]
    /\ cursor = [d \in Devices |-> 0]
    /\ reader = "idle"
    /\ image = 0
    /\ pending = 0
    /\ measured = NoPose

-----------------------------------------------------------------------------
(* Time.                                                                   *)

\* A depth packet is never older than this: the time the loop gives its camera,
\* and what every other camera may hold the loop up between two of its turns.
HeldUp(cameras) == cameras * MaxBlock
OldestPacket == StallTimeout + HeldUp(DeviceCount - 1)

Limited(n, limit) == IF n > limit THEN limit ELSE n

\* A tick.  The counters stop where nothing compares them any more.
Pass ==
    /\ silent' = [d \in Devices |-> IF active[d] THEN Limited(silent[d] + 1, StallTimeout)
                                                 ELSE silent[d]]
    /\ age' = [d \in Devices |-> IF frame[d] = 0 THEN 0
                                 ELSE Limited(age[d] + 1, OldestPacket + 1)]
    /\ delay' = [d \in Devices |-> IF delay[d] > 0 THEN delay[d] - 1 ELSE 0]
    /\ UNCHANGED <<active, sequence, frame>>

\* Starting or stopping a pipeline takes its time, and every camera waits.
Block ==
    /\ step \in {"reconnect", "stopping"}
    /\ blocked < MaxBlock
    /\ blocked' = blocked + 1
    /\ Pass
    /\ UNCHANGED <<use, busVars, step, at, stop, readerVars>>

\* The round goes on with the next camera, or is over.
NextDevice ==
    /\ blocked' = 0
    /\ IF at + 1 < DeviceCount
       THEN step' = "turn" /\ at' = at + 1
       ELSE step' = "sleep" /\ at' = 0

\* 2 ms of sleep when no camera had a frame, else none: a tick or less.
Wake ==
    /\ step = "sleep"
    /\ ~stop
    /\ step' = "turn"
    /\ UNCHANGED <<use, busVars, at, blocked, stop, readerVars>>

WakeNow   == Wake /\ UNCHANGED streamVars
WakeLater == Wake /\ Pass

-----------------------------------------------------------------------------
(* Starting a camera: start_device, in open and in reconnect_device.       *)

Start(d) ==
    /\ active' = [active EXCEPT ![d] = TRUE]
    /\ silent' = [silent EXCEPT ![d] = 0]
    /\ delivering' = [delivering EXCEPT ![d] = TRUE]
    /\ UNCHANGED <<plugged, delay, sequence, frame, age>>

RetryLater(d) ==
    /\ delay' = [delay EXCEPT ![d] = ReconnectDelay]
    /\ UNCHANGED <<busVars, active, silent, sequence, frame, age>>

\* start_device works, or open leaves the camera to the loop.
OpenDevice ==
    /\ step = "open"
    /\ at < DeviceCount
    /\ \/ plugged[at] /\ Start(at)
       \/ RetryLater(at)
    /\ at' = at + 1
    /\ UNCHANGED <<use, step, blocked, stop, readerVars>>

Enough == Cardinality({d \in Devices : active[d]}) >= RequiredDevices

\* The thread is started: it looks at stop before its first round.
Opened ==
    /\ step = "open"
    /\ at = DeviceCount
    /\ Enough
    /\ step' = "sleep"
    /\ at' = 0
    /\ UNCHANGED <<use, busVars, blocked, stop, streamVars, readerVars>>

\* No camera is to be started, or too few could be: acquire drops the source.
OpenFails ==
    /\ step = "open"
    /\ \/ at = 0
       \/ at = DeviceCount /\ ~Enough
    /\ stop' = TRUE
    /\ step' = "sleep"
    /\ at' = 0
    /\ UNCHANGED <<use, busVars, blocked, streamVars, readerVars>>

-----------------------------------------------------------------------------
(* A camera's turn in capture_loop.                                        *)

StillWaiting(d) ==
    /\ step = "turn" /\ at = d
    /\ ~active[d]
    /\ delay[d] > 0
    /\ NextDevice
    /\ UNCHANGED <<use, busVars, stop, streamVars, readerVars>>

Reconnect(d) ==
    /\ step = "turn" /\ at = d
    /\ ~active[d]
    /\ delay[d] = 0
    /\ step' = "reconnect"
    /\ UNCHANGED <<use, busVars, at, blocked, stop, streamVars, readerVars>>

\* The serial number is found, the camera configured and started.
Reconnected(d) ==
    /\ step = "reconnect" /\ at = d
    /\ plugged[d]
    /\ Start(d)
    /\ NextDevice
    /\ UNCHANGED <<use, stop, readerVars>>

\* Variant: the loop stays with the camera until it is back.
ReconnectAtOnce(d) ==
    /\ step = "reconnect" /\ at = d
    /\ RetryLater(d)
    /\ blocked' = 0
    /\ UNCHANGED <<use, step, at, stop, readerVars>>

\* Not found, not to be configured, or not started; a start that failed half-way
\* cleans up, and forgets the depth a pose may be waiting for.
ReconnectFails(d) ==
    /\ step = "reconnect" /\ at = d
    /\ RetryLater(d)
    /\ pending' \in {pending, IF d = PrimaryDevice THEN 0 ELSE pending}
    /\ NextDevice
    /\ UNCHANGED <<use, stop, cursor, poseVars>>

\* Variant: any frame is a sign of life.
AnyFrame(published) == TRUE

\* Only a complete frameset restarts the stall timeout.
SignOfLife(published) == published

\* The end of the turn of a camera that is not torn down for an error.
Checked(d, since) ==
    IF since >= StallTimeout
    THEN /\ active' = [active EXCEPT ![d] = FALSE]
         /\ step' = "clear"
         /\ UNCHANGED <<at, blocked>>
    ELSE /\ UNCHANGED active
         /\ NextDevice

\* capture_frame publishes a complete frameset under frame_mutex.
PollFrameset(d) ==
    /\ step = "turn" /\ at = d
    /\ active[d]
    /\ delivering[d]
    /\ sequence[d] < MaxFrame
    /\ sequence' = [sequence EXCEPT ![d] = @ + 1]
    /\ frame' = [frame EXCEPT ![d] = sequence[d] + 1]
    /\ age' = [age EXCEPT ![d] = 0]
    /\ silent' = [silent EXCEPT ![d] = 0]
    /\ NextDevice
    /\ UNCHANGED <<use, busVars, stop, active, delay, readerVars>>

\* A frameset that misses a part, cannot be aligned or cannot be read.
PollIncomplete(d) ==
    /\ step = "turn" /\ at = d
    /\ active[d]
    /\ delivering[d]
    /\ silent' = [silent EXCEPT ![d] = IF SignOfLife(FALSE) THEN 0 ELSE @]
    /\ Checked(d, silent'[d])
    /\ UNCHANGED <<use, busVars, stop, delay, sequence, frame, age, readerVars>>

PollNothing(d) ==
    /\ step = "turn" /\ at = d
    /\ active[d]
    /\ Checked(d, silent[d])
    /\ UNCHANGED <<use, busVars, stop, silent, delay, sequence, frame, age, readerVars>>

\* An error, which librealsense may report once no more frames come.
PollFails(d) ==
    /\ step = "turn" /\ at = d
    /\ active[d]
    /\ ~delivering[d]
    /\ active' = [active EXCEPT ![d] = FALSE]
    /\ step' = "clear"
    /\ UNCHANGED <<use, busVars, at, blocked, stop, silent, delay, sequence, frame, age,
                   readerVars>>

-----------------------------------------------------------------------------
(* Tearing a camera down: make_device_unavailable, cleanup_device and, first *)
(* of all, invalidate_device_frames, whose three parts readers see apart.   *)

AfterClear(d) == IF d = PrimaryDevice THEN "unpend" ELSE "stopping"

\* Variant: the flags go, the data stay.
ClearNothing(d) ==
    /\ step = "clear" /\ at = d
    /\ step' = AfterClear(d)
    /\ UNCHANGED <<use, busVars, at, blocked, stop, streamVars, readerVars>>

ClearFrames(d) ==
    /\ step = "clear" /\ at = d
    /\ frame' = [frame EXCEPT ![d] = 0]
    /\ age' = [age EXCEPT ![d] = 0]
    /\ step' = AfterClear(d)
    /\ UNCHANGED <<use, busVars, at, blocked, stop, active, silent, delay, sequence,
                   readerVars>>

ClearPending ==
    /\ step = "unpend"
    /\ pending' = 0
    /\ step' = "stopping"
    /\ UNCHANGED <<use, busVars, at, blocked, stop, streamVars, cursor, poseVars>>

\* The pipeline is gone.
Stopped(d) ==
    /\ step = "stopping" /\ at = d
    /\ delivering' = [delivering EXCEPT ![d] = FALSE]
    /\ delay' = [delay EXCEPT ![d] = ReconnectDelay]
    /\ NextDevice
    /\ UNCHANGED <<use, plugged, stop, active, silent, sequence, frame, age, readerVars>>

-----------------------------------------------------------------------------
(* The end of the source.                                                  *)

\* The last reader has let go of it.
DropSource ==
    /\ step \notin {"open", "closed"}
    /\ ~stop
    /\ reader = "idle"
    /\ stop' = TRUE
    /\ UNCHANGED <<use, busVars, step, at, blocked, streamVars, readerVars>>

\* close: the thread is joined, every camera cleaned up.
Close ==
    /\ step = "sleep"
    /\ stop
    /\ step' = "closed"
    /\ active' = [d \in Devices |-> FALSE]
    /\ delivering' = [d \in Devices |-> FALSE]
    /\ frame' = [d \in Devices |-> 0]
    /\ age' = [d \in Devices |-> 0]
    /\ pending' = 0
    /\ UNCHANGED <<use, plugged, at, blocked, stop, silent, delay, sequence, cursor,
                   poseVars>>

-----------------------------------------------------------------------------
(* The cameras.                                                            *)

Unplug(d) ==
    /\ plugged[d]
    /\ plugged' = [plugged EXCEPT ![d] = FALSE]
    /\ delivering' = [delivering EXCEPT ![d] = FALSE]
    /\ UNCHANGED <<use, step, at, blocked, stop, streamVars, readerVars>>

Plug(d) ==
    /\ ~plugged[d]
    /\ plugged' = [plugged EXCEPT ![d] = TRUE]
    /\ UNCHANGED <<use, delivering, step, at, blocked, stop, streamVars, readerVars>>

\* A pipeline may fall silent although its camera stays on the bus.
Freeze(d) ==
    /\ delivering[d]
    /\ delivering' = [delivering EXCEPT ![d] = FALSE]
    /\ UNCHANGED <<use, plugged, step, at, blocked, stop, streamVars, readerVars>>

-----------------------------------------------------------------------------
(* The readers.                                                            *)

Acquired == step # "open" /\ ~stop

\* get_depth_frame, whole under frame_mutex.
ReadDepth(d) ==
    /\ use = "spike"
    /\ Acquired
    /\ active[d]
    /\ frame[d] # 0
    /\ sequence[d] > cursor[d]
    /\ cursor' = [cursor EXCEPT ![d] = sequence[d]]
    /\ UNCHANGED <<use, busVars, step, at, blocked, stop, streamVars, pending, poseVars>>

loopVars == <<use, busVars, step, at, blocked, stop, streamVars, cursor>>

Reader(from, to) == reader = from /\ reader' = to

\* get_pose_frame_bgr8 looks at the camera, ...
WantImage ==
    /\ use = "pose"
    /\ Acquired
    /\ active[PrimaryDevice]
    /\ Reader("idle", "copy")
    /\ measured' = NoPose
    /\ UNCHANGED <<loopVars, image, pending>>

\* ... copies both images under frame_mutex, if they are still there, ...
CopyImages ==
    /\ IF frame[PrimaryDevice] # 0 THEN Reader("copy", "keep") ELSE Reader("copy", "idle")
    /\ image' = frame[PrimaryDevice]
    /\ UNCHANGED <<loopVars, measured, pending>>

\* Variant: the depth of an image without a pose stays.
KeepFirstDepth ==
    /\ Reader("keep", "infer")
    /\ pending' = IF pending = 0 THEN image ELSE pending
    /\ UNCHANGED <<loopVars, image, measured>>

\* ... and puts the depth aside under pose_mutex while the model runs.
KeepDepth ==
    /\ Reader("keep", "infer")
    /\ pending' = image
    /\ UNCHANGED <<loopVars, image, measured>>

\* The model finds no pose.
InferNothing ==
    /\ Reader("infer", "idle")
    /\ image' = 0
    /\ UNCHANGED <<loopVars, measured, pending>>

InferPose ==
    /\ Reader("infer", "apply")
    /\ UNCHANGED <<loopVars, image, measured, pending>>

\* apply_depth_to_pose takes the depth put aside, ...
MeasureKept ==
    /\ pending # 0
    /\ Reader("apply", "idle")
    /\ measured' = [image |-> image, depth |-> pending]
    /\ image' = 0
    /\ pending' = 0
    /\ UNCHANGED loopVars

NothingKept ==
    /\ pending = 0
    /\ Reader("apply", "fallback")
    /\ UNCHANGED <<loopVars, image, measured, pending>>

\* ... or what the camera has now, if it has anything.
MeasureCurrent ==
    /\ active[PrimaryDevice]
    /\ frame[PrimaryDevice] # 0
    /\ Reader("fallback", "idle")
    /\ measured' = [image |-> image, depth |-> frame[PrimaryDevice]]
    /\ image' = 0
    /\ UNCHANGED <<loopVars, pending>>

MeasureNothing ==
    /\ ~active[PrimaryDevice] \/ frame[PrimaryDevice] = 0
    /\ Reader("fallback", "idle")
    /\ image' = 0
    /\ UNCHANGED <<loopVars, measured, pending>>

-----------------------------------------------------------------------------
TurnOf(d) ==
    \/ StillWaiting(d) \/ Reconnect(d) \/ Reconnected(d) \/ ReconnectFails(d)
    \/ PollFrameset(d) \/ PollIncomplete(d) \/ PollNothing(d) \/ PollFails(d)
    \/ ClearFrames(d) \/ Stopped(d)

Capture ==
    \/ OpenDevice \/ Opened \/ OpenFails
    \/ WakeNow \/ WakeLater \/ ClearPending \/ Close
    \/ \E d \in Devices : TurnOf(d)

Inference ==
    \/ WantImage \/ CopyImages \/ KeepDepth \/ InferNothing \/ InferPose
    \/ MeasureKept \/ NothingKept \/ MeasureCurrent \/ MeasureNothing

Bus(d) == Unplug(d) \/ Plug(d) \/ Freeze(d)

Next ==
    \/ Capture \/ Block \/ DropSource \/ Inference
    \/ \E d \in Devices : Bus(d) \/ ReadDepth(d)

Spec == Init /\ [][Next]_vars

\* The thread keeps running and time passes between its rounds; a camera that is
\* on the bus can be started sooner or later.  Nothing is assumed of frames, nor
\* of how long they keep coming.
FairSpec ==
    /\ Spec
    /\ WF_vars(Capture)
    /\ SF_vars(WakeLater)
    /\ \A d \in Devices : SF_vars(Reconnected(d))

-----------------------------------------------------------------------------
TypeOK ==
    /\ use \in Uses
    /\ plugged \in [Devices -> BOOLEAN]
    /\ delivering \in [Devices -> BOOLEAN]
    /\ step \in Steps
    /\ at \in 0 .. DeviceCount
    /\ at = DeviceCount => step = "open"
    /\ blocked \in 0 .. MaxBlock
    /\ stop \in BOOLEAN
    /\ active \in [Devices -> BOOLEAN]
    /\ silent \in [Devices -> 0 .. StallTimeout]
    /\ delay \in [Devices -> 0 .. ReconnectDelay]
    /\ sequence \in [Devices -> Nat]
    /\ frame \in [Devices -> Nat]
    /\ age \in [Devices -> 0 .. OldestPacket + 1]
    /\ cursor \in [Devices -> Nat]
    /\ reader \in ReaderSteps
    /\ image \in Nat
    /\ pending \in Nat
    /\ measured \in [image : Nat, depth : Nat]

\* A camera that fails or falls silent loses its last depth packet in bounded
\* time, although one thread serves all cameras, a reconnect of another one may
\* hold it up, and incomplete framesets go on arriving (d4xx.h: "without keeping
\* the last depth packet alive indefinitely").
NoOldPacket == \A d \in Devices : frame[d] # 0 => age[d] <= OldestPacket

\* A pose is measured in the depth packet kept with its image, however many framesets
\* were published while the model ran; only when the primary camera was torn down
\* meanwhile is the packet gone, and then the depth is of a later frameset, never of
\* one before the image (realsense-d4xx.md: "retains the aligned depth packet that
\* belongs to each pose input until inference completes").
UsesItsPacket ==
    measured' \notin {measured, NoPose} =>
        \/ measured'.depth = measured'.image
        \/ pending = 0 /\ measured'.depth > measured'.image
KeepsItsPacket ==
    reader \in {"infer", "apply"} /\ reader' # "idle" /\ pending' # pending =>
        ~active[PrimaryDevice]
PoseHasItsDepth == [][UsesItsPacket /\ KeepsItsPacket]_vars

\* What readers see of a camera through failures and reconnects is its newest
\* frame or nothing, and the numbers by which SpikeSource tells new frames from
\* old ones go on where they were.
Abstract == INSTANCE LatestFrame WITH
    newest  <- sequence,
    offered <- [d \in Devices |-> IF active[d] THEN frame[d] ELSE 0],
    taken   <- cursor
ImplementsLatestFrame == Abstract!AbsSpec

\* A camera that stays on the bus comes back, whatever the other cameras do.
Recovers == \A d \in Devices : []<>(active[d] \/ ~plugged[d] \/ stop)

\* Dropping the source ends, although a camera may be failing to come back.
CloseEnds == stop ~> step = "closed"

\* What the comment on apply_depth_to_pose says: the pose is measured in the
\* depth that was captured with its image.
DepthIsItsOwn == measured.depth = measured.image
-----------------------------------------------------------------------------
(* The inductive invariant.                                                *)

\* A frameset held is the newest; one that outlives its camera is about to be
\* cleared.
FrameInv(d) ==
    /\ frame[d] \in {0, sequence[d]}
    /\ ~active[d] /\ frame[d] # 0 => step = "clear" /\ at = d

\* The reader's image is not from the future, the depth put aside is its own, and once
\* that is gone the camera shows nothing or something newer.
Working == {"infer", "apply", "fallback"}
PoseInv ==
    /\ image <= sequence[PrimaryDevice]
    /\ reader \in {"keep"} \union Working => image # 0
    /\ reader \in Working => pending \in {0, image}
    /\ reader \in Working /\ pending = 0 =>
            frame[PrimaryDevice] = 0 \/ frame[PrimaryDevice] > image
    /\ reader = "fallback" => pending = 0

\* The thread that infers holds the source.
HeldInv == ~Acquired => reader = "idle"

\* A round: no call into librealsense is under way but in "reconnect" and
\* "stopping", which only a camera without a stream is in, the sleep is at its end,
\* and open publishes nothing.
RoundInv ==
    /\ step \notin {"reconnect", "stopping"} => blocked = 0
    /\ step \in {"reconnect", "clear", "unpend", "stopping"} => ~active[at]
    /\ step = "unpend" => at = PrimaryDevice
    /\ step = "sleep" => at = 0
    /\ step = "open" => \A d \in Devices : frame[d] = 0

\* How long the thread may have been away from a camera since it looked at it:
\* the cameras served since then and, once the round is over, its sleep.
Away(d) ==
    IF step = "sleep" THEN HeldUp(DeviceCount - 1 - d)
    ELSE IF at > d THEN HeldUp(at - d - 1) + blocked
    ELSE HeldUp(DeviceCount - 1 - d + at) + blocked + 1

\* A packet is as old as its camera is silent, and was younger than the stall
\* timeout when the thread looked at it.
AgeInv(d) ==
    frame[d] # 0 =>
        /\ active[d] => silent[d] \in {age[d], StallTimeout}
        /\ age[d] + 1 <= StallTimeout + Away(d)

CaptureInv ==
    /\ TypeOK
    /\ \A d \in Devices : FrameInv(d)
    /\ PoseInv
    /\ HeldInv
    /\ RoundInv
    /\ \A d \in Devices : AgeInv(d)
=============================================================================
