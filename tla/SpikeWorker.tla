---------------------------- MODULE SpikeWorker ----------------------------
(***************************************************************************)
(* The main loop of the SPiKE worker (run in worker.py) against the clock: *)
(* depth frames of two cameras become a room background each, then clips   *)
(* of consecutive frames with a player in them, then at most one inference *)
(* per turn, then a pose made of the newest prediction of every camera.    *)
(*                                                                         *)
(* What the loop must get right is age.  A frame, a clip, a prediction and *)
(* a published pose are each only as good as the frames they came from,    *)
(* and the loop decides that from readings of its own clock at different   *)
(* moments of a turn, from capture times, and from sequence numbers.       *)
(*                                                                         *)
(* Time is counted in ticks, which pass where a turn takes time; the host  *)
(* and the worker read the same steady clock.  A depth image, a cloud of   *)
(* points and a set of joints are left out: a frame is its sequence number *)
(* and its capture time, and whether isolate_player finds enough points in *)
(* it is open, as is whether fuse_views finds the joints plausible.        *)
(* SpikeChannel shows that a read returns one whole frame, newer than the  *)
(* cursor it was given; SpikeLifecycle models the loop's exit.             *)
(***************************************************************************)
EXTENDS Integers, Sequences, FiniteSets, FiniteSetsExt

CONSTANTS
    Configurations,         \* what the configuration file may say: fusion.mode,
                            \* background_calibration_frames (45 by default)
                            \* and frames_per_clip (3)
    PrimaryCamera,          \* fusion.primary_camera, until the serials are known
    PrimarySerial,          \* the camera that has primary_serial
    SecondaryEveryN,        \* runtime.secondary_every_n (3)
    DropoutHold,            \* isolation.dropout_hold_ms (100 ms)
    MaximumGap,             \* MAXIMUM_CLIP_FRAME_GAP_NS (125 ms)
    MaximumInputAge,        \* MAXIMUM_INPUT_AGE_NS (150 ms)
    MinimumInterval,        \* 1 / runtime.inference_fps (33 ms)
    DueAfter,               \* MinimumInterval less the cadence tolerance (25 ms)
    StartupTimeout,         \* CALIBRATION_STARTUP_TIMEOUT_NS (10 s)
    StallTimeout,           \* CALIBRATION_STALL_NS (2 s)
    MaxSkip,                \* bound on the frames nobody looks at between two others
    MaxLatency,             \* bounds, for each configuration, on the age of a frame
                            \* when it is first looked at
    MaxTime                 \* and on the clock

Cameras == {0, 1}
Start   == 1                \* the time at which the loop is entered
NoTime  == -1               \* None
NoFrame == [seq |-> 0, time |-> 0]

ASSUME WorkerAssumption ==
    /\ Configurations \subseteq [fusion_mode : {"primary", "calibrated"},
                                 background_calibration_frames : Nat,
                                 frames_per_clip : Nat \ {0}]
    /\ PrimaryCamera \in Cameras /\ PrimarySerial \in Cameras
    /\ SecondaryEveryN \in Nat \ {0}
    /\ MinimumInterval \in Nat \ {0} /\ DueAfter \in Nat \ {0}
    /\ DropoutHold \in Nat /\ MaximumGap \in Nat /\ MaximumInputAge \in Nat
    /\ StartupTimeout \in Nat /\ StallTimeout \in Nat /\ MaxSkip \in Nat
    /\ MaxLatency \in [Configurations -> Nat]
    /\ MaxTime \in [Configurations -> Nat]
    /\ DueAfter <= MinimumInterval

VARIABLES
    now,            \* the steady clock
    config,         \* the configuration that was loaded
    slot,           \* [Cameras -> frame]: the newest frame the worker has looked at
    pc,             \* where the turn is
    todo,           \* the cameras the current step of the turn has still to serve
    frames,         \* [Cameras -> frame]: what read_depth returned in this turn
    isolation_now,  \* isolation_now_ns
    input_fresh,    \* [Cameras -> BOOLEAN]
    chosen,         \* inference_indices
    cam,            \* [Cameras -> the variables run keeps for the camera]
    hold_off,       \* next_inference_ns, as the ticks left until then
    output_count,   \* modulo SecondaryEveryN
    previous_time,  \* previous_time_ns
    pose,           \* the pose this turn has published, NoPose if none
    joints_time,    \* history: the capture time previous_joints belong to
    lost_at,        \* history: [Cameras -> the last frame before the player was last lost]
    reused          \* history: how many inferences in a row refreshed the secondary
                    \* camera's prediction although the primary had a new clip

turnVars == <<todo, frames, isolation_now, input_fresh, chosen>>
outVars  == <<hold_off, output_count, pose, joints_time>>
vars     == <<now, config, slot, pc, turnVars, cam, outVars, previous_time, lost_at, reused>>

-----------------------------------------------------------------------------
(* What the loop holds.                                                    *)

mode              == config.fusion_mode
CalibrationFrames == config.background_calibration_frames
FramesPerClip     == config.frames_per_clip

EmptyPose(t) == [time |-> t, valid |-> {}, fused |-> FALSE, elapsed |-> NoTime]
NoPose       == EmptyPose(NoTime)

FreshCamera ==
    [samples |-> 0,             \* background_samples; a background once there are enough
     source |-> NoFrame,        \* source_sequence, source_time_ns
     last_frame |-> 0,          \* last_frame_monotonic_ns
     candidate |-> NoFrame,     \* candidate_sequence, candidate_time_ns
     last_candidate |-> 0,      \* last_candidate_monotonic_ns
     valid |-> FALSE,           \* latest_valid
     history |-> <<>>,          \* histories: the frames of the clip, each with
                                \* the time "at" which it was isolated
     prediction |-> [seq |-> 0, time |-> 0, first |-> 0],
                                \* prediction_sequence, prediction_time_ns, and
                                \* the first frame of the clip it was made from
     prediction_valid |-> FALSE]

Init ==
    /\ now = Start
    /\ config \in Configurations
    /\ slot = [c \in Cameras |-> NoFrame]
    /\ pc = "read"
    /\ todo = {}
    /\ frames = [c \in Cameras |-> NoFrame]
    /\ isolation_now = NoTime
    /\ input_fresh = [c \in Cameras |-> FALSE]
    /\ chosen = {}
    /\ cam = [c \in Cameras |-> FreshCamera]
    /\ hold_off = 0
    /\ output_count = 0
    /\ previous_time = NoTime
    /\ pose = NoPose
    /\ joints_time = NoTime
    /\ lost_at = [c \in Cameras |-> 0]
    /\ reused = 0

Stamp(f) == [seq |-> f.seq, time |-> f.time]

\* The cameras in the order in which the loops of a turn serve them.
Turn(S) == CHOOSE c \in S : \A d \in S : c <= d

-----------------------------------------------------------------------------
(* The head of a turn.                                                     *)

\* A turn is over: the loop waits for input, 20 ms at most, and reads again.
\* What a turn leaves in its locals is overwritten before it is used.
EndTurn ==
    /\ pc' = "read"
    /\ todo' = {}
    /\ frames' = [c \in Cameras |-> NoFrame]
    /\ isolation_now' = NoTime
    /\ input_fresh' = [c \in Cameras |-> FALSE]
    /\ chosen' = {}

\* What read_depth may return: nothing, because there is nothing newer than the
\* cursor or the slot is being written, or the newest frame in the slot.  What
\* the host has published since the last look is chosen here: frames of a camera
\* are captured at different ticks, and frames nobody looked at are overwritten.
Newer(c) == {f \in [seq : slot[c].seq + 1 .. slot[c].seq + 1 + MaxSkip,
                     time : now - MaxLatency[config] .. now] : f.time > slot[c].time}

Readable(c) == {NoFrame} \cup Newer(c)
                  \cup (IF slot[c].seq > cam[c].source.seq THEN {slot[c]} ELSE {})

Calibrating(k) == \E c \in Cameras : k[c].samples < CalibrationFrames

\* Both cameras are read and the time at which frames were last seen is noted
\* for both at once; a camera that never delivered ends the worker.
Read ==
    /\ pc = "read"
    /\ \E f \in Readable(0), g \in Readable(1) : frames' = [c \in Cameras |-> IF c = 0 THEN f ELSE g]
    /\ slot' = [c \in Cameras |-> IF frames'[c] = NoFrame THEN slot[c] ELSE frames'[c]]
    /\ cam' = [c \in Cameras |-> IF frames'[c] = NoFrame THEN cam[c]
                                 ELSE [cam[c] EXCEPT !.last_frame = now]]
    /\ pc' = IF now - Start > StartupTimeout /\ \E c \in Cameras : cam'[c].last_frame = 0
             THEN "failed"
             ELSE IF Calibrating(cam) THEN "calibrate" ELSE "sort"
    /\ pose' = NoPose
    /\ UNCHANGED <<now, config, todo, isolation_now, input_fresh, chosen, hold_off,
                   output_count, joints_time, previous_time, lost_at, reused>>

Arrived == {c \in Cameras : frames[c] # NoFrame}

-----------------------------------------------------------------------------
(* Background calibration.                                                 *)

\* A camera without a background takes the frame as a sample; one that has its
\* background leaves the frame, and its cursor, where they are.
Sampled ==
    [c \in Cameras |->
        IF c \in Arrived /\ cam[c].samples < CalibrationFrames
        THEN [cam[c] EXCEPT !.source = Stamp(frames[c]), !.samples = @ + 1]
        ELSE cam[c]]

Stalled(c) == \/ cam[c].last_frame = 0
              \/ now - cam[c].last_frame > StallTimeout

PublishEmpty(t) ==
    /\ hold_off' = MinimumInterval
    /\ output_count' = (output_count + 1) % SecondaryEveryN
    /\ pose' = EmptyPose(t)
    /\ UNCHANGED joints_time

CalibrationEnds ==
    /\ pc = "calibrate"
    /\ ~Calibrating(Sampled)
    /\ cam' = Sampled
    /\ pc' = "sort"
    /\ UNCHANGED <<now, config, slot, turnVars, outVars, previous_time, lost_at, reused>>

CalibrationStalls ==
    /\ pc = "calibrate"
    /\ Calibrating(Sampled)
    /\ now - Start > StartupTimeout
    /\ \E c \in Cameras : Stalled(c)
    /\ cam' = Sampled
    /\ pc' = "failed"
    /\ UNCHANGED <<now, config, slot, turnVars, outVars, previous_time, lost_at, reused>>

CalibrationGoesOn ==
    /\ pc = "calibrate"
    /\ Calibrating(Sampled)
    /\ ~(now - Start > StartupTimeout /\ \E c \in Cameras : Stalled(c))
    /\ cam' = Sampled
    /\ EndTurn
    /\ IF hold_off = 0
       THEN PublishEmpty(Max({Sampled[c].source.time : c \in Cameras}))
       ELSE UNCHANGED outVars
    /\ UNCHANGED <<now, config, slot, previous_time, lost_at, reused>>

-----------------------------------------------------------------------------
(* Isolation: every frame continues the clip of its camera or breaks it.   *)

\* Once both serials are known the primary camera is the one the
\* configuration names by serial.
Primary   == IF \A c \in Cameras : cam[c].last_frame # 0 THEN PrimarySerial
                                                         ELSE PrimaryCamera
Secondary == 1 - Primary

Processing == IF mode = "primary" THEN {Primary} ELSE Cameras

\* Time passes between turns, while players are isolated (both cameras at once,
\* in two threads), and while the model runs.
Tick ==
    /\ \/ pc \in {"read", "infer"}
       \/ pc = "isolate" /\ todo = Arrived \cap Processing
    /\ now < MaxTime[config]
    /\ now' = now + 1
    /\ hold_off' = IF hold_off > 0 THEN hold_off - 1 ELSE 0
    /\ UNCHANGED <<config, slot, pc, turnVars, cam, output_count, pose, joints_time,
                   previous_time, lost_at, reused>>

\* A camera that is not processed keeps its cursor current.
Sort ==
    /\ pc = "sort"
    /\ pc' = "isolate"
    /\ isolation_now' = now
    /\ todo' = Arrived \cap Processing
    /\ cam' = [c \in Cameras |->
                  IF c \in Arrived \ Processing
                  THEN [cam[c] EXCEPT !.source = Stamp(frames[c])]
                  ELSE cam[c]]
    /\ UNCHANGED <<now, config, slot, frames, input_fresh, chosen, outVars,
                   previous_time, lost_at, reused>>

Contiguous(f, g) == /\ g.seq > f.seq
                    /\ g.time - f.time \in 1 .. MaximumGap

ContinuityLost(k, f) == /\ k.source.seq # 0
                        /\ f.seq # k.source.seq
                        /\ ~Contiguous(k.source, f)

\* Variant: the prediction outlives the player.
LosePlayerOnly(k) == [k EXCEPT !.valid = FALSE, !.history = <<>>]

\* What goes when the player is lost, and what more goes when the frames are.
LosePlayer(k) ==
    [k EXCEPT !.valid = FALSE, !.history = <<>>,
              !.prediction_valid = FALSE, !.prediction.time = 0]
LoseInput(k) ==
    [LosePlayer(k) EXCEPT !.candidate = NoFrame, !.last_candidate = 0]

\* Variant: the hold is not limited.
BridgeableForever(k) == k.valid /\ k.history # <<>>

\* One short miss does not break a clip.
Bridgeable(k) ==
    /\ k.valid
    /\ k.history # <<>>
    /\ k.last_candidate > 0
    /\ DropoutHold > 0
    /\ isolation_now - k.last_candidate \in 0 .. DropoutHold

AppendToClip(h, e) ==
    LET longer == Append(h, e)
    IN  IF Len(longer) > FramesPerClip THEN Tail(longer) ELSE longer

FindPlayer(k, f) ==
    [k EXCEPT !.valid = TRUE, !.candidate = Stamp(f), !.last_candidate = now,
              !.history = AppendToClip(@, [seq |-> f.seq, time |-> f.time, at |-> now])]

Continued(k, f) == IF ContinuityLost(k, f) THEN LoseInput(k) ELSE k

Isolated(k, f, player) ==
    LET here == [Continued(k, f) EXCEPT !.source = Stamp(f)]
    IN  IF player THEN FindPlayer(here, f)
        ELSE IF Bridgeable(here) THEN here ELSE LosePlayer(here)

Isolate ==
    /\ pc = "isolate"
    /\ todo # {}
    /\ LET c == Turn(todo)
           f == frames[c]
       IN  \E player \in BOOLEAN :
              /\ todo' = todo \ {c}
              /\ cam' = [cam EXCEPT ![c] = Isolated(@, f, player)]
              /\ previous_time' = cam[c].source.time
              /\ lost_at' = [lost_at EXCEPT ![c] =
                    CASE ~player /\ isolation_now > cam[c].last_candidate + DropoutHold
                            -> f.seq
                      [] f.seq # cam[c].source.seq /\ f.time > cam[c].source.time + MaximumGap
                            -> cam[c].source.seq
                      [] OTHER -> @]
    /\ UNCHANGED <<now, config, slot, pc, frames, isolation_now, input_fresh, chosen,
                   outVars, reused>>

-----------------------------------------------------------------------------
(* Freshness, and the choice of at most one clip for the model.            *)

\* Variant: a camera that delivered once is fresh.
FreshForever(c) == cam[c].last_frame > 0

Fresh(c) == /\ cam[c].last_frame > 0
            /\ now - cam[c].last_frame \in 0 .. MaximumInputAge

\* The cameras' variables once stale input has been dropped.
Checked == [c \in Cameras |-> IF ~Fresh(c) /\ cam[c].valid THEN LoseInput(cam[c])
                                                           ELSE cam[c]]

Ready == {c \in Cameras : /\ Fresh(c)
                          /\ Checked[c].valid
                          /\ Len(Checked[c].history) = FramesPerClip}

NeedsInference(c) ==
    /\ c \in Ready
    /\ \/ ~Checked[c].prediction_valid
       \/ Checked[c].prediction.seq # Checked[c].candidate.seq

\* source_sample_is_due
SampleIsDue(c) ==
    LET candidate == Checked[c].candidate.time
        predicted == Checked[c].prediction.time
    IN  /\ candidate > 0
        /\ \/ predicted <= 0
           \/ candidate - predicted >= DueAfter

\* Variant: the secondary camera is refreshed whenever it has something new.
SecondaryAlwaysDue == TRUE

SecondaryDue ==
    \/ ~Checked[Secondary].prediction_valid
    \/ output_count = 0

If(c) == IF NeedsInference(c) THEN {c} ELSE {}

\* select_inference_indices
Select ==
    IF Primary \notin Ready THEN If(Secondary)
    ELSE IF mode # "calibrated" \/ Secondary \notin Ready THEN If(Primary)
    ELSE IF ~Checked[Primary].prediction_valid /\ NeedsInference(Primary) THEN {Primary}
    ELSE IF SecondaryDue /\ NeedsInference(Secondary) THEN {Secondary}
    ELSE If(Primary)

Due == {c \in Select : SampleIsDue(c)}

\* The freshness check itself, the first part of each of the next three steps.
CheckInput ==
    /\ pc = "isolate"
    /\ todo = {}
    /\ cam' = Checked
    /\ lost_at' = [c \in Cameras |-> IF Fresh(c) THEN lost_at[c] ELSE cam[c].source.seq]
    /\ UNCHANGED <<now, config, slot, previous_time>>

NobodyReady ==
    /\ CheckInput
    /\ Ready = {}
    /\ EndTurn
    /\ IF hold_off = 0
       THEN PublishEmpty(Max({cam[c].source.time : c \in Processing}))
       ELSE UNCHANGED outVars
    /\ UNCHANGED reused

NothingDue ==
    /\ CheckInput
    /\ Ready # {}
    /\ Due = {}
    /\ EndTurn
    /\ UNCHANGED outVars
    /\ UNCHANGED reused

StartInference ==
    /\ CheckInput
    /\ Ready # {}
    /\ Due # {}
    /\ pc' = "infer"
    /\ chosen' = Due
    /\ input_fresh' = [c \in Cameras |-> Fresh(c)]
    /\ reused' = IF /\ Due = {Secondary}
                    /\ Checked[Secondary].prediction_valid
                    /\ NeedsInference(Primary)
                 THEN reused + 1 ELSE 0
    /\ UNCHANGED <<todo, frames, isolation_now, outVars>>

-----------------------------------------------------------------------------
(* The model has run: predict, fuse, publish.                              *)

\* The prediction is filed under the newest frame, not the newest candidate.
Predicted ==
    [c \in Cameras |->
        IF c \in chosen
        THEN [cam[c] EXCEPT !.prediction = [seq |-> cam[c].source.seq,
                                            time |-> cam[c].candidate.time,
                                            first |-> Head(cam[c].history).seq],
                            !.prediction_valid = TRUE]
        ELSE cam[c]]

MaximumPredictionAge == Max({2, SecondaryEveryN * 2})

CameraValid(c) ==
    /\ Predicted[c].prediction_valid
    /\ input_fresh[c]
    /\ cam[c].valid
    /\ cam[c].candidate.seq - Predicted[c].prediction.seq <= MaximumPredictionAge

NewestTime == Max({cam[c].candidate.time : c \in Processing})

\* elapsed_seconds, which turns a joint's move into its speed.
Elapsed == IF previous_time # NoTime /\ NewestTime > previous_time
           THEN NewestTime - previous_time
           ELSE NoTime

Publish ==
    /\ pc = "infer"
    /\ \E fused \in BOOLEAN :
          /\ fused => \E c \in Cameras : CameraValid(c)
          /\ pose' = [time |-> NewestTime,
                      valid |-> {c \in Cameras : CameraValid(c)},
                      fused |-> fused,
                      elapsed |-> Elapsed]
          /\ previous_time' = IF fused THEN NewestTime ELSE previous_time
          /\ joints_time' = IF fused THEN NewestTime ELSE joints_time
    /\ output_count' = (output_count + 1) % SecondaryEveryN
    /\ cam' = Predicted
    /\ EndTurn
    /\ UNCHANGED <<now, config, slot, hold_off, lost_at, reused>>

-----------------------------------------------------------------------------
Next ==
    \/ Tick
    \/ Read
    \/ CalibrationEnds
    \/ CalibrationStalls
    \/ CalibrationGoesOn
    \/ Sort
    \/ Isolate
    \/ NobodyReady
    \/ NothingDue
    \/ StartInference
    \/ Publish

Spec == Init /\ [][Next]_vars

-----------------------------------------------------------------------------
(* Properties.                                                             *)

Frames == [seq : Nat, time : Nat]
Clips  == Seq([seq : Nat, time : Nat, at : Nat])

CameraRecords ==
    [samples : Nat, source : Frames, last_frame : Nat, candidate : Frames,
     last_candidate : Nat, valid : BOOLEAN, history : Clips,
     prediction : [seq : Nat, time : Nat, first : Nat], prediction_valid : BOOLEAN]

\* Every variable holds a value of its type.
TypeOK ==
    /\ now \in Nat
    /\ config \in Configurations
    /\ slot \in [Cameras -> Frames]
    /\ pc \in {"read", "calibrate", "sort", "isolate", "infer", "failed"}
    /\ todo \subseteq Cameras
    /\ frames \in [Cameras -> Frames]
    /\ isolation_now \in Nat \cup {NoTime}
    /\ input_fresh \in [Cameras -> BOOLEAN]
    /\ chosen \subseteq Cameras
    /\ cam \in [Cameras -> CameraRecords]
    /\ \A c \in Cameras : /\ cam[c].samples <= CalibrationFrames
                          /\ Len(cam[c].history) <= FramesPerClip
    /\ hold_off \in 0 .. MinimumInterval
    /\ output_count \in 0 .. SecondaryEveryN - 1
    /\ reused \in Nat
    /\ previous_time \in Nat \cup {NoTime}
    /\ joints_time \in Nat \cup {NoTime}
    /\ lost_at \in [Cameras -> Nat]
    /\ pose \in [time : Nat \cup {NoTime}, valid : SUBSET Cameras, fused : BOOLEAN,
                 elapsed : Nat \cup {NoTime}]

\* A clip is one uninterrupted sight of the player: its frames are in capture
\* order, and each was captured before the dropout hold and the longest
\* gap had passed since the frame before it was isolated.  The two limits are
\* enforced in different places, on different clocks, and misses may lie
\* between two frames of a clip (realtime_clip_frame_is_contiguous,
\* candidate_dropout_is_bridgeable).
ClipIsUnbroken ==
    \A c \in Cameras : \A i \in 2 .. Len(cam[c].history) :
        LET f == cam[c].history[i - 1]
            g == cam[c].history[i]
        IN  /\ g.seq > f.seq
            /\ g.time > f.time
            /\ g.time <= f.at + DropoutHold + MaximumGap

\* Nothing survives a loss: once frames stopped for too long, or the player was
\* missing for longer than the hold, neither the clip nor a prediction that
\* still counts as valid has a frame from before.  The loop forgets in three
\* places, each with a list of its own.
NothingSurvivesALoss ==
    \A c \in Cameras :
        /\ \A i \in 1 .. Len(cam[c].history) : cam[c].history[i].seq > lost_at[c]
        /\ cam[c].prediction_valid => cam[c].prediction.first > lost_at[c]

\* A view that can become part of a pose saw the player recently: when the turn
\* decides, no fresh camera that still has a player isolated its last candidate
\* longer ago than the dropout hold and the maximum input age together.  The two
\* limits are measured from different events, and the hold is looked at only
\* when a frame arrives.
ViewsAreRecent ==
    [][StartInference =>
          \A c \in Cameras : Fresh(c) /\ cam'[c].valid =>
              now - cam'[c].last_candidate <= DropoutHold + MaximumInputAge]_vars

\* Stale depth is never retained as current: the player of a view that a published pose
\* counts as valid was last seen no longer before the pose's own frame than the dropout
\* hold and the maximum input age (docs/research/d430-spike-roadmap.md).
StaleDepthIsDropped ==
    [][pc = "infer" /\ pc' = "read" =>
          \A c \in pose'.valid :
              pose'.time - cam[c].last_candidate <= DropoutHold + MaximumInputAge]_vars

\* The batch-1 schedule: the primary camera gives way to a regular refresh of the
\* secondary for one inference, and never for two in a row, however empty poses
\* and lost players shift the count of outputs.
PrimaryIsRefreshed == SecondaryEveryN > 1 => reused <= 1

\* fuse_views judges the joints' speed by the time that has passed since the
\* joints it compares them with (fusion.py, temporal_confidence).
ElapsedIsSinceJoints ==
    [][pc = "infer" /\ pc' = "read" /\ joints_time # NoTime
        => pose'.elapsed \in {NoTime, pose'.time - joints_time}]_vars

\* A new clip of the primary camera that is due gets the inference of the turn or
\* gives way to the secondary's, but is never kept waiting by a camera that has
\* nothing to infer.
DuePrimaryIsServed ==
    [][pc = "isolate" /\ todo = {} /\ NeedsInference(Primary) /\ SampleIsDue(Primary)
        => Due # {}]_vars
=============================================================================
