------------------------------ MODULE BodyHold ------------------------------
(***************************************************************************)
(* The body the game gets: analysis_loop and d4xx_analysis_loop, which     *)
(* repeat, extrapolate, mark as inferred and at last withdraw a body when  *)
(* detections are late or stop.                                            *)
(*                                                                         *)
(* Moments are kept as the time that has passed since, up to Cap. One loop *)
(* serves SPiKE, the native skeletons of SkeletonSource and the webcam;    *)
(* for the D4xx with MediaPipe an inference thread and an output thread    *)
(* share the latest pose under a mutex.                                    *)
(***************************************************************************)
EXTENDS SkeletonSource

CONSTANTS
    Hold,          \* BodyHoldMs
    InferAfter,    \* 100 ms, after which a held body is called inferred
    MaxGap,        \* 250 ms, the longest interval a velocity is taken from
    MissLimit,     \* 5 frames of a webcam
    MaxSampleAge,  \* bound: age of a SPiKE sample when it is received
    MaxDelay,      \* bound: time between two adjacent statements
    Word           \* 2^64, or anything larger than every age

Cap == Hold + InferAfter + MaxGap + MaxSampleAge + MaxDelay + 1

ASSUME HoldAssumption ==
    /\ Hold \in Nat /\ InferAfter \in Nat /\ MaxGap \in Nat /\ MissLimit \in Nat
    /\ MaxSampleAge \in Nat /\ MaxDelay \in Nat
    /\ Word \in Nat /\ Word > 2 * Cap

VARIABLES
    backend,
    player,        \* the player can be seen
    body,          \* the body last handed to the game
    have,          \* have_latest
    attemptOk,     \* last_attempt_valid, spike_last_worker_valid
    validAge,      \* since last_valid_ms or last_detected_ms
    latestAge,     \* since the latest body's sample
    previousAge,   \* since the sample before
    havePrevious,
    miss,          \* frames of a webcam without a body
    infer,         \* the inference thread: step, since sample_ms, found, since completion_ms
    output,        \* the output thread: step, since now_ms
    broken         \* which of latest and previous the game saw withdrawn (history)

Backends == {"d4xx", "spike", "kinect", "steamvr", "webcam"}

poseVars == <<have, attemptOk, validAge, latestAge, previousAge, havePrevious>>
vars == <<backend, player, body, poseVars, miss, infer, output, broken, sourceVars>>

Init ==
    /\ backend \in Backends
    /\ player \in BOOLEAN
    /\ SourceInit
    /\ body = "none"
    /\ have = FALSE
    /\ attemptOk = FALSE
    /\ validAge = Cap
    /\ latestAge = Cap
    /\ previousAge = Cap
    /\ havePrevious = FALSE
    /\ miss = MissLimit + 1
    /\ infer = [step |-> "idle", sample |-> 0, found |-> FALSE, done |-> 0]
    /\ output = [step |-> "idle", now |-> 0]
    /\ broken = {}

PlayerMoves ==
    /\ player' = ~player
    /\ UNCHANGED <<backend, body, poseVars, miss, infer, output, broken, sourceVars>>

Older(age) == IF age < Cap THEN age + 1 ELSE Cap

Tick ==
    /\ infer.step = "done" => infer.done < MaxDelay
    /\ output.step = "look" => output.now < MaxDelay
    /\ validAge' = Older(validAge)
    /\ latestAge' = Older(latestAge)
    /\ previousAge' = Older(previousAge)
    /\ infer' = IF infer.step = "idle" THEN infer
                ELSE [infer EXCEPT !.sample = Older(@),
                                   !.done = IF infer.step = "done" THEN @ + 1 ELSE 0]
    /\ output' = IF output.step = "idle" THEN output ELSE [output EXCEPT !.now = @ + 1]
    /\ UNCHANGED <<backend, player, body, have, attemptOk, havePrevious, miss, broken>>
    /\ IF backend \in {"kinect", "steamvr"} THEN SourceTick ELSE UNCHANGED sourceVars

-----------------------------------------------------------------------------
(* d4xx_analysis_loop: the inference thread.                               *)

TakeFrame ==
    /\ backend = "d4xx"
    /\ infer.step = "idle"
    /\ infer' = [step |-> "infer", sample |-> 0, found |-> FALSE, done |-> 0]
    /\ UNCHANGED <<backend, player, body, poseVars, miss, output, broken, sourceVars>>

InferPose ==
    /\ infer.step = "infer"
    /\ \E found \in {FALSE, player} :
          infer' = [infer EXCEPT !.step = "done", !.found = found]
    /\ UNCHANGED <<backend, player, body, poseVars, miss, output, broken, sourceVars>>

StorePose ==
    /\ infer.step = "done"
    /\ attemptOk' = infer.found
    /\ IF infer.found
       THEN /\ havePrevious' = have
            /\ previousAge' = latestAge
            /\ latestAge' = infer.sample
            /\ validAge' = infer.done
            /\ have' = TRUE
       ELSE UNCHANGED <<have, validAge, latestAge, previousAge, havePrevious>>
    /\ infer' = [step |-> "idle", sample |-> 0, found |-> FALSE, done |-> 0]
    /\ UNCHANGED <<backend, player, body, miss, output, broken, sourceVars>>

-----------------------------------------------------------------------------
(* d4xx_analysis_loop: the output thread.                                  *)

\* now_ms is read before the lock is taken.
ReadNow ==
    /\ backend = "d4xx"
    /\ output.step = "idle"
    /\ output' = [step |-> "look", now |-> 0]
    /\ UNCHANGED <<backend, player, body, poseVars, miss, infer, broken, sourceVars>>

\* now_ms - last_valid_ms, unsigned.
SinceValid == (Word + validAge - output.now) % Word

\* Variant: a held body is never called inferred.
HeldState == "tracked"

HeldBody == IF ~attemptOk /\ SinceValid > InferAfter THEN "inferred" ELSE "tracked"

Deliver ==
    /\ output.step = "look"
    /\ body' = IF have /\ SinceValid <= Hold THEN HeldBody ELSE "none"
    /\ output' = [step |-> "idle", now |-> 0]
    /\ UNCHANGED <<backend, player, poseVars, miss, infer, broken, sourceVars>>

-----------------------------------------------------------------------------
(* analysis_loop with SPiKE: one turn per output period.                   *)

\* A sample of the given age is filed.
FileSample(age) ==
    /\ IF ~have \/ age < latestAge
       THEN LET continuous == have /\ latestAge - age <= MaxGap IN
            /\ havePrevious' = continuous
            /\ previousAge' = IF continuous THEN latestAge ELSE previousAge
            /\ latestAge' = age
            /\ broken' = IF continuous /\ "latest" \in broken THEN {"previous"} ELSE {}
       ELSE IF age > latestAge
       THEN /\ latestAge' = age
            /\ havePrevious' = FALSE
            /\ broken' = {}
            /\ UNCHANGED previousAge
       ELSE UNCHANGED <<latestAge, previousAge, havePrevious, broken>>
    /\ have' = TRUE

SpikeSample ==
    /\ backend = "spike"
    /\ player
    /\ \E age \in 0..MaxSampleAge : FileSample(age)
    /\ attemptOk' = TRUE
    /\ validAge' = 0
    /\ body' = "tracked"
    /\ UNCHANGED <<backend, player, miss, infer, output, sourceVars>>

\* Variant: the samples survive the body.
KeepSamples ==
    /\ attemptOk' = FALSE
    /\ UNCHANGED <<have, havePrevious>>

\* The body is withdrawn, and no later one is extrapolated from it.
ForgetSamples ==
    /\ have' = FALSE
    /\ havePrevious' = FALSE
    /\ attemptOk' = FALSE

\* Variant: the hold never ends.
GraceForever(shown) == shown # "none"

\* hardware_grace, spike_resample
Grace(shown) == shown # "none" /\ validAge <= Hold

\* Without a valid sample: an invalid one was received, or none.
SpikeMiss ==
    /\ backend = "spike"
    /\ \E received \in BOOLEAN :
          LET shown == IF have THEN "tracked" ELSE body
              valid == attemptOk /\ ~received
          IN  IF Grace(shown)
              THEN /\ body' = IF valid THEN shown ELSE "inferred"
                   /\ attemptOk' = valid
                   /\ UNCHANGED <<have, havePrevious, broken>>
              ELSE /\ body' = "none"
                   /\ ForgetSamples
                   /\ broken' = {s \in {"latest", "previous"} :
                                    IF s = "latest" THEN have' ELSE havePrevious'}
    /\ UNCHANGED <<backend, player, validAge, latestAge, previousAge, miss, infer, output, sourceVars>>

-----------------------------------------------------------------------------
(* analysis_loop with a native skeleton, or with a webcam.                 *)

\* Frames of the source's worker: the Kinect's runtime may miss a person or see a ghost.
SourceFrame ==
    /\ \/ /\ backend = "kinect"
          /\ \E tracked \in SUBSET People :
                /\ tracked # {} => player
                /\ SkeletonFrame(tracked)
       \/ /\ backend = "steamvr"
          /\ \E who \in {Nobody} \cup IF player THEN {Wearer} ELSE {} : TrackerFrame(who)
    /\ UNCHANGED <<backend, player, body, poseVars, miss, infer, output, broken>>

StampSource ==
    /\ StampSkeleton
    /\ UNCHANGED <<backend, player, body, poseVars, miss, infer, output, broken>>

Found ==
    /\ body' = "tracked"
    /\ validAge' = 0
    /\ miss' = 0
    /\ UNCHANGED <<backend, player, have, attemptOk, latestAge, previousAge, havePrevious,
                   infer, output, broken>>

NativeDetect ==
    /\ \E who \in People \cup {Wearer} : ReadSkeleton(who)
    /\ Found
    /\ UNCHANGED exceptUnread

\* Without a publication the loop waits on, and calls nobody back.
NativeMiss ==
    /\ ReadSkeleton(Nobody)
    /\ body' = IF Grace(body) THEN "inferred" ELSE "none"
    /\ UNCHANGED <<backend, player, poseVars, miss, infer, output, broken, exceptUnread>>

NativeSkip ==
    /\ SkipSkeleton
    /\ UNCHANGED <<backend, player, body, poseVars, miss, infer, output, broken, exceptUnread>>

WebcamDetect ==
    /\ backend = "webcam"
    /\ player
    /\ Found
    /\ UNCHANGED sourceVars

WebcamMiss ==
    /\ backend = "webcam"
    /\ miss' = IF miss <= MissLimit THEN miss + 1 ELSE miss
    /\ body' = IF body # "none" /\ miss' <= MissLimit THEN "inferred" ELSE "none"
    /\ UNCHANGED <<backend, player, poseVars, infer, output, broken, sourceVars>>

Inference == TakeFrame \/ InferPose \/ StorePose
NativeTurn == NativeDetect \/ NativeMiss
WebcamTurn == WebcamDetect \/ WebcamMiss
Callback == Deliver \/ SpikeSample \/ SpikeMiss \/ NativeTurn \/ WebcamTurn
Output == ReadNow \/ Deliver \/ SpikeMiss \/ WebcamTurn

Next ==
    \/ PlayerMoves \/ Tick \/ Inference \/ ReadNow \/ SourceFrame \/ StampSource
    \/ NativeSkip \/ Callback

\* Time passes, the output threads are scheduled, the inference thread stores what it
\* found, and the Kinect and SteamVR go on streaming to a loop that is woken by what they
\* publish, after the tick is stored: it may look before, but not each time. An inference
\* may take forever.
Fairness ==
    /\ WF_vars(Tick) /\ WF_vars(StorePose) /\ WF_vars(Output)
    /\ WF_vars(SourceFrame) /\ WF_vars(StampSource)
    /\ SF_vars(unread /\ StampSource) /\ SF_vars(NativeTurn)

Spec == Init /\ [][Next]_vars /\ Fairness

-----------------------------------------------------------------------------
TypeOK ==
    /\ backend \in Backends
    /\ SourceTypeOK
    /\ player \in BOOLEAN
    /\ body \in {"none", "inferred", "tracked"}
    /\ have \in BOOLEAN /\ attemptOk \in BOOLEAN /\ havePrevious \in BOOLEAN
    /\ validAge \in 0..Cap /\ latestAge \in 0..Cap /\ previousAge \in 0..Cap
    /\ miss \in 0..MissLimit + 1
    /\ infer \in [step : {"idle", "infer", "done"}, sample : 0..Cap, found : BOOLEAN,
                  done : 0..MaxDelay]
    /\ output \in [step : {"idle", "look"}, now : 0..MaxDelay]
    /\ broken \subseteq {"latest", "previous"}

(***************************************************************************)
(* The game is told apart what was seen from what is held: a body handed   *)
(* over as tracked rests on a detection that nothing has contradicted, or  *)
(* on one made at most InferAfter ago.                                     *)
(***************************************************************************)
TrackedWasSeen ==
    [][Callback /\ body' = "tracked" => attemptOk' \/ validAge' <= InferAfter + MaxDelay]_vars

(***************************************************************************)
(* A body is held no longer than configured: what the game gets was found  *)
(* at most the hold ago, give or take one delay of the thread that reads   *)
(* the clock before the pose, or at most MissLimit frames of a webcam ago; *)
(* when detections stop, whatever was extrapolated, resampled or called    *)
(* inferred in between.                                                    *)
(***************************************************************************)
HeldBodyIsRecent ==
    [][Callback /\ body' # "none" =>
          IF backend = "webcam" THEN miss' <= MissLimit ELSE validAge' <= Hold + MaxDelay]_vars

(***************************************************************************)
(* The motion a SPiKE body is extrapolated with is the motion of one       *)
(* uninterrupted sight: of two samples in order, at most MaxGap apart,     *)
(* between which the game never saw the body withdrawn.                    *)
(***************************************************************************)
MotionIsContinuous ==
    backend = "spike" /\ havePrevious =>
        /\ have
        /\ broken = {}
        /\ previousAge < Cap => previousAge - latestAge \in 1..MaxGap

(***************************************************************************)
(* A player who has left disappears from the game, whatever the backend,   *)
(* and even when the inference that would say so never returns.            *)
(***************************************************************************)
LostBodyIsWithdrawn == <>[](~player) => <>[](body = "none")

(***************************************************************************)
(* The hold applies only after pose inference is lost: a pose that was     *)
(* found by the last attempt, less than the hold ago, is handed over.      *)
(***************************************************************************)
FreshPoseIsDelivered ==
    [][Deliver /\ have /\ attemptOk /\ validAge <= Hold => body' # "none"]_vars

=============================================================================
