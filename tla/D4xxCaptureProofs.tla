-------------------------- MODULE D4xxCaptureProofs --------------------------
(***************************************************************************)
(* Proofs about D4xxCapture, for every number of cameras, every choice of  *)
(* timeouts and an unbounded number of frames.                             *)
(***************************************************************************)
EXTENDS D4xxCapture, TLAPS

USE CaptureAssumption

LEMMA HeldUpType == \A k \in Nat : HeldUp(k) \in Nat
<1>1. MaxBlock \in Nat
  OBVIOUS
<1>2. ASSUME NEW m \in Nat, NEW n \in Nat PROVE m * n \in Nat
  OBVIOUS
<1> QED
  BY <1>1, <1>2 DEF HeldUp

LEMMA NotHeldUp == HeldUp(0) = 0
BY DEF HeldUp

LEMMA HeldUpNext == \A k \in Nat : HeldUp(k + 1) = HeldUp(k) + MaxBlock
BY DEF HeldUp

LEMMA HeldUpGrows == \A j, k \in Nat : j <= k => HeldUp(j) <= HeldUp(k)
<1> SUFFICES ASSUME NEW j \in Nat, NEW k \in Nat, j <= k PROVE HeldUp(j) <= HeldUp(k)
  OBVIOUS
<1>1. PICK i \in Nat : k = j + i
  OBVIOUS
<1>2. HeldUp(k) = HeldUp(j) + HeldUp(i)
  BY <1>1 DEF HeldUp
<1> QED
  BY <1>2, HeldUpType

LEMMA OldestPacketType == OldestPacket \in Nat
<1>1. DeviceCount - 1 \in Nat
  OBVIOUS
<1> QED
  BY <1>1, HeldUpType DEF OldestPacket

LEMMA DeviceFacts ==
    /\ PrimaryDevice \in Devices
    /\ \A d \in Devices : d \in Nat /\ d < DeviceCount
BY DEF Devices

\* The counters of time stay within their limits.
LEMMA CounterFacts ==
    /\ 0 \in 0 .. DeviceCount /\ 0 # DeviceCount
    /\ 0 \in 0 .. MaxBlock
    /\ 0 \in 0 .. StallTimeout
    /\ {0, ReconnectDelay} \subseteq 0 .. ReconnectDelay
    /\ 0 \in 0 .. OldestPacket + 1
    /\ \A n \in 0 .. StallTimeout : Limited(n + 1, StallTimeout) \in 0 .. StallTimeout
    /\ \A n \in 0 .. OldestPacket + 1 :
            Limited(n + 1, OldestPacket + 1) \in 0 .. OldestPacket + 1
    /\ \A n \in 0 .. ReconnectDelay : n > 0 => n - 1 \in 0 .. ReconnectDelay
BY OldestPacketType DEF Limited

LEMMA CaptureInvInit == Init => CaptureInv
<1> SUFFICES ASSUME Init PROVE CaptureInv
  OBVIOUS
<1>1. TypeOK
  BY CounterFacts DEF Init, TypeOK, Steps, ReaderSteps, NoPose
<1>2. \A d \in Devices : FrameInv(d)
  BY DEF Init, FrameInv
<1>3. PoseInv
  BY DEF Init, PoseInv, Working
<1>4. HeldInv /\ RoundInv
  BY DEF Init, HeldInv, RoundInv
<1>5. \A d \in Devices : AgeInv(d)
  BY DEF Init, AgeInv
<1> QED
  BY <1>1, <1>2, <1>3, <1>4, <1>5 DEF CaptureInv

-----------------------------------------------------------------------------
(* Each action keeps the types.                                            *)

LEMMA PassTypes ==
    ASSUME TypeOK, Pass
    PROVE  /\ silent' \in [Devices -> 0 .. StallTimeout]
           /\ delay' \in [Devices -> 0 .. ReconnectDelay]
           /\ age' \in [Devices -> 0 .. OldestPacket + 1]
<1>1. silent' \in [Devices -> 0 .. StallTimeout]
  BY CounterFacts DEF TypeOK, Pass
<1>2. delay' \in [Devices -> 0 .. ReconnectDelay]
  BY CounterFacts DEF TypeOK, Pass
<1>3. age' \in [Devices -> 0 .. OldestPacket + 1]
  BY CounterFacts DEF TypeOK, Pass
<1> QED
  BY <1>1, <1>2, <1>3

LEMMA NextDeviceTypes ==
    ASSUME at \in Devices, NextDevice
    PROVE  /\ step' \in Steps
           /\ at' \in 0 .. DeviceCount /\ at' # DeviceCount
           /\ blocked' \in 0 .. MaxBlock
BY CounterFacts DEF NextDevice, Steps, Devices

LEMMA TurnTypes ==
    ASSUME TypeOK, NEW d \in Devices, TurnOf(d)
    PROVE  TypeOK'
<1> USE CounterFacts, DeviceFacts
<1>0. at = d /\ at \in Devices
  BY DEF TurnOf, StillWaiting, Reconnect, Reconnected, ReconnectFails, PollFrameset,
         PollIncomplete, PollNothing, PollFails, ClearFrames, Stopped
<1>1. CASE StillWaiting(d)
  BY <1>0, <1>1, NextDeviceTypes DEF StillWaiting, TypeOK, busVars, streamVars, readerVars, poseVars, Devices
<1>2. CASE Reconnect(d)
  BY <1>0, <1>2 DEF Reconnect, TypeOK, Steps, busVars, streamVars, readerVars, poseVars
<1>3. CASE Reconnected(d)
  BY <1>0, <1>3, NextDeviceTypes DEF Reconnected, Start, TypeOK, readerVars, poseVars
<1>4. CASE ReconnectFails(d)
  BY <1>0, <1>4, NextDeviceTypes DEF ReconnectFails, RetryLater, TypeOK, busVars, poseVars
<1>5. CASE PollFrameset(d)
  BY <1>0, <1>5, NextDeviceTypes DEF PollFrameset, TypeOK, busVars, readerVars, poseVars
<1>6. CASE PollIncomplete(d)
  BY <1>0, <1>6, NextDeviceTypes DEF PollIncomplete, Checked, SignOfLife, TypeOK, Steps, busVars, readerVars, poseVars
<1>7. CASE PollNothing(d)
  BY <1>0, <1>7, NextDeviceTypes DEF PollNothing, Checked, TypeOK, Steps, busVars, readerVars, poseVars
<1>8. CASE PollFails(d)
  BY <1>0, <1>8 DEF PollFails, TypeOK, Steps, busVars, readerVars, poseVars
<1>9. CASE ClearFrames(d)
  BY <1>0, <1>9 DEF ClearFrames, AfterClear, TypeOK, Steps, busVars, readerVars, poseVars
<1>10. CASE Stopped(d)
  BY <1>0, <1>10, NextDeviceTypes DEF Stopped, TypeOK, readerVars, poseVars
<1> QED
  BY <1>1, <1>2, <1>3, <1>4, <1>5, <1>6, <1>7, <1>8, <1>9, <1>10 DEF TurnOf

LEMMA CaptureTypes ==
    ASSUME TypeOK, Capture
    PROVE  TypeOK'
<1> USE CounterFacts, DeviceFacts
<1>1. CASE OpenDevice
  <2>1. at \in Devices
    BY <1>1 DEF OpenDevice, TypeOK, Devices
  <2>2. at' \in 0 .. DeviceCount /\ step' = "open"
    BY <1>1, <2>1, DeviceFacts DEF OpenDevice, TypeOK
  <2>3. CASE Start(at)
    BY <1>1, <2>1, <2>2, <2>3 DEF OpenDevice, Start, TypeOK, readerVars, poseVars
  <2>4. CASE RetryLater(at)
    BY <1>1, <2>1, <2>2, <2>4 DEF OpenDevice, RetryLater, TypeOK, busVars, readerVars, poseVars
  <2> QED
    BY <1>1, <2>3, <2>4 DEF OpenDevice
<1>2. CASE Opened
  BY <1>2 DEF Opened, TypeOK, Steps, busVars, streamVars, readerVars, poseVars
<1>3. CASE OpenFails
  BY <1>3 DEF OpenFails, TypeOK, Steps, busVars, streamVars, readerVars, poseVars
<1>4. CASE WakeNow
  BY <1>4 DEF WakeNow, Wake, TypeOK, Steps, busVars, streamVars, readerVars, poseVars
<1>5. CASE WakeLater
  BY <1>5, PassTypes DEF WakeLater, Wake, Pass, TypeOK, Steps, busVars, readerVars, poseVars
<1>6. CASE ClearPending
  BY <1>6 DEF ClearPending, TypeOK, Steps, busVars, streamVars, poseVars
<1>7. CASE Close
  BY <1>7 DEF Close, TypeOK, Steps, poseVars
<1>8. CASE \E d \in Devices : TurnOf(d)
  BY <1>8, TurnTypes
<1> QED
  BY <1>1, <1>2, <1>3, <1>4, <1>5, <1>6, <1>7, <1>8 DEF Capture

LEMMA InferenceTypes ==
    ASSUME TypeOK, Inference
    PROVE  TypeOK'
<1> USE DeviceFacts DEF TypeOK, ReaderSteps, Reader, loopVars, busVars, streamVars
<1>1. CASE WantImage
  BY <1>1 DEF WantImage, NoPose
<1>2. CASE CopyImages
  BY <1>2 DEF CopyImages
<1>3. CASE KeepDepth
  BY <1>3 DEF KeepDepth
<1>4. CASE InferNothing
  BY <1>4 DEF InferNothing
<1>5. CASE InferPose
  BY <1>5 DEF InferPose
<1>6. CASE MeasureKept
  BY <1>6 DEF MeasureKept
<1>7. CASE NothingKept
  BY <1>7 DEF NothingKept
<1>8. CASE MeasureCurrent
  BY <1>8 DEF MeasureCurrent
<1>9. CASE MeasureNothing
  BY <1>9 DEF MeasureNothing
<1> QED
  BY <1>1, <1>2, <1>3, <1>4, <1>5, <1>6, <1>7, <1>8, <1>9 DEF Inference

LEMMA TypesStep == TypeOK /\ [Next]_vars => TypeOK'
<1> SUFFICES ASSUME TypeOK, [Next]_vars PROVE TypeOK'
  OBVIOUS
<1>1. CASE Capture
  BY <1>1, CaptureTypes
<1>2. CASE Block
  <2>1. blocked' \in 0 .. MaxBlock
    BY <1>2 DEF Block, TypeOK
  <2> QED
    BY <1>2, <2>1, PassTypes DEF Block, Pass, TypeOK, busVars, readerVars, poseVars
<1>3. CASE DropSource
  BY <1>3 DEF DropSource, TypeOK, busVars, streamVars, readerVars, poseVars
<1>4. CASE Inference
  BY <1>4, InferenceTypes
<1>5. ASSUME NEW d \in Devices, Unplug(d) PROVE TypeOK'
  BY <1>5 DEF Unplug, TypeOK, streamVars, readerVars, poseVars
<1>6. ASSUME NEW d \in Devices, Plug(d) PROVE TypeOK'
  BY <1>6 DEF Plug, TypeOK, streamVars, readerVars, poseVars
<1>7. ASSUME NEW d \in Devices, Freeze(d) PROVE TypeOK'
  BY <1>7 DEF Freeze, TypeOK, streamVars, readerVars, poseVars
<1>8. ASSUME NEW d \in Devices, ReadDepth(d) PROVE TypeOK'
  BY <1>8 DEF ReadDepth, TypeOK, busVars, streamVars, poseVars
<1>9. CASE UNCHANGED vars
  BY <1>9 DEF TypeOK, vars, busVars, streamVars, readerVars, poseVars
<1> QED
  BY <1>1, <1>2, <1>3, <1>4, <1>5, <1>6, <1>7, <1>8, <1>9 DEF Next, Bus

\* What is proved: every variable keeps its type whatever the number of cameras,
\* and the counters of time stay within the options they are compared with.
THEOREM TypeCorrect == Spec => []TypeOK
<1>1. Init => TypeOK
  BY CaptureInvInit DEF CaptureInv
<1> QED
  BY <1>1, TypesStep, PTL DEF Spec

-----------------------------------------------------------------------------
(* What a camera holds is its newest frame.  Only the thread publishes and  *)
(* clears, and a camera that it gives up keeps its frame until "clear".     *)

FrameInvs == \A d \in Devices : FrameInv(d)

\* A step that leaves the thread where it is, and the frames alone.
LEMMA FramesUntouched ==
    ASSUME FrameInvs, UNCHANGED <<step, at, active, sequence, frame>>
    PROVE  FrameInvs'
BY DEF FrameInvs, FrameInv

\* A step of the thread outside "clear" that does not tear a camera down.
LEMMA FramesKept ==
    ASSUME FrameInvs, step # "clear", UNCHANGED <<sequence, frame>>,
           \A d \in Devices : active[d] => active'[d]
    PROVE  FrameInvs'
BY DEF FrameInvs, FrameInv

LEMMA PassFrames == Pass => UNCHANGED <<active, sequence, frame>>
BY DEF Pass

LEMMA TurnFrames ==
    ASSUME TypeOK, FrameInvs, NEW d \in Devices, TurnOf(d)
    PROVE  FrameInvs'
<1>1. CASE StillWaiting(d)
  BY <1>1, FramesKept DEF StillWaiting, streamVars
<1>2. CASE Reconnect(d)
  BY <1>2, FramesKept DEF Reconnect, streamVars
<1>3. CASE Reconnected(d)
  BY <1>3, FramesKept DEF Reconnected, Start, TypeOK
<1>4. CASE ReconnectFails(d)
  BY <1>4, FramesKept DEF ReconnectFails, RetryLater
<1>5. CASE PollFrameset(d)
  BY <1>5 DEF PollFrameset, FrameInvs, FrameInv, TypeOK
<1>6. ASSUME PollIncomplete(d) \/ PollNothing(d) \/ PollFails(d)
      PROVE  FrameInvs'
  <2>1. step = "turn" /\ at = d /\ UNCHANGED <<sequence, frame>>
    BY <1>6 DEF PollIncomplete, PollNothing, PollFails
  <2>2. \/ UNCHANGED active
        \/ active' = [active EXCEPT ![d] = FALSE] /\ step' = "clear" /\ UNCHANGED at
    BY <1>6 DEF PollIncomplete, PollNothing, PollFails, Checked
  <2>3. CASE UNCHANGED active
    BY <2>1, <2>3, FramesKept
  <2>4. CASE active' = [active EXCEPT ![d] = FALSE] /\ step' = "clear" /\ UNCHANGED at
    BY <2>1, <2>4 DEF FrameInvs, FrameInv, TypeOK
  <2> QED
    BY <2>2, <2>3, <2>4
<1>7. CASE ClearFrames(d)
  BY <1>7 DEF ClearFrames, FrameInvs, FrameInv, TypeOK
<1>8. CASE Stopped(d)
  BY <1>8, FramesKept DEF Stopped
<1> QED
  BY <1>1, <1>2, <1>3, <1>4, <1>5, <1>6, <1>7, <1>8 DEF TurnOf

LEMMA FramesStep == TypeOK /\ FrameInvs /\ [Next]_vars => FrameInvs'
<1> SUFFICES ASSUME TypeOK, FrameInvs, [Next]_vars PROVE FrameInvs'
  OBVIOUS
<1>1. CASE OpenDevice
  BY <1>1, FramesKept DEF OpenDevice, Start, RetryLater, TypeOK, Devices
<1>2. CASE Opened
  BY <1>2, FramesKept DEF Opened, streamVars
<1>3. CASE OpenFails
  BY <1>3, FramesKept DEF OpenFails, streamVars
<1>4. CASE WakeNow
  BY <1>4, FramesKept DEF WakeNow, Wake, streamVars
<1>5. CASE WakeLater
  BY <1>5, PassFrames, FramesKept DEF WakeLater, Wake
<1>6. CASE ClearPending
  BY <1>6, FramesKept DEF ClearPending, streamVars
<1>7. CASE Close
  BY <1>7 DEF Close, FrameInvs, FrameInv
<1>8. CASE \E d \in Devices : TurnOf(d)
  BY <1>8, TurnFrames
<1>9. CASE Block
  BY <1>9, PassFrames, FramesUntouched DEF Block
<1>10. CASE DropSource
  BY <1>10, FramesUntouched DEF DropSource, streamVars
<1>11. CASE Inference
  BY <1>11, FramesUntouched DEF Inference, WantImage, CopyImages, KeepDepth, InferNothing,
         InferPose, MeasureKept, NothingKept, MeasureCurrent, MeasureNothing, loopVars,
         streamVars
<1>12. CASE \E d \in Devices : Bus(d)
  BY <1>12, FramesUntouched DEF Bus, Unplug, Plug, Freeze, streamVars
<1>13. CASE \E d \in Devices : ReadDepth(d)
  BY <1>13, FramesUntouched DEF ReadDepth, streamVars
<1>14. CASE UNCHANGED vars
  BY <1>14, FramesUntouched DEF vars, streamVars
<1> QED
  BY <1>1, <1>2, <1>3, <1>4, <1>5, <1>6, <1>7, <1>8, <1>9, <1>10, <1>11, <1>12, <1>13, <1>14
     DEF Next, Capture

-----------------------------------------------------------------------------
(* The depth a pose is measured in: a reader's image is among the frames   *)
(* published, what is put aside is its own for as long as the model runs,  *)
(* and it is not dropped before the camera has cleared its frame.          *)

\* The thread changes the depth put aside only by dropping it, together with a
\* frame of the primary camera or after it; what it publishes is newer.
ThreadDrops == pending' = pending \/ (pending' = 0 /\ frame'[PrimaryDevice] = 0)
ThreadPublishes ==
    /\ sequence'[PrimaryDevice] \in {sequence[PrimaryDevice], sequence[PrimaryDevice] + 1}
    /\ frame'[PrimaryDevice] \in {0, frame[PrimaryDevice], sequence[PrimaryDevice] + 1}

LEMMA ThreadKeepsPose ==
    ASSUME TypeOK, PoseInv, UNCHANGED poseVars, ThreadDrops, ThreadPublishes
    PROVE  PoseInv'
<1>1. /\ image \in Nat /\ sequence[PrimaryDevice] \in Nat /\ frame[PrimaryDevice] \in Nat
      /\ UNCHANGED <<reader, image>>
  BY DeviceFacts DEF TypeOK, poseVars
<1> QED
  BY <1>1 DEF PoseInv, Working, ThreadDrops, ThreadPublishes

LEMMA ThreadKeepsImage == Capture => UNCHANGED poseVars
<1>1. ASSUME NEW d \in Devices, TurnOf(d) PROVE UNCHANGED poseVars
  BY <1>1 DEF TurnOf, StillWaiting, Reconnect, Reconnected, ReconnectFails, PollFrameset,
         PollIncomplete, PollNothing, PollFails, ClearFrames, Stopped, readerVars
<1> QED
  BY <1>1 DEF Capture, OpenDevice, Opened, OpenFails, WakeNow, WakeLater, Wake,
         ClearPending, Close, readerVars

\* A camera without a stream that is not about to be cleared shows nothing.
LEMMA NothingShown ==
    ASSUME FrameInvs, RoundInv, step \in {"reconnect", "unpend"}, at = PrimaryDevice
    PROVE  frame[PrimaryDevice] = 0
BY DeviceFacts DEF FrameInvs, FrameInv, RoundInv

LEMMA CaptureDrops ==
    ASSUME TypeOK, FrameInvs, RoundInv, Capture
    PROVE  ThreadDrops
<1>1. CASE ClearPending
  <2>1. frame[PrimaryDevice] = 0
    BY <1>1, NothingShown DEF ClearPending, RoundInv
  <2> QED
    BY <1>1, <2>1 DEF ClearPending, ThreadDrops, streamVars
<1>2. CASE Close
  BY <1>2, DeviceFacts DEF Close, ThreadDrops
<1>3. ASSUME NEW d \in Devices, ReconnectFails(d) PROVE ThreadDrops
  <2>1. CASE d = PrimaryDevice
    <3>1. frame[PrimaryDevice] = 0
      BY <1>3, <2>1, NothingShown DEF ReconnectFails
    <3> QED
      BY <1>3, <2>1, <3>1 DEF ReconnectFails, RetryLater, ThreadDrops
  <2>2. CASE d # PrimaryDevice
    BY <1>3, <2>2 DEF ReconnectFails, ThreadDrops
  <2> QED
    BY <2>1, <2>2
<1>4. ASSUME NEW d \in Devices, TurnOf(d), ~ReconnectFails(d) PROVE ThreadDrops
  BY <1>4 DEF TurnOf, StillWaiting, Reconnect, Reconnected, PollFrameset, PollIncomplete,
         PollNothing, PollFails, ClearFrames, Stopped, readerVars, ThreadDrops
<1>5. ASSUME OpenDevice \/ Opened \/ OpenFails \/ WakeNow \/ WakeLater
      PROVE  ThreadDrops
  BY <1>5 DEF OpenDevice, Opened, OpenFails, WakeNow, WakeLater, Wake, readerVars,
         ThreadDrops
<1> QED
  BY <1>1, <1>2, <1>3, <1>4, <1>5 DEF Capture

LEMMA CapturePublishes ==
    ASSUME TypeOK, Capture
    PROVE  ThreadPublishes
<1> USE DeviceFacts
<1>1. ASSUME NEW d \in Devices, PollFrameset(d) PROVE ThreadPublishes
  <2>1. CASE d = PrimaryDevice
    BY <1>1, <2>1 DEF PollFrameset, ThreadPublishes, TypeOK
  <2>2. CASE d # PrimaryDevice
    BY <1>1, <2>2 DEF PollFrameset, ThreadPublishes, TypeOK
  <2> QED
    BY <2>1, <2>2
<1>2. ASSUME NEW d \in Devices, ClearFrames(d) PROVE ThreadPublishes
  <2>1. UNCHANGED sequence /\ frame'[PrimaryDevice] \in {0, frame[PrimaryDevice]}
    BY <1>2 DEF ClearFrames, TypeOK
  <2> QED
    BY <2>1 DEF ThreadPublishes
<1>3. CASE Close
  BY <1>3 DEF Close, ThreadPublishes
<1>4. ASSUME UNCHANGED <<sequence, frame>> PROVE ThreadPublishes
  BY <1>4 DEF ThreadPublishes
<1>5. ASSUME NEW d \in Devices, TurnOf(d), ~PollFrameset(d), ~ClearFrames(d)
      PROVE  UNCHANGED <<sequence, frame>>
  BY <1>5 DEF TurnOf, StillWaiting, Reconnect, Reconnected, ReconnectFails, Start,
         RetryLater, PollIncomplete, PollNothing, PollFails, Stopped, streamVars
<1>6. ASSUME OpenDevice \/ Opened \/ OpenFails \/ WakeNow \/ WakeLater \/ ClearPending
      PROVE  UNCHANGED <<sequence, frame>>
  BY <1>6 DEF OpenDevice, Start, RetryLater, Opened, OpenFails, WakeNow, WakeLater, Wake,
         Pass, ClearPending, streamVars
<1> QED
  BY <1>1, <1>2, <1>3, <1>4, <1>5, <1>6 DEF Capture

LEMMA InferenceKeepsPose ==
    ASSUME TypeOK, FrameInvs, PoseInv, Inference
    PROVE  PoseInv'
<1>0. frame[PrimaryDevice] \in {0, sequence[PrimaryDevice]}
  BY DeviceFacts DEF FrameInvs, FrameInv
<1>1. /\ UNCHANGED <<sequence, frame>>
      /\ sequence[PrimaryDevice] \in Nat /\ frame[PrimaryDevice] \in Nat
  BY DeviceFacts DEF Inference, WantImage, CopyImages, KeepDepth, InferNothing, InferPose,
         MeasureKept, NothingKept, MeasureCurrent, MeasureNothing, loopVars, streamVars,
         TypeOK
<1> USE <1>0, <1>1 DEF TypeOK, PoseInv, Working, Reader
<1>2. CASE WantImage
  BY <1>2 DEF WantImage
<1>3. CASE CopyImages
  BY <1>3 DEF CopyImages
<1>4. CASE KeepDepth
  BY <1>4 DEF KeepDepth
<1>5. CASE InferNothing
  BY <1>5 DEF InferNothing
<1>6. CASE InferPose
  BY <1>6 DEF InferPose
<1>7. CASE MeasureKept
  BY <1>7 DEF MeasureKept
<1>8. CASE NothingKept
  BY <1>8 DEF NothingKept
<1>9. CASE MeasureCurrent
  BY <1>9 DEF MeasureCurrent
<1>10. CASE MeasureNothing
  BY <1>10 DEF MeasureNothing
<1> QED
  BY <1>2, <1>3, <1>4, <1>5, <1>6, <1>7, <1>8, <1>9, <1>10 DEF Inference

LEMMA PoseStep == TypeOK /\ FrameInvs /\ RoundInv /\ PoseInv /\ [Next]_vars => PoseInv'
<1> SUFFICES ASSUME TypeOK, FrameInvs, RoundInv, PoseInv, [Next]_vars PROVE PoseInv'
  OBVIOUS
<1>1. CASE Capture
  BY <1>1, ThreadKeepsImage, CaptureDrops, CapturePublishes, ThreadKeepsPose
<1>2. CASE Inference
  BY <1>2, InferenceKeepsPose
<1>3. ASSUME \/ Block \/ DropSource \/ UNCHANGED vars
             \/ \E d \in Devices : Bus(d) \/ ReadDepth(d)
      PROVE  PoseInv'
  <2>1. UNCHANGED <<poseVars, pending, sequence, frame>>
    BY <1>3 DEF Block, Pass, DropSource, Bus, Unplug, Plug, Freeze, ReadDepth, vars,
           streamVars, readerVars
  <2> QED
    BY <2>1 DEF PoseInv, Working, poseVars
<1> QED
  BY <1>1, <1>2, <1>3 DEF Next

\* The source is dropped, or open fails, only when nobody infers.
LEMMA HeldStep == HeldInv /\ [Next]_vars => HeldInv'
<1> SUFFICES ASSUME HeldInv, [Next]_vars PROVE HeldInv'
  OBVIOUS
<1>1. CASE Capture
  <2>1. UNCHANGED reader
    BY <1>1, ThreadKeepsImage DEF poseVars
  <2>2. ASSUME NEW d \in Devices, TurnOf(d)
        PROVE  UNCHANGED stop /\ step' # "open"
    BY <2>2 DEF TurnOf, StillWaiting, Reconnect, Reconnected, ReconnectFails, PollFrameset,
           PollIncomplete, PollNothing, PollFails, ClearFrames, AfterClear, Stopped, Checked,
           NextDevice
  <2>3. OpenFails \/ (UNCHANGED stop /\ (step' = "open" => step = "open"))
    BY <1>1, <2>2 DEF Capture, OpenDevice, Opened, WakeNow, WakeLater, Wake, ClearPending,
           Close
  <2>4. OpenFails => step = "open"
    BY DEF OpenFails
  <2> QED
    BY <2>1, <2>3, <2>4 DEF HeldInv, Acquired
<1>2. CASE Inference
  <2>1. UNCHANGED <<step, stop>>
    BY <1>2 DEF Inference, WantImage, CopyImages, KeepDepth, InferNothing, InferPose,
           MeasureKept, NothingKept, MeasureCurrent, MeasureNothing, loopVars
  <2>2. Acquired \/ reader # "idle"
    BY <1>2 DEF Inference, WantImage, CopyImages, KeepDepth, InferNothing, InferPose,
           MeasureKept, NothingKept, MeasureCurrent, MeasureNothing, Reader
  <2> QED
    BY <2>1, <2>2 DEF HeldInv, Acquired
<1>3. CASE DropSource
  BY <1>3 DEF DropSource, readerVars, poseVars, HeldInv, Acquired
<1>4. ASSUME Block \/ UNCHANGED vars \/ \E d \in Devices : Bus(d) \/ ReadDepth(d)
      PROVE  HeldInv'
  <2>1. UNCHANGED <<step, stop, reader>>
    BY <1>4 DEF Block, Bus, Unplug, Plug, Freeze, ReadDepth, vars, readerVars, poseVars
  <2> QED
    BY <2>1 DEF HeldInv, Acquired
<1> QED
  BY <1>1, <1>2, <1>3, <1>4 DEF Next

-----------------------------------------------------------------------------
(* A round of the thread.                                                  *)

LEMMA NextDeviceRound ==
    ASSUME NextDevice
    PROVE  /\ blocked' = 0
           /\ step' \in {"turn", "sleep"}
           /\ step' = "sleep" => at' = 0
BY DEF NextDevice

LEMMA TurnRound ==
    ASSUME TypeOK, RoundInv, NEW d \in Devices, TurnOf(d)
    PROVE  RoundInv'
<1>1. ASSUME NextDevice PROVE RoundInv'
  BY <1>1, NextDeviceRound DEF RoundInv
<1>2. CASE Reconnect(d)
  BY <1>2 DEF Reconnect, RoundInv, streamVars
<1>3. ASSUME PollIncomplete(d) \/ PollNothing(d) \/ PollFails(d), ~NextDevice
      PROVE  RoundInv'
  <2>1. /\ step = "turn" /\ at = d /\ at' = at /\ blocked' = blocked
        /\ active' = [active EXCEPT ![d] = FALSE]
        /\ step' = "clear"
    <3>1. CASE PollIncomplete(d)
      BY <1>3, <3>1 DEF PollIncomplete, Checked
    <3>2. CASE PollNothing(d)
      BY <1>3, <3>2 DEF PollNothing, Checked
    <3>3. CASE PollFails(d)
      BY <3>3 DEF PollFails
    <3> QED BY <1>3, <3>1, <3>2, <3>3
  <2>2. blocked' = 0 /\ ~active'[at']
    BY <2>1 DEF RoundInv, TypeOK
  <2> QED BY <2>1, <2>2 DEF RoundInv
<1>4. CASE ClearFrames(d)
  BY <1>4 DEF ClearFrames, AfterClear, RoundInv
<1> QED
  BY <1>1, <1>2, <1>3, <1>4 DEF TurnOf, StillWaiting, Reconnected, ReconnectFails,
     PollFrameset, Stopped

LEMMA RoundStep == TypeOK /\ RoundInv /\ [Next]_vars => RoundInv'
<1> SUFFICES ASSUME TypeOK, RoundInv, [Next]_vars PROVE RoundInv'
  OBVIOUS
<1>1. CASE OpenDevice
  <2>1. step = "open" /\ step' = step /\ UNCHANGED <<blocked, frame>>
    BY <1>1 DEF OpenDevice, Start, RetryLater
  <2> QED
    BY <2>1 DEF RoundInv
<1>2. ASSUME Opened \/ OpenFails \/ WakeNow \/ WakeLater \/ ClearPending \/ Close
      PROVE  RoundInv'
  BY <1>2 DEF Opened, OpenFails, WakeNow, WakeLater, Wake, ClearPending, Close, RoundInv,
         streamVars
<1>3. CASE \E d \in Devices : TurnOf(d)
  BY <1>3, TurnRound
<1>4. CASE Block
  BY <1>4 DEF Block, Pass, RoundInv
<1>5. CASE Inference
  <2>1. UNCHANGED loopVars
    BY <1>5 DEF Inference, WantImage, CopyImages, KeepDepth, InferNothing, InferPose,
           MeasureKept, NothingKept, MeasureCurrent, MeasureNothing
  <2> QED
    BY <2>1 DEF loopVars, streamVars, RoundInv
<1>6. ASSUME DropSource \/ UNCHANGED vars \/ \E d \in Devices : Bus(d) \/ ReadDepth(d)
      PROVE  RoundInv'
  BY <1>6 DEF DropSource, Bus, Unplug, Plug, Freeze, ReadDepth, vars, streamVars, RoundInv
<1> QED
  BY <1>1, <1>2, <1>3, <1>4, <1>5, <1>6 DEF Next, Capture

-----------------------------------------------------------------------------
(* The age of a packet grows with the time the thread is away from its     *)
(* camera, and that time is bounded: each other camera is served once.     *)

AgeInvs == \A d \in Devices : AgeInv(d)

\* Going on to the next camera does not bring the thread nearer to the last look
\* at any other, and starts the count for the camera it has just looked at.
LEMMA NextDeviceAway ==
    ASSUME TypeOK, at \in Devices, step # "sleep", NextDevice, NEW d \in Devices
    PROVE  /\ Away(d) \in Nat /\ Away(d)' \in Nat
           /\ at # d => Away(d) <= Away(d)'
           /\ at = d => Away(d)' = 0
<1> USE HeldUpType
<1>1. d \in Nat /\ d < DeviceCount /\ at \in Nat /\ at < DeviceCount
  BY DeviceFacts
<1>2. blocked \in Nat /\ blocked <= MaxBlock /\ blocked' = 0 /\ MaxBlock \in Nat
  BY DEF TypeOK, NextDevice
<1>3. CASE at > d
  <2>1. at - d - 1 \in Nat
    BY <1>1, <1>3
  <2>2. HeldUp(at - d - 1 + 1) = HeldUp(at - d - 1) + MaxBlock
    BY <2>1, HeldUpNext
  <2>3. Away(d) = HeldUp(at - d - 1) + blocked
    BY <1>3 DEF Away
  <2>4. CASE at + 1 < DeviceCount
    <3>1. Away(d)' = HeldUp(at + 1 - d - 1) + 0
      BY <1>1, <1>2, <1>3, <2>4 DEF Away, NextDevice
    <3>2. at + 1 - d - 1 = at - d - 1 + 1
      BY <1>1
    <3> QED
      BY <1>1, <1>2, <1>3, <2>1, <2>2, <2>3, <3>1, <3>2
  <2>5. CASE ~(at + 1 < DeviceCount)
    <3>1. Away(d)' = HeldUp(DeviceCount - 1 - d)
      BY <2>5 DEF Away, NextDevice
    <3>2. DeviceCount - 1 - d = at - d - 1 + 1
      BY <1>1, <2>5
    <3> QED
      BY <1>1, <1>2, <1>3, <2>1, <2>2, <2>3, <3>1, <3>2
  <2> QED
    BY <2>4, <2>5
<1>4. CASE at < d
  <2>1. DeviceCount - 1 - d + at \in Nat
    BY <1>1
  <2>2. HeldUp(DeviceCount - 1 - d + at + 1) = HeldUp(DeviceCount - 1 - d + at) + MaxBlock
    BY <2>1, HeldUpNext
  <2>3. Away(d) = HeldUp(DeviceCount - 1 - d + at) + blocked + 1
    BY <1>1, <1>4 DEF Away
  <2>4. step' = "turn" /\ at' = at + 1 /\ ~(at' > d)
    BY <1>1, <1>4 DEF NextDevice
  <2>5. Away(d)' = HeldUp(DeviceCount - 1 - d + (at + 1)) + 0 + 1
    BY <1>2, <2>4 DEF Away
  <2>6. DeviceCount - 1 - d + (at + 1) = DeviceCount - 1 - d + at + 1
    BY <1>1
  <2> QED
    BY <1>1, <1>2, <1>4, <2>1, <2>2, <2>3, <2>5, <2>6
<1>5. CASE at = d
  <2>1. Away(d) = HeldUp(DeviceCount - 1 - d + at) + blocked + 1
    BY <1>1, <1>5 DEF Away
  <2>2. DeviceCount - 1 - d + at \in Nat
    BY <1>1
  <2>3. CASE at + 1 < DeviceCount
    <3>1. Away(d)' = HeldUp(at + 1 - d - 1) + 0
      BY <1>1, <1>2, <1>5, <2>3 DEF Away, NextDevice
    <3>2. at + 1 - d - 1 = 0
      BY <1>1, <1>5
    <3> QED
      BY <1>2, <1>5, <2>1, <2>2, <3>1, <3>2, NotHeldUp
  <2>4. CASE ~(at + 1 < DeviceCount)
    <3>1. Away(d)' = HeldUp(DeviceCount - 1 - d)
      BY <2>4 DEF Away, NextDevice
    <3>2. DeviceCount - 1 - d = 0
      BY <1>1, <1>5, <2>4
    <3> QED
      BY <1>2, <1>5, <2>1, <2>2, <3>1, <3>2, NotHeldUp
  <2> QED
    BY <2>3, <2>4
<1> QED
  BY <1>1, <1>3, <1>4, <1>5

LEMMA SameAway ==
    ASSUME UNCHANGED <<at, blocked>>, step # "sleep", step' # "sleep", NEW d \in Devices
    PROVE  Away(d)' = Away(d)
BY DEF Away

\* A step that leaves a camera's packet alone and does not bring the thread nearer
\* to its last look at it.
LEMMA SameAge ==
    ASSUME TypeOK, NEW d \in Devices, AgeInv(d), Away(d) \in Nat, Away(d)' \in Nat,
           frame[d] # 0 => Away(d) <= Away(d)',
           frame'[d] = frame[d], age'[d] = age[d],
           active'[d] => active[d] /\ silent'[d] = silent[d]
    PROVE  AgeInv(d)'
BY DEF AgeInv, TypeOK

LEMMA NoPacket ==
    ASSUME NEW d \in Devices, frame'[d] = 0
    PROVE  AgeInv(d)'
BY DEF AgeInv

LEMMA AwayType ==
    ASSUME TypeOK, step # "open", NEW d \in Devices
    PROVE  Away(d) \in Nat
<1>1. d \in Nat /\ d < DeviceCount /\ at \in Nat /\ at < DeviceCount /\ blocked \in Nat
  BY DeviceFacts DEF TypeOK
<1>2. DeviceCount - 1 - d \in Nat /\ DeviceCount - 1 - d + at \in Nat
  BY <1>1
<1>3. at > d => at - d - 1 \in Nat
  BY <1>1
<1> QED
  BY <1>1, <1>2, <1>3, HeldUpType DEF Away

\* The thread sleeps at the end of a round: a tick or less.
LEMMA WakeAway ==
    ASSUME TypeOK, RoundInv, Wake, NEW d \in Devices
    PROVE  Away(d) \in Nat /\ Away(d)' = Away(d) + 1
<1>1. d \in Nat /\ d < DeviceCount
  BY DeviceFacts
<1>2. step = "sleep" /\ step' = "turn" /\ at = 0 /\ at' = 0 /\ blocked' = 0
  BY DEF Wake, RoundInv
<1>3. Away(d) = HeldUp(DeviceCount - 1 - d)
  BY <1>2 DEF Away
<1>4. Away(d)' = HeldUp(DeviceCount - 1 - d + 0) + 0 + 1
  BY <1>1, <1>2 DEF Away
<1>5. DeviceCount - 1 - d \in Nat /\ DeviceCount - 1 - d + 0 = DeviceCount - 1 - d
  BY <1>1
<1> QED
  BY <1>3, <1>4, <1>5, HeldUpType

LEMMA BlockAway ==
    ASSUME TypeOK, Block, NEW d \in Devices
    PROVE  Away(d) \in Nat /\ Away(d)' = Away(d) + 1
<1>1. d \in Nat /\ d < DeviceCount /\ at \in Nat /\ at < DeviceCount /\ blocked \in Nat
  BY DeviceFacts DEF TypeOK, Block
<1>2. DeviceCount - 1 - d + at \in Nat
  BY <1>1
<1>3. at > d => at - d - 1 \in Nat
  BY <1>1
<1>4. step # "sleep" /\ step' = step /\ at' = at /\ blocked' = blocked + 1
  BY DEF Block
<1>5. CASE at > d
  <2>1. Away(d) = HeldUp(at - d - 1) + blocked
    BY <1>4, <1>5 DEF Away
  <2>2. Away(d)' = HeldUp(at - d - 1) + (blocked + 1)
    BY <1>4, <1>5 DEF Away
  <2> QED
    BY <1>1, <1>3, <1>5, <2>1, <2>2, HeldUpType
<1>6. CASE ~(at > d)
  <2>1. Away(d) = HeldUp(DeviceCount - 1 - d + at) + blocked + 1
    BY <1>4, <1>6 DEF Away
  <2>2. Away(d)' = HeldUp(DeviceCount - 1 - d + at) + (blocked + 1) + 1
    BY <1>4, <1>6 DEF Away
  <2> QED
    BY <1>1, <1>2, <2>1, <2>2, HeldUpType
<1> QED
  BY <1>5, <1>6

\* A packet ages by a tick at most, and its camera is silent for as long.
LEMMA PassAge ==
    ASSUME TypeOK, Pass, NEW d \in Devices, AgeInv(d), Away(d) \in Nat,
           Away(d)' = Away(d) + 1
    PROVE  AgeInv(d)'
<1> SUFFICES ASSUME frame[d] # 0 PROVE AgeInv(d)'
  BY DEF AgeInv, Pass
<1>1. /\ age[d] \in Nat /\ silent[d] \in 0 .. StallTimeout
      /\ StallTimeout \in Nat \ {0} /\ StallTimeout <= OldestPacket
  <2>1. HeldUp(DeviceCount - 1) \in Nat
    <3>1. DeviceCount - 1 \in Nat
      OBVIOUS
    <3> QED
      BY <3>1, HeldUpType
  <2> QED
    BY <2>1, OldestPacketType DEF TypeOK, OldestPacket
<1>2. age'[d] = Limited(age[d] + 1, OldestPacket + 1)
  BY DEF Pass
<1>3. active'[d] = active[d] /\ frame'[d] = frame[d]
  BY DEF Pass
<1>4. active[d] => silent'[d] = Limited(silent[d] + 1, StallTimeout)
  BY DEF Pass
<1>5. age[d] + 1 <= StallTimeout + Away(d)
  BY DEF AgeInv
<1>6. active[d] => silent[d] \in {age[d], StallTimeout}
  BY DEF AgeInv
<1>7. age'[d] + 1 <= StallTimeout + Away(d)'
  BY <1>1, <1>2, <1>5, OldestPacketType DEF Limited
<1>8. active'[d] => silent'[d] \in {age'[d], StallTimeout}
  BY <1>1, <1>2, <1>3, <1>4, <1>6, OldestPacketType DEF Limited
<1> QED
  BY <1>7, <1>8 DEF AgeInv

\* The thread goes on to the next camera and leaves the packets alone.
LEMMA NextAge ==
    ASSUME TypeOK, AgeInvs, at \in Devices, step \notin {"open", "sleep"}, NextDevice,
           UNCHANGED <<frame, age>>,
           \A c \in Devices : c # at => active'[c] = active[c] /\ silent'[c] = silent[c],
           frame[at] = 0
    PROVE  AgeInvs'
<1> SUFFICES ASSUME NEW c \in Devices PROVE AgeInv(c)'
  BY DEF AgeInvs
<1>1. Away(c) \in Nat /\ Away(c)' \in Nat /\ (at # c => Away(c) <= Away(c)')
  BY NextDeviceAway
<1>2. CASE c = at
  BY <1>2, NoPacket
<1>3. CASE c # at
  BY <1>1, <1>3, SameAge DEF AgeInvs
<1> QED
  BY <1>2, <1>3

\* The thread stays with its camera and leaves the packets alone.
LEMMA StayAge ==
    ASSUME TypeOK, AgeInvs, step \notin {"open", "sleep"}, step' # "sleep",
           UNCHANGED <<at, blocked, frame, age, silent>>,
           \A c \in Devices : active'[c] => active[c]
    PROVE  AgeInvs'
<1> SUFFICES ASSUME NEW c \in Devices PROVE AgeInv(c)'
  BY DEF AgeInvs
<1>1. Away(c) \in Nat /\ Away(c)' = Away(c)
  BY AwayType, SameAway
<1> QED
  BY <1>1, SameAge DEF AgeInvs

\* A camera that was not silent for too long is left with a young packet.
LEMMA CheckedAge ==
    ASSUME TypeOK, AgeInvs, RoundInv, NEW d \in Devices, step = "turn", at = d, active[d],
           silent' = silent, UNCHANGED <<frame, age>>, Checked(d, silent[d])
    PROVE  AgeInvs'
<1>1. CASE silent[d] >= StallTimeout
  BY <1>1, StayAge DEF Checked, TypeOK
<1>2. CASE ~(silent[d] >= StallTimeout)
  <2>1. UNCHANGED active /\ NextDevice
    BY <1>2 DEF Checked
  <2> SUFFICES ASSUME NEW c \in Devices PROVE AgeInv(c)'
    BY DEF AgeInvs
  <2>2. /\ Away(c) \in Nat /\ Away(c)' \in Nat
        /\ at # c => Away(c) <= Away(c)'
        /\ at = c => Away(c)' = 0
    BY <2>1, NextDeviceAway
  <2>3. CASE c = d
    <3>1. frame[d] # 0 => age[d] = silent[d]
      BY <1>2 DEF AgeInvs, AgeInv, TypeOK
    <3> QED
      BY <1>2, <2>1, <2>2, <2>3, <3>1 DEF AgeInvs, AgeInv, TypeOK
  <2>4. CASE c # d
    BY <2>1, <2>2, <2>4, SameAge DEF AgeInvs
  <2> QED
    BY <2>3, <2>4
<1> QED
  BY <1>1, <1>2

LEMMA TurnAge ==
    ASSUME TypeOK, FrameInvs, RoundInv, AgeInvs, NEW d \in Devices, TurnOf(d)
    PROVE  AgeInvs'
<1>0. ~active[d] /\ step # "clear" /\ at = d => frame[d] = 0
  BY DEF FrameInvs, FrameInv
<1>1. CASE StillWaiting(d)
  BY <1>0, <1>1, NextAge DEF StillWaiting, streamVars
<1>2. CASE Reconnect(d)
  BY <1>2, StayAge DEF Reconnect, streamVars
<1>3. CASE Reconnected(d)
  <2>1. frame[d] = 0 /\ at = d /\ step = "reconnect"
    BY <1>0, <1>3 DEF Reconnected, RoundInv
  <2>2. \A c \in Devices : c # d => active'[c] = active[c] /\ silent'[c] = silent[c]
    BY <1>3 DEF Reconnected, Start, TypeOK
  <2> QED
    BY <1>3, <2>1, <2>2, NextAge DEF Reconnected, Start
<1>4. CASE ReconnectFails(d)
  <2>1. frame[d] = 0 /\ at = d /\ step = "reconnect"
    BY <1>0, <1>4 DEF ReconnectFails, RoundInv
  <2> QED
    BY <1>4, <2>1, NextAge DEF ReconnectFails, RetryLater
<1>5. CASE PollFrameset(d)
  <2> SUFFICES ASSUME NEW c \in Devices PROVE AgeInv(c)'
    BY DEF AgeInvs
  <2>1. at = d /\ step = "turn" /\ NextDevice
    BY <1>5 DEF PollFrameset
  <2>2. Away(c) \in Nat /\ Away(c)' \in Nat /\ (at # c => Away(c) <= Away(c)')
    BY <2>1, NextDeviceAway
  <2>3. CASE c = d
    <3>1. age'[c] = 0 /\ silent'[c] = 0
      BY <1>5, <2>3 DEF PollFrameset, TypeOK
    <3> QED
      BY <2>2, <3>1 DEF AgeInv
  <2>4. CASE c # d
    <3>1. /\ frame'[c] = frame[c] /\ age'[c] = age[c]
          /\ silent'[c] = silent[c] /\ active'[c] = active[c]
      BY <1>5, <2>4 DEF PollFrameset, TypeOK
    <3> QED
      BY <2>1, <2>2, <2>4, <3>1, SameAge DEF AgeInvs
  <2> QED
    BY <2>3, <2>4
<1>6. CASE PollIncomplete(d)
  <2>1. silent' = silent
    BY <1>6 DEF PollIncomplete, SignOfLife, TypeOK
  <2> QED
    BY <1>6, <2>1, CheckedAge DEF PollIncomplete
<1>7. CASE PollNothing(d)
  BY <1>7, CheckedAge DEF PollNothing
<1>8. CASE PollFails(d)
  BY <1>8, StayAge DEF PollFails, TypeOK
<1>9. CASE ClearFrames(d)
  <2> SUFFICES ASSUME NEW c \in Devices PROVE AgeInv(c)'
    BY DEF AgeInvs
  <2>1. step = "clear" /\ step' # "sleep" /\ UNCHANGED <<at, blocked, active, silent>>
    BY <1>9 DEF ClearFrames, AfterClear
  <2>2. Away(c) \in Nat /\ Away(c)' = Away(c)
    BY <2>1, AwayType, SameAway
  <2>3. CASE c = d
    BY <1>9, <2>3, NoPacket DEF ClearFrames, TypeOK
  <2>4. CASE c # d
    <3>1. frame'[c] = frame[c] /\ age'[c] = age[c]
      BY <1>9, <2>4 DEF ClearFrames, TypeOK
    <3> QED
      BY <2>1, <2>2, <3>1, SameAge DEF AgeInvs
  <2> QED
    BY <2>3, <2>4
<1>10. CASE Stopped(d)
  <2>1. frame[d] = 0
    BY <1>0, <1>10 DEF Stopped, RoundInv
  <2> QED
    BY <1>10, <2>1, NextAge DEF Stopped
<1> QED
  BY <1>1, <1>2, <1>3, <1>4, <1>5, <1>6, <1>7, <1>8, <1>9, <1>10 DEF TurnOf

LEMMA AgeStep ==
    TypeOK /\ FrameInvs /\ RoundInv /\ AgeInvs /\ [Next]_vars => AgeInvs'
<1> SUFFICES ASSUME TypeOK, FrameInvs, RoundInv, AgeInvs, [Next]_vars PROVE AgeInvs'
  OBVIOUS
<1>1. ASSUME OpenDevice \/ Opened \/ OpenFails \/ Close
      PROVE  AgeInvs'
  <2>1. \A c \in Devices : frame'[c] = 0
    BY <1>1 DEF OpenDevice, Start, RetryLater, Opened, OpenFails, Close, streamVars, RoundInv
  <2> QED
    BY <2>1, NoPacket DEF AgeInvs
<1>2. ASSUME WakeNow PROVE AgeInvs'
  <2> SUFFICES ASSUME NEW c \in Devices PROVE AgeInv(c)'
    BY DEF AgeInvs
  <2>1. Away(c) \in Nat /\ Away(c)' = Away(c) + 1
    BY <1>2, WakeAway DEF WakeNow
  <2> QED
    BY <1>2, <2>1, SameAge DEF WakeNow, streamVars, AgeInvs
<1>3. ASSUME WakeLater PROVE AgeInvs'
  BY <1>3, WakeAway, PassAge DEF WakeLater, AgeInvs
<1>4. CASE Block
  BY <1>4, BlockAway, PassAge DEF Block, AgeInvs
<1>5. CASE ClearPending
  BY <1>5, StayAge DEF ClearPending, streamVars
<1>6. CASE \E d \in Devices : TurnOf(d)
  BY <1>6, TurnAge
<1>7. ASSUME Inference \/ DropSource \/ UNCHANGED vars
             \/ \E d \in Devices : Bus(d) \/ ReadDepth(d)
      PROVE  AgeInvs'
  <2>1. CASE Inference
    <3>1. UNCHANGED loopVars
      BY <2>1 DEF Inference, WantImage, CopyImages, KeepDepth, InferNothing, InferPose,
             MeasureKept, NothingKept, MeasureCurrent, MeasureNothing
    <3> QED
      BY <3>1 DEF loopVars, streamVars, AgeInvs, AgeInv, Away
  <2>2. CASE ~Inference
    <3>1. UNCHANGED <<step, at, blocked, active, silent, frame, age>>
      BY <1>7, <2>2 DEF DropSource, Bus, Unplug, Plug, Freeze, ReadDepth, vars, streamVars
    <3> QED
      BY <3>1 DEF AgeInvs, AgeInv, Away
  <2> QED
    BY <2>1, <2>2
<1> QED
  BY <1>1, <1>2, <1>3, <1>4, <1>5, <1>6, <1>7 DEF Next, Capture

LEMMA CaptureInvStep == CaptureInv /\ [Next]_vars => CaptureInv'
<1> SUFFICES ASSUME CaptureInv, [Next]_vars PROVE CaptureInv'
  OBVIOUS
<1> USE DEF CaptureInv
<1>1. TypeOK' /\ FrameInvs' /\ PoseInv' /\ HeldInv'
  BY TypesStep, FramesStep, PoseStep, HeldStep DEF FrameInvs
<1>2. RoundInv'
  BY RoundStep DEF FrameInvs
<1>3. AgeInvs'
  BY AgeStep DEF FrameInvs, AgeInvs
<1> QED
  BY <1>1, <1>2, <1>3 DEF FrameInvs, AgeInvs

LEMMA CaptureInvAlways == Spec => []CaptureInv
BY CaptureInvInit, CaptureInvStep, PTL DEF Spec

\* A step of the thread measures nothing, and drops the depth put aside only for a
\* camera without a stream.
LEMMA ThreadLeavesPacket ==
    ASSUME TypeOK, RoundInv, HeldInv, Capture
    PROVE  UsesItsPacket /\ KeepsItsPacket
<1>1. UNCHANGED poseVars
  BY ThreadKeepsImage
<1>2. UsesItsPacket
  BY <1>1 DEF UsesItsPacket, poseVars
<1>3. KeepsItsPacket
  <2>1. CASE ClearPending
    BY <2>1 DEF ClearPending, RoundInv, KeepsItsPacket
  <2>2. ASSUME NEW d \in Devices, ReconnectFails(d) PROVE KeepsItsPacket
    BY <2>2 DEF ReconnectFails, RoundInv, KeepsItsPacket
  <2>3. ASSUME NEW d \in Devices, TurnOf(d), ~ReconnectFails(d) PROVE KeepsItsPacket
    BY <2>3 DEF TurnOf, StillWaiting, Reconnect, Reconnected, PollFrameset,
           PollIncomplete, PollNothing, PollFails, ClearFrames, Stopped, readerVars,
           KeepsItsPacket
  <2>4. CASE Close
    <3>1. reader = "idle"
      BY <2>4 DEF Close, HeldInv, Acquired
    <3> QED
      BY <3>1 DEF KeepsItsPacket
  <2>5. ASSUME OpenDevice \/ Opened \/ OpenFails \/ WakeNow \/ WakeLater
        PROVE  KeepsItsPacket
    BY <2>5 DEF OpenDevice, Opened, OpenFails, WakeNow, WakeLater, Wake, readerVars,
           KeepsItsPacket
  <2> QED
    BY <2>1, <2>2, <2>3, <2>4, <2>5 DEF Capture
<1> QED
  BY <1>2, <1>3

LEMMA InferenceUsesPacket ==
    ASSUME TypeOK, PoseInv, Inference
    PROVE  UsesItsPacket /\ KeepsItsPacket
<1>0. frame[PrimaryDevice] \in Nat
  BY DeviceFacts DEF TypeOK
<1> USE <1>0 DEF UsesItsPacket, KeepsItsPacket, Reader
<1>1. CASE WantImage
  BY <1>1 DEF WantImage
<1>2. CASE MeasureKept
  BY <1>2 DEF MeasureKept, PoseInv, Working, TypeOK
<1>3. CASE MeasureCurrent
  BY <1>3 DEF MeasureCurrent, PoseInv, Working, TypeOK
<1>4. CASE KeepDepth
  BY <1>4 DEF KeepDepth
<1>5. CASE CopyImages \/ InferNothing \/ InferPose \/ NothingKept \/ MeasureNothing
  BY <1>5 DEF CopyImages, InferNothing, InferPose, NothingKept, MeasureNothing
<1> QED
  BY <1>1, <1>2, <1>3, <1>4, <1>5 DEF Inference

\* What is proved: however frames arrive, cameras fail and come back while the model
\* runs, apply_depth_to_pose measures a pose in the packet kept with its image, unless
\* the primary camera was torn down meanwhile; then in a later frameset.
THEOREM DepthOfThePose == Spec => PoseHasItsDepth
<1>1. CaptureInv /\ [Next]_vars => [UsesItsPacket /\ KeepsItsPacket]_vars
  <2> SUFFICES ASSUME CaptureInv, Next PROVE UsesItsPacket /\ KeepsItsPacket
    OBVIOUS
  <2>1. CASE Capture
    BY <2>1, ThreadLeavesPacket DEF CaptureInv
  <2>2. CASE Inference
    BY <2>2, InferenceUsesPacket DEF CaptureInv
  <2>3. ASSUME \/ Block \/ DropSource
               \/ \E d \in Devices : Bus(d) \/ ReadDepth(d)
        PROVE  UsesItsPacket /\ KeepsItsPacket
    <3>1. UNCHANGED <<poseVars, pending>>
      BY <2>3 DEF Block, DropSource, Bus, Unplug, Plug, Freeze, ReadDepth, readerVars
    <3> QED
      BY <3>1 DEF UsesItsPacket, KeepsItsPacket, poseVars
  <2> QED
    BY <2>1, <2>2, <2>3 DEF Next
<1> QED
  BY <1>1, CaptureInvAlways, PTL DEF Spec, PoseHasItsDepth

-----------------------------------------------------------------------------
(* The capture thread implements LatestFrame: readers see the newest frame  *)
(* of an active camera, and nothing of any other.                           *)

Offered == [d \in Devices |-> IF active[d] THEN frame[d] ELSE 0]

\* A step that changes neither what is offered nor the numbers is invisible.
LEMMA NothingOffered ==
    ASSUME UNCHANGED <<sequence, active, frame, cursor>>
    PROVE  UNCHANGED Abstract!absVars
BY DEF Abstract!absVars

\* A camera that offers nothing is started, or one that is not active cleared.
LEMMA StillNothing ==
    ASSUME UNCHANGED <<sequence, frame, cursor>>, NEW d \in Devices, frame[d] = 0,
           active \in [Devices -> BOOLEAN], active' = [active EXCEPT ![d] = TRUE]
    PROVE  UNCHANGED Abstract!absVars
<1>1. Offered' = Offered
  BY DEF Offered
<1> QED
  BY <1>1 DEF Abstract!absVars, Offered

LEMMA TearingDownLoses ==
    ASSUME UNCHANGED <<sequence, frame, cursor>>, NEW d \in Devices,
           active \in [Devices -> BOOLEAN], active' = [active EXCEPT ![d] = FALSE]
    PROVE  Abstract!AbsNext
<1>1. Abstract!Lose({d})
  BY DEF Abstract!Lose
<1> QED
  BY <1>1 DEF Abstract!AbsNext

LEMMA TurnImplements ==
    ASSUME TypeOK, FrameInvs, NEW d \in Devices, TurnOf(d)
    PROVE  [Abstract!AbsNext]_Abstract!absVars
<1>1. CASE StillWaiting(d)
  BY <1>1, NothingOffered DEF StillWaiting, streamVars, readerVars
<1>2. CASE Reconnect(d)
  BY <1>2, NothingOffered DEF Reconnect, streamVars, readerVars
<1>3. CASE Reconnected(d)
  <2>1. CASE active[d]
    <3>1. UNCHANGED active
      BY <1>3, <2>1 DEF Reconnected, Start, TypeOK
    <3> QED
      BY <1>3, <3>1, NothingOffered DEF Reconnected, Start, readerVars
  <2>2. CASE ~active[d]
    <3>1. frame[d] = 0
      BY <1>3, <2>2 DEF Reconnected, FrameInvs, FrameInv
    <3> QED
      BY <1>3, <3>1, StillNothing DEF Reconnected, Start, readerVars, TypeOK
  <2> QED
    BY <2>1, <2>2
<1>4. CASE ReconnectFails(d)
  BY <1>4, NothingOffered DEF ReconnectFails, RetryLater
<1>5. CASE PollFrameset(d)
  <2>1. Abstract!Publish(d)
    BY <1>5 DEF PollFrameset, readerVars, Abstract!Publish, TypeOK
  <2> QED
    BY <2>1 DEF Abstract!AbsNext
<1>6. ASSUME PollIncomplete(d) \/ PollNothing(d) \/ PollFails(d)
      PROVE  [Abstract!AbsNext]_Abstract!absVars
  <2>1. UNCHANGED <<sequence, frame, cursor>>
    BY <1>6 DEF PollIncomplete, PollNothing, PollFails, readerVars
  <2>2. UNCHANGED active \/ active' = [active EXCEPT ![d] = FALSE]
    BY <1>6 DEF PollIncomplete, PollNothing, PollFails, Checked
  <2>3. active \in [Devices -> BOOLEAN]
    BY DEF TypeOK
  <2> QED
    BY <2>1, <2>2, <2>3, NothingOffered, TearingDownLoses
<1>7. CASE ClearFrames(d)
  <2>1. Abstract!Lose({d})
    BY <1>7 DEF ClearFrames, Abstract!Lose, TypeOK, readerVars
  <2> QED
    BY <2>1 DEF Abstract!AbsNext
<1>8. CASE Stopped(d)
  BY <1>8, NothingOffered DEF Stopped, readerVars
<1> QED
  BY <1>1, <1>2, <1>3, <1>4, <1>5, <1>6, <1>7, <1>8 DEF TurnOf

LEMMA StepImplements ==
    ASSUME TypeOK, FrameInvs, [Next]_vars
    PROVE  [Abstract!AbsNext]_Abstract!absVars
<1>1. CASE OpenDevice
  <2>1. at \in Devices /\ step = "open"
    BY <1>1 DEF OpenDevice, TypeOK, Devices
  <2>2. CASE Start(at)
    <3>1. CASE active[at]
      <4>1. UNCHANGED active
        BY <2>2, <3>1 DEF Start, TypeOK
      <4> QED
        BY <1>1, <2>2, <4>1, NothingOffered DEF OpenDevice, Start, readerVars
    <3>2. CASE ~active[at]
      <4>1. frame[at] = 0
        BY <2>1, <3>2 DEF FrameInvs, FrameInv
      <4> QED
        BY <1>1, <2>1, <2>2, <4>1, StillNothing DEF OpenDevice, Start, readerVars, TypeOK
    <3> QED
      BY <3>1, <3>2
  <2>3. CASE RetryLater(at)
    BY <1>1, <2>3, NothingOffered DEF OpenDevice, RetryLater, readerVars
  <2> QED
    BY <1>1, <2>2, <2>3 DEF OpenDevice
<1>2. ASSUME Opened \/ OpenFails \/ WakeNow \/ ClearPending
      PROVE  [Abstract!AbsNext]_Abstract!absVars
  BY <1>2, NothingOffered DEF Opened, OpenFails, WakeNow, Wake, ClearPending, streamVars,
         readerVars
<1>3. CASE WakeLater \/ Block
  BY <1>3, PassFrames, NothingOffered DEF WakeLater, Wake, Block, readerVars
<1>4. CASE Close
  <2>1. Abstract!Lose(Devices)
    BY <1>4 DEF Close, Abstract!Lose
  <2> QED
    BY <2>1 DEF Abstract!AbsNext
<1>5. CASE \E d \in Devices : TurnOf(d)
  BY <1>5, TurnImplements
<1>6. CASE \E d \in Devices : ReadDepth(d)
  <2>1. PICK d \in Devices : ReadDepth(d)
    BY <1>6
  <2>2. frame[d] = sequence[d]
    BY <2>1 DEF ReadDepth, FrameInvs, FrameInv
  <2>3. Abstract!Take(d)
    BY <2>1, <2>2 DEF ReadDepth, streamVars, Abstract!Take, TypeOK
  <2> QED
    BY <2>3 DEF Abstract!AbsNext
<1>7. ASSUME DropSource \/ (\E d \in Devices : Bus(d)) \/ UNCHANGED vars
      PROVE  [Abstract!AbsNext]_Abstract!absVars
  BY <1>7, NothingOffered DEF DropSource, Bus, Unplug, Plug, Freeze, vars, streamVars,
         readerVars
<1>8. CASE Inference
  <2>1. UNCHANGED loopVars
    BY <1>8 DEF Inference, WantImage, CopyImages, KeepDepth, InferNothing, InferPose,
           MeasureKept, NothingKept, MeasureCurrent, MeasureNothing
  <2> QED
    BY <2>1, NothingOffered DEF loopVars, streamVars
<1> QED
  BY <1>1, <1>2, <1>3, <1>4, <1>5, <1>6, <1>7, <1>8 DEF Next, Capture

\* What is proved: D4xxSource implements LatestFrame.  Whatever order failures,
\* invalidations, reconnects and the end of the source come in, a reader gets the
\* newest frame of a camera or nothing, and never a number twice.
THEOREM CaptureImplementsLatestFrame == Spec => ImplementsLatestFrame
<1>1. Init => Abstract!AbsInit
  BY DEF Init, Abstract!AbsInit
<1>2. CaptureInv /\ [Next]_vars => [Abstract!AbsNext]_Abstract!absVars
  BY StepImplements DEF CaptureInv, FrameInvs
<1> QED
  BY <1>1, <1>2, CaptureInvAlways, PTL
     DEF Spec, ImplementsLatestFrame, Abstract!AbsSpec

-----------------------------------------------------------------------------
(* The bound on the age.                                                   *)

LEMMA AwayIsBounded ==
    ASSUME TypeOK, FrameInvs, RoundInv, NEW d \in Devices, frame[d] # 0
    PROVE  Away(d) \in Nat /\ Away(d) <= HeldUp(DeviceCount - 1) + 1
<1> USE HeldUpType
<1>1. step # "open"
  BY DEF RoundInv
<1>2. d \in Nat /\ d < DeviceCount /\ at \in Nat /\ at < DeviceCount
  BY <1>1, DeviceFacts DEF TypeOK
<1>3. blocked \in Nat /\ blocked <= MaxBlock
  BY DEF TypeOK
<1>4. DeviceCount - 1 \in Nat
  OBVIOUS
<1>5. CASE step = "sleep"
  <2>1. DeviceCount - 1 - d \in Nat /\ DeviceCount - 1 - d <= DeviceCount - 1
    BY <1>2
  <2>2. HeldUp(DeviceCount - 1 - d) <= HeldUp(DeviceCount - 1)
    BY <1>4, <2>1, HeldUpGrows
  <2> QED
    BY <1>4, <1>5, <2>1, <2>2 DEF Away
<1>6. CASE step # "sleep" /\ at > d
  <2>1. at - d - 1 \in Nat /\ at - d - 1 + 1 \in Nat /\ at - d - 1 + 1 <= DeviceCount - 1
    BY <1>2, <1>6
  <2>2. HeldUp(at - d - 1 + 1) = HeldUp(at - d - 1) + MaxBlock
    BY <2>1, HeldUpNext
  <2>3. HeldUp(at - d - 1 + 1) <= HeldUp(DeviceCount - 1)
    BY <1>4, <2>1, HeldUpGrows
  <2>4. Away(d) = HeldUp(at - d - 1) + blocked
    BY <1>6 DEF Away
  <2> QED
    BY <1>3, <1>4, <2>1, <2>2, <2>3, <2>4
<1>7. CASE step # "sleep" /\ at < d
  <2> DEFINE others == DeviceCount - 1 - d + at
  <2>1. others \in Nat /\ others + 1 \in Nat /\ others + 1 <= DeviceCount - 1
    BY <1>2, <1>7
  <2>2. Away(d) = HeldUp(others) + blocked + 1
    BY <1>2, <1>7 DEF Away
  <2> HIDE DEF others
  <2>3. HeldUp(others + 1) = HeldUp(others) + MaxBlock
    BY <2>1, HeldUpNext
  <2>4. HeldUp(others + 1) <= HeldUp(DeviceCount - 1)
    BY <1>4, <2>1, HeldUpGrows
  <2> QED
    BY <1>3, <1>4, <2>1, <2>2, <2>3, <2>4
<1>8. CASE step # "sleep" /\ at = d
  <2>1. blocked = 0
    BY <1>8 DEF RoundInv, FrameInvs, FrameInv
  <2>2. DeviceCount - 1 - d + at = DeviceCount - 1
    BY <1>2, <1>8
  <2>3. Away(d) = HeldUp(DeviceCount - 1) + 0 + 1
    BY <1>2, <1>8, <2>1, <2>2 DEF Away
  <2> QED
    BY <1>4, <2>3
<1> QED
  BY <1>2, <1>5, <1>6, <1>7, <1>8

\* What is proved: with any number of cameras, and any bound on the time one of
\* them may block the thread they share, a depth packet is gone at the latest
\* StallTimeout plus one such time for every other camera after it was published.
THEOREM OldPacketsGo == Spec => []NoOldPacket
<1>1. CaptureInv => NoOldPacket
  <2> SUFFICES ASSUME CaptureInv, NEW d \in Devices, frame[d] # 0
               PROVE  age[d] <= OldestPacket
    BY DEF NoOldPacket
  <2>1. Away(d) \in Nat /\ Away(d) <= HeldUp(DeviceCount - 1) + 1
    BY AwayIsBounded DEF CaptureInv, FrameInvs
  <2>2. age[d] + 1 <= StallTimeout + Away(d) /\ age[d] \in Nat
    BY OldestPacketType DEF CaptureInv, AgeInv, TypeOK
  <2>3. DeviceCount - 1 \in Nat
    OBVIOUS
  <2> QED
    BY <2>1, <2>2, <2>3, HeldUpType DEF OldestPacket
<1> QED
  BY <1>1, CaptureInvAlways, PTL
=============================================================================
