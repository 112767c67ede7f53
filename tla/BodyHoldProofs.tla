---------------------------- MODULE BodyHoldProofs ----------------------------
(***************************************************************************)
(* Proofs about BodyHold and SkeletonSource, for any number of tracked     *)
(* people and for all holds, limits and delays.                            *)
(***************************************************************************)
EXTENDS BodyHold, TLAPS

-----------------------------------------------------------------------------
(* The skeleton source.                                                    *)

AtMost(limit, age) == IF age < limit THEN age ELSE limit

\* The selection and the filter are of the person published last, and count the
\* time since a frame tracked that person; a selection goes only when the lock is over.
PerformerInv ==
    /\ selected # Nobody => selected = last
    /\ filter # Nobody => filter = last
    /\ last # Nobody =>
          /\ selectedAge = AtMost(Lock, lastAge)
          /\ filter # Nobody => filterAge = AtMost(FilterLimit + 1, lastAge)
          /\ selected = Nobody => lastAge >= Lock

SourceInv == SourceTypeOK /\ PerformerInv

\* The steps of the source.
SourceStep ==
    \/ \E tracked \in SUBSET People : SkeletonFrame(tracked)
    \/ \E who \in {Nobody, Wearer} : TrackerFrame(who)
    \/ SourceTick
    \/ StampSkeleton
    \/ UNCHANGED exceptUnread /\ unread' = FALSE

USE SourceAssumption DEF selection, sourceVars, exceptUnread

LEMMA InitSource == SourceInit => SourceInv
<1> SUFFICES ASSUME SourceInit PROVE SourceInv
  OBVIOUS
<1>1. smoothed \in BOOLEAN /\ stamped \in BOOLEAN /\ unread \in BOOLEAN
  BY Zenon DEF SourceInit
<1> QED BY <1>1 DEF SourceInit, SourceInv, SourceTypeOK, PerformerInv

\* Who is selected: the person published last, or anyone once the lock is over.
LEMMA SelectedPerson ==
    ASSUME SourceInv, NEW tracked \in SUBSET People, NEW who \in tracked \cup {Nobody},
           Select(tracked, who)
    PROVE  /\ who # Nobody => who \in People
           /\ who # Nobody /\ who # last => last = Nobody \/ lastAge >= Lock
           /\ who = Nobody => last \notin tracked
BY DEF SourceInv, SourceTypeOK, PerformerInv, Select, Locked, AtMost

LEMMA FrameInv ==
    ASSUME SourceInv, NEW tracked \in SUBSET People, SkeletonFrame(tracked)
    PROVE  SourceInv'
<1> USE DEF SourceInv, SourceTypeOK, PerformerInv, AtMost
<1>1. PICK who \in tracked \cup {Nobody} : Select(tracked, who) /\ SkeletonFrame(tracked)!(who)
  BY DEF SkeletonFrame
<1>2. smoothed' \in BOOLEAN /\ stamped' \in BOOLEAN /\ unread' \in BOOLEAN
  BY <1>1, Zenon DEF Publish, Filtered
<1>3. CASE who # Nobody
  BY <1>1, <1>2, <1>3, SelectedPerson DEF Publish
<1>4. CASE who = Nobody
  BY <1>1, <1>2, <1>4, SelectedPerson DEF Publish, Locked
<1> QED BY <1>3, <1>4

LEMMA SourceKeepsInv == SourceInv /\ SourceStep => SourceInv'
<1> SUFFICES ASSUME SourceInv, SourceStep PROVE SourceInv'
  OBVIOUS
<1>1. CASE \E who \in {Nobody, Wearer} : TrackerFrame(who)
  <2>1. smoothed' \in BOOLEAN /\ stamped' \in BOOLEAN /\ unread' \in BOOLEAN
    BY <1>1, Zenon DEF TrackerFrame, Publish
  <2> QED BY <1>1, <2>1 DEF TrackerFrame, Publish, SourceInv, SourceTypeOK, PerformerInv
<1>2. CASE SourceTick
  BY <1>2 DEF SourceTick, UpTo, SourceInv, SourceTypeOK, PerformerInv, AtMost
<1>3. CASE UNCHANGED exceptUnread /\ unread' = FALSE
  BY <1>3 DEF SourceInv, SourceTypeOK, PerformerInv
<1>4. CASE StampSkeleton
  BY <1>4 DEF StampSkeleton, SourceInv, SourceTypeOK, PerformerInv
<1> QED BY <1>1, <1>2, <1>3, <1>4, FrameInv DEF SourceStep

\* What PerformerIsOnePerson asks of a step.
PublishesPerformer ==
    skeleton' \in People /\ stamped /\ ~stamped' =>
        /\ skeleton' # last => last = Nobody \/ lastAge >= Lock
        /\ smoothed' => skeleton' = last /\ lastAge <= FilterLimit

LEMMA SourceKeepsPerformer == SourceInv /\ SourceStep => PublishesPerformer
<1> SUFFICES ASSUME SourceInv, SourceStep, skeleton' \in People, stamped, ~stamped'
             PROVE  /\ skeleton' # last => last = Nobody \/ lastAge >= Lock
                    /\ smoothed' => skeleton' = last /\ lastAge <= FilterLimit
  BY DEF PublishesPerformer
<1>1. PICK tracked \in SUBSET People : SkeletonFrame(tracked)
  <2>1. ~SourceTick /\ ~StampSkeleton /\ ~UNCHANGED exceptUnread
    BY DEF SourceTick, StampSkeleton
  <2>2. ~\E who \in {Nobody, Wearer} : TrackerFrame(who)
    BY DEF TrackerFrame, Publish
  <2> QED BY <2>1, <2>2 DEF SourceStep
<1>2. PICK who \in tracked \cup {Nobody} : Select(tracked, who) /\ SkeletonFrame(tracked)!(who)
  BY <1>1 DEF SkeletonFrame
<1>3. who = skeleton' /\ who # Nobody /\ smoothed' = Filtered(who)
  BY <1>2 DEF Publish
<1>4. who # last => last = Nobody \/ lastAge >= Lock
  BY <1>2, <1>3, SelectedPerson
<1>5. Filtered(who) => who = last /\ lastAge <= FilterLimit
  BY <1>3 DEF Filtered, SourceInv, SourceTypeOK, PerformerInv, AtMost
<1> QED BY <1>3, <1>4, <1>5

-----------------------------------------------------------------------------
(* The body of the game.                                                   *)

\* Only the D4xx with MediaPipe has threads of inference and output, and only a native
\* source publishes skeletons.
ThreadsInv ==
    /\ unread => backend \in {"kinect", "steamvr"}
    /\ infer.step # "idle" => backend = "d4xx"
    /\ output.step # "idle" => backend = "d4xx"

\* The samples kept are those of the sight that goes on.
SamplesInv ==
    backend = "spike" =>
        /\ have => "latest" \notin broken
        /\ havePrevious =>
              /\ have
              /\ "previous" \notin broken
              /\ previousAge < Cap =>
                    latestAge < previousAge /\ previousAge <= latestAge + MaxGap

HoldInv == TypeOK /\ ThreadsInv /\ SamplesInv

USE HoldAssumption DEF poseVars

LEMMA CapType ==
    /\ Cap \in Nat /\ 0 \in 0..Cap /\ MaxDelay < Cap
    /\ \A age \in 0..MaxSampleAge : age \in 0..Cap
    /\ \A age \in 0..MaxDelay : age \in 0..Cap
    /\ \A age \in 0..Cap : Older(age) \in 0..Cap
BY DEF Cap, Older

LEMMA InitHold == Init => HoldInv /\ SourceInv
<1> SUFFICES ASSUME Init PROVE HoldInv /\ SourceInv
  OBVIOUS
<1>1. SourceInv
  BY InitSource DEF Init
<1>2. have \in BOOLEAN /\ attemptOk \in BOOLEAN /\ havePrevious \in BOOLEAN
      /\ player \in BOOLEAN
  BY Zenon DEF Init
<1>3. /\ infer \in [step : {"idle", "infer", "done"}, sample : 0..Cap, found : BOOLEAN,
                    done : 0..MaxDelay]
      /\ output \in [step : {"idle", "look"}, now : 0..MaxDelay]
  BY CapType DEF Init
<1>4. Cap \in 0..Cap /\ MissLimit + 1 \in 0..MissLimit + 1
  BY CapType
<1>5. TypeOK
  BY <1>1, <1>2, <1>3, <1>4 DEF Init, TypeOK, SourceInv
<1>6. ThreadsInv /\ SamplesInv
  BY DEF Init, SourceInit, ThreadsInv, SamplesInv
<1> QED BY <1>1, <1>5, <1>6 DEF HoldInv

\* The source takes a step of its own, or none.
LEMMA SourceSteps ==
    ASSUME HoldInv, [Next]_vars
    PROVE  SourceStep \/ UNCHANGED sourceVars
<1>1. CASE SourceFrame \/ StampSource
  BY <1>1 DEF SourceFrame, StampSource, SourceStep
<1>2. CASE NativeSkip \/ NativeDetect \/ NativeMiss
  BY <1>2 DEF NativeSkip, NativeDetect, NativeMiss, SkipSkeleton, ReadSkeleton, SourceStep
<1>3. CASE Tick
  BY <1>3 DEF Tick, SourceStep
<1>4. CASE PlayerMoves \/ Inference \/ ReadNow \/ Deliver
  BY <1>4 DEF PlayerMoves, Inference, TakeFrame, InferPose, StorePose, ReadNow, Deliver
<1>5. CASE SpikeSample \/ SpikeMiss \/ WebcamDetect \/ WebcamMiss
  BY <1>5 DEF SpikeSample, SpikeMiss, WebcamDetect, WebcamMiss
<1>6. CASE UNCHANGED vars
  BY <1>6 DEF vars
<1> QED BY <1>1, <1>2, <1>3, <1>4, <1>5, <1>6 DEF Next, Callback, NativeTurn, WebcamTurn

LEMMA NextSource ==
    ASSUME HoldInv, SourceInv, [Next]_vars
    PROVE  SourceInv'
<1>1. CASE UNCHANGED sourceVars
  BY <1>1 DEF SourceInv, SourceTypeOK, PerformerInv
<1> QED BY <1>1, SourceSteps, SourceKeepsInv

LEMMA Wrapped ==
    ASSUME NEW w \in Nat, NEW x \in Nat, x < w
    PROVE  (w + x) % w = x
BY SMT

LEMMA Small ==
    ASSUME NEW w \in Nat, NEW x \in Nat, x < w
    PROVE  x % w = x
BY SMT

\* The unsigned difference is the age of the last valid pose at now_ms, unless the pose is
\* younger than now_ms: then it is larger than any age.
LEMMA SinceValidValue ==
    ASSUME validAge \in 0..Cap, output.now \in 0..MaxDelay
    PROVE  /\ SinceValid \in Nat
           /\ output.now <= validAge => SinceValid = validAge - output.now
           /\ output.now > validAge => SinceValid > Cap
<1>1. SinceValid \in Nat
  BY CapType DEF SinceValid
<1>2. CASE output.now <= validAge
  <2>1. validAge - output.now \in Nat /\ validAge - output.now < Word
    BY <1>2, CapType
  <2>2. (Word + (validAge - output.now)) % Word = validAge - output.now
    BY <2>1, Wrapped
  <2>3. Word + validAge - output.now = Word + (validAge - output.now)
    BY CapType
  <2> QED BY <1>1, <1>2, <2>2, <2>3, CapType DEF SinceValid
<1>3. CASE output.now > validAge
  <2> DEFINE x == Word + validAge - output.now
  <2>1. x \in Nat /\ x < Word /\ x > Cap
    BY <1>3, CapType
  <2>2. x % Word = x
    <3> HIDE DEF x
    <3> QED BY <2>1, Small
  <2> QED BY <1>1, <1>3, <2>1, <2>2, CapType DEF SinceValid
<1> QED BY <1>2, <1>3, CapType

\* A difference within a limit means an age within it, or one within the delay.
LEMMA SinceValidAge ==
    ASSUME validAge \in 0..Cap, output.now \in 0..MaxDelay,
           NEW limit \in Nat, limit <= Cap, SinceValid <= limit
    PROVE  validAge <= limit + MaxDelay
BY SinceValidValue, CapType

LEMMA TickHold == HoldInv /\ SourceTypeOK' /\ Tick => HoldInv'
<1> SUFFICES ASSUME HoldInv, SourceTypeOK', Tick PROVE HoldInv'
  OBVIOUS
<1> USE DEF HoldInv, TypeOK
<1>1. /\ infer' \in [step : {"idle", "infer", "done"}, sample : 0..Cap, found : BOOLEAN,
                     done : 0..MaxDelay]
      /\ infer'.step = infer.step
  <2>1. CASE infer.step = "idle"
    BY <2>1 DEF Tick
  <2>2. Older(infer.sample) \in 0..Cap
    BY CapType
  <2>3. CASE infer.step # "idle"
    <3> DEFINE done == IF infer.step = "done" THEN infer.done + 1 ELSE 0
    <3>1. infer' = [infer EXCEPT !.sample = Older(infer.sample), !.done = done]
      BY <2>3 DEF Tick
    <3>2. done \in 0..MaxDelay
      BY DEF Tick
    <3> HIDE DEF done
    <3> QED BY <2>2, <3>1, <3>2
  <2> QED BY <2>1, <2>3
<1>2. /\ output' \in [step : {"idle", "look"}, now : 0..MaxDelay]
      /\ output'.step = output.step
  BY DEF Tick
<1>3. TypeOK'
  BY <1>1, <1>2, CapType DEF Tick
<1>4. ThreadsInv'
  BY <1>1, <1>2 DEF Tick, SourceTick, ThreadsInv
<1>5. SamplesInv'
  BY CapType DEF Tick, SamplesInv, Older
<1> QED BY <1>3, <1>4, <1>5

\* The threads of d4xx_analysis_loop.
LEMMA ThreadsHold ==
    ASSUME HoldInv, SourceTypeOK', PlayerMoves \/ Inference \/ ReadNow \/ Deliver
    PROVE  HoldInv'
<1> USE CapType DEF HoldInv, TypeOK, ThreadsInv, SamplesInv
<1>1. CASE PlayerMoves
  BY <1>1 DEF PlayerMoves
<1>2. CASE TakeFrame
  BY <1>2 DEF TakeFrame
<1>3. CASE InferPose
  BY <1>3 DEF InferPose
<1>4. CASE StorePose
  <2>1. backend = "d4xx" /\ 0 \in 0..MaxDelay
    BY <1>4 DEF StorePose
  <2>2. CASE infer.found
    BY <1>4, <2>1, <2>2 DEF StorePose
  <2>3. CASE ~infer.found
    BY <1>4, <2>1, <2>3 DEF StorePose
  <2> QED BY <2>2, <2>3
<1>5. CASE ReadNow
  BY <1>5 DEF ReadNow
<1>6. CASE Deliver
  BY <1>6 DEF Deliver, HeldBody
<1> QED BY <1>1, <1>2, <1>3, <1>4, <1>5, <1>6 DEF Inference

\* The turns of analysis_loop with a skeleton or a webcam.
LEMMA NativeHold ==
    ASSUME HoldInv, SourceTypeOK',
           SourceFrame \/ StampSource \/ NativeSkip \/ NativeTurn \/ WebcamTurn
    PROVE  HoldInv'
<1> USE CapType DEF HoldInv, TypeOK, ThreadsInv, SamplesInv
<1>1. CASE SourceFrame
  BY <1>1 DEF SourceFrame
<1>2. CASE StampSource
  BY <1>2 DEF StampSource, StampSkeleton
<1>3. CASE NativeSkip
  BY <1>3 DEF NativeSkip, SkipSkeleton
<1>4. CASE NativeDetect
  BY <1>4 DEF NativeDetect, ReadSkeleton, Found
<1>5. CASE NativeMiss
  BY <1>5 DEF NativeMiss, ReadSkeleton, Grace
<1>6. CASE WebcamDetect
  BY <1>6 DEF WebcamDetect, Found
<1>7. CASE WebcamMiss
  BY <1>7 DEF WebcamMiss
<1> QED BY <1>1, <1>2, <1>3, <1>4, <1>5, <1>6, <1>7 DEF NativeTurn, WebcamTurn

LEMMA SampleHold == HoldInv /\ SourceTypeOK' /\ SpikeSample => HoldInv'
<1> SUFFICES ASSUME HoldInv, SourceTypeOK', SpikeSample PROVE HoldInv'
  OBVIOUS
<1> USE DEF HoldInv, TypeOK
<1>1. PICK age \in 0..MaxSampleAge : FileSample(age)
  BY DEF SpikeSample
<1>2. age \in 0..Cap
  BY CapType
<1>3. /\ have' \in BOOLEAN /\ havePrevious' \in BOOLEAN /\ attemptOk' \in BOOLEAN
      /\ latestAge' \in 0..Cap /\ previousAge' \in 0..Cap
      /\ broken' \subseteq {"latest", "previous"}
  BY <1>1, <1>2 DEF FileSample, SpikeSample
<1>4. TypeOK'
  BY <1>3, CapType DEF SpikeSample
<1>5. ThreadsInv'
  BY DEF SpikeSample, ThreadsInv
<1>6. SamplesInv'
  <2>1. backend = "spike" /\ (have => "latest" \notin broken)
    BY DEF SpikeSample, SamplesInv
  <2>2. CASE ~have
    BY <1>1, <1>2, <2>1, <2>2 DEF FileSample, SamplesInv
  <2>3. CASE have /\ age < latestAge
    <3>1. /\ havePrevious' <=> latestAge - age <= MaxGap
          /\ latestAge - age <= MaxGap => previousAge' = latestAge
          /\ latestAge' = age /\ broken' = {} /\ have'
      BY <1>1, <2>1, <2>3 DEF FileSample
    <3> QED BY <1>2, <2>3, <3>1 DEF SamplesInv
  <2>4. CASE have /\ age > latestAge
    <3>1. ~havePrevious' /\ broken' = {}
      BY <1>1, <1>2, <2>4 DEF FileSample
    <3> QED BY <3>1 DEF SamplesInv
  <2>5. CASE have /\ age = latestAge
    BY <1>1, <1>2, <2>5 DEF FileSample, SamplesInv, SpikeSample
  <2> QED BY <1>2, <2>2, <2>3, <2>4, <2>5
<1> QED BY <1>4, <1>5, <1>6

LEMMA MissHold == HoldInv /\ SourceTypeOK' /\ SpikeMiss => HoldInv'
<1> SUFFICES ASSUME HoldInv, SourceTypeOK', SpikeMiss PROVE HoldInv'
  OBVIOUS
<1> USE DEF HoldInv, TypeOK
<1>1. PICK received \in BOOLEAN : SpikeMiss!2!(received)
  BY DEF SpikeMiss
<1> QED BY <1>1 DEF SpikeMiss, Grace, ForgetSamples, ThreadsInv, SamplesInv

LEMMA NextHold == HoldInv /\ SourceInv /\ [Next]_vars => HoldInv' /\ SourceInv'
<1> SUFFICES ASSUME HoldInv, SourceInv, [Next]_vars PROVE HoldInv' /\ SourceInv'
  OBVIOUS
<1>1. SourceInv' /\ SourceTypeOK'
  BY NextSource DEF SourceInv
<1>2. CASE UNCHANGED vars
  BY <1>1, <1>2 DEF vars, HoldInv, TypeOK, ThreadsInv, SamplesInv
<1> QED BY <1>1, <1>2, TickHold, ThreadsHold, NativeHold, SampleHold, MissHold
        DEF Next, Callback

LEMMA HoldInvariant == Spec => [](HoldInv /\ SourceInv)
BY InitHold, NextHold, PTL DEF Spec

-----------------------------------------------------------------------------

\* Every variable keeps its type.
THEOREM TypeCorrect == Spec => []TypeOK
<1>1. HoldInv => TypeOK
  BY DEF HoldInv
<1> QED BY <1>1, HoldInvariant, PTL

\* A SPiKE body is extrapolated with the motion of one uninterrupted sight.
THEOREM MotionStaysContinuous == Spec => []MotionIsContinuous
<1>1. HoldInv => MotionIsContinuous
  BY DEF HoldInv, TypeOK, SamplesInv, MotionIsContinuous
<1> QED BY <1>1, HoldInvariant, PTL

\* A body handed to the game as tracked was seen.
THEOREM TrackedBodyWasSeen == Spec => TrackedWasSeen
<1>1. HoldInv /\ [Next]_vars =>
        [Callback /\ body' = "tracked" => attemptOk' \/ validAge' <= InferAfter + MaxDelay]_vars
  <2> SUFFICES ASSUME HoldInv, Callback, body' = "tracked"
               PROVE  attemptOk' \/ validAge' <= InferAfter + MaxDelay
    OBVIOUS
  <2> USE DEF HoldInv, TypeOK
  <2>1. CASE Deliver
    <3>1. attemptOk' = attemptOk /\ validAge' = validAge
      BY <2>1 DEF Deliver
    <3>2. attemptOk \/ ~(SinceValid > InferAfter)
      BY <2>1 DEF Deliver, HeldBody
    <3>3. SinceValid \in Nat /\ validAge \in 0..Cap /\ output.now \in 0..MaxDelay
      BY CapType DEF SinceValid
    <3>4. SinceValid <= InferAfter => validAge <= InferAfter + MaxDelay
      <4>1. InferAfter \in Nat /\ InferAfter <= Cap
        BY DEF Cap
      <4> QED BY <3>3, <4>1, SinceValidAge
    <3> QED BY <3>1, <3>2, <3>3, <3>4
  <2>2. CASE SpikeSample \/ SpikeMiss
    BY <2>2 DEF SpikeSample, SpikeMiss
  <2>3. CASE NativeTurn \/ WebcamTurn
    BY <2>3 DEF NativeTurn, WebcamTurn, NativeDetect, NativeMiss, WebcamDetect, WebcamMiss, Found
  <2> QED BY <2>1, <2>2, <2>3 DEF Callback
<1> QED BY <1>1, HoldInvariant, PTL DEF Spec, TrackedWasSeen

\* Nobody stays in the game longer than the configured hold.
THEOREM HeldBodyStaysRecent == Spec => HeldBodyIsRecent
<1>1. HoldInv /\ [Next]_vars =>
        [Callback /\ body' # "none" =>
            IF backend = "webcam" THEN miss' <= MissLimit
                                  ELSE validAge' <= Hold + MaxDelay]_vars
  <2> SUFFICES ASSUME HoldInv, Callback, body' # "none"
               PROVE  IF backend = "webcam" THEN miss' <= MissLimit
                                            ELSE validAge' <= Hold + MaxDelay
    OBVIOUS
  <2> USE DEF HoldInv, TypeOK
  <2>1. CASE Deliver
    <3>1. validAge' = validAge /\ backend = "d4xx" /\ SinceValid <= Hold
      BY <2>1 DEF Deliver, ThreadsInv
    <3>2. Hold \in Nat /\ Hold <= Cap
      BY DEF Cap
    <3> QED BY <3>1, <3>2, SinceValidAge
  <2>2. CASE SpikeSample \/ SpikeMiss
    BY <2>2 DEF SpikeSample, SpikeMiss, Grace
  <2>3. CASE NativeTurn
    <3>1. backend \in {"kinect", "steamvr"}
      BY <2>3 DEF NativeTurn, NativeDetect, NativeMiss, ReadSkeleton, ThreadsInv
    <3> QED BY <2>3, <3>1 DEF NativeTurn, NativeDetect, NativeMiss, Found, Grace
  <2>4. CASE WebcamTurn
    BY <2>4 DEF WebcamTurn, WebcamDetect, WebcamMiss, Found
  <2> QED BY <2>1, <2>2, <2>3, <2>4 DEF Callback
<1> QED BY <1>1, HoldInvariant, PTL DEF Spec, HeldBodyIsRecent

\* A pose within its hold reaches the game exactly when it was not stored after the output
\* thread looked at the clock: this is the only way FreshPoseIsDelivered fails.
DeliveredUnlessOvertaken ==
    [][Deliver /\ have /\ validAge <= Hold =>
          (body' # "none" <=> output.now <= validAge)]_vars

THEOREM OnlyOvertakenPosesAreLost == Spec => DeliveredUnlessOvertaken
<1>1. HoldInv =>
        [Deliver /\ have /\ validAge <= Hold =>
            (body' # "none" <=> output.now <= validAge)]_vars
  <2> SUFFICES ASSUME HoldInv, Deliver, have, validAge <= Hold
               PROVE  body' # "none" <=> output.now <= validAge
    OBVIOUS
  <2>1. /\ validAge \in 0..Cap /\ output.now \in 0..MaxDelay /\ validAge \in Nat
        /\ output.now \in Nat
    BY CapType DEF HoldInv, TypeOK
  <2>2. body' # "none" <=> SinceValid <= Hold
    BY DEF Deliver, HeldBody
  <2>3. Hold < Cap
    BY DEF Cap
  <2> QED BY <2>1, <2>2, <2>3, SinceValidValue, CapType
<1> QED BY <1>1, HoldInvariant, PTL DEF Spec, DeliveredUnlessOvertaken

\* The Kinect follows one person, and smooths a skeleton with that person's joints.
THEOREM PerformerStaysOnePerson == Spec => PerformerIsOnePerson
<1>1. HoldInv /\ SourceInv /\ [Next]_vars => [PublishesPerformer]_sourceVars
  BY SourceSteps, SourceKeepsPerformer
<1> QED BY <1>1, HoldInvariant, PTL DEF Spec, PerformerIsOnePerson, PublishesPerformer

=============================================================================
