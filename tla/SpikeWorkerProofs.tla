-------------------------- MODULE SpikeWorkerProofs --------------------------
(***************************************************************************)
(* Proofs about SpikeWorker, for all configurations and limits, and with   *)
(* no bound on the clock.                                                  *)
(***************************************************************************)
EXTENDS SpikeWorker, SequenceTheorems, TLAPS

-----------------------------------------------------------------------------
(* The invariant.                                                          *)

\* One frame follows another in an uninterrupted sight.
Follows(f, g) ==
    g.seq > f.seq /\ g.time > f.time /\ g.time <= f.at + DropoutHold + MaximumGap

Newest(h) == h[Len(h)]

\* What a camera holds, lost being the last frame before its player was last lost.
Holds(k, lost) ==
    /\ lost <= k.source.seq
    /\ ~k.valid => k.history = <<>>
    /\ k.prediction_valid =>
          k.valid /\ Len(k.history) = FramesPerClip /\ k.prediction.first > lost
    /\ k.history # <<>> =>
          /\ Newest(k.history) = [seq |-> k.candidate.seq, time |-> k.candidate.time,
                                  at |-> k.last_candidate]
          /\ k.candidate.seq <= k.source.seq
          /\ k.candidate.time <= k.source.time
          /\ k.candidate.time <= k.last_candidate
    /\ \A i \in 1 .. Len(k.history) : k.history[i].seq > lost
    /\ \A i \in 2 .. Len(k.history) : Follows(k.history[i - 1], k.history[i])

HoldsInv == \A c \in Cameras : Holds(cam[c], lost_at[c])

\* All cameras have delivered a frame.
AllSeen == \A c \in Cameras : cam[c].last_frame # 0

\* The camera has still to be served in this turn.
Pending(c) ==
    \/ pc \in {"calibrate", "sort"} /\ frames[c] # NoFrame
    \/ pc = "isolate" /\ c \in todo

\* The frame a camera waits with is newer than all it holds; only the last sample of
\* its background is looked at again.
FramesInv ==
    \A c \in Cameras :
        /\ cam[c].source.seq <= slot[c].seq /\ cam[c].source.time <= slot[c].time
        /\ slot[c].time <= now
        /\ frames[c] # NoFrame => frames[c] = slot[c] /\ frames[c].seq > 0
        /\ Pending(c) =>
              /\ frames[c].seq >= cam[c].source.seq
              /\ frames[c].seq > lost_at[c]
              /\ cam[c].history # <<>> => frames[c].seq > cam[c].source.seq

\* A camera that is processed was bridged no longer than the hold; one that was processed
\* until the serials were known keeps its clip, and is never processed again.
RecentInv ==
    \A c \in Cameras : cam[c].history # <<>> =>
        IF c \in Processing
        THEN cam[c].source.time <= cam[c].last_candidate + DropoutHold
        ELSE AllSeen

\* While a background is missing nothing else is there.
CalibrationInv ==
    /\ pc = "calibrate" => Calibrating(cam)
    /\ pc \in {"sort", "isolate", "infer"} => ~Calibrating(cam)
    /\ Calibrating(cam) =>
          /\ reused = 0
          /\ \A c \in Cameras : /\ lost_at[c] = 0 /\ cam[c].history = <<>>
                                /\ ~cam[c].prediction_valid

TurnInv ==
    /\ now >= Start
    /\ pc = "isolate" =>
          /\ isolation_now \in 0 .. now
          /\ todo \subseteq Processing
          /\ \A c \in todo : frames[c] # NoFrame /\ frames[c].time <= isolation_now
    /\ pc = "infer" =>
          \A c \in chosen : cam[c].valid /\ Len(cam[c].history) = FramesPerClip

\* After an inference that was not the primary's, the count of outputs has moved on, or
\* the secondary's prediction is gone.
ReuseInv ==
    SecondaryEveryN > 1 =>
        /\ reused <= 1
        /\ reused = 1 =>
              /\ AllSeen
              /\ IF pc = "infer" THEN output_count = 0
                 ELSE output_count # 0 \/ ~cam[Secondary].prediction_valid

LoopInv ==
    HoldsInv /\ FramesInv /\ RecentInv /\ CalibrationInv /\ TurnInv /\ ReuseInv

\* The cameras that are processed never change once a player can be isolated: both are
\* processed, both are needed for a background, or the serials change nothing.
PrimaryIsKnown ==
    \A k \in Configurations : \/ k.fusion_mode = "calibrated"
                               \/ k.background_calibration_frames > 0
                               \/ PrimaryCamera = PrimarySerial

\* A player in sight was found, or bridged, when the newest frame was isolated.
AgeInv ==
    /\ \A c \in Cameras :
          /\ cam[c].last_frame <= now /\ cam[c].last_candidate <= now
          /\ frames[c] # NoFrame \/ cam[c].samples > 0 => cam[c].last_frame # 0
          /\ pc = "isolate" => cam[c].last_frame <= isolation_now
          /\ cam[c].valid =>
                /\ c \in Processing
                /\ pc # "failed" /\ ~Pending(c) =>
                      cam[c].last_frame <= cam[c].last_candidate + DropoutHold
    /\ Calibrating(cam) => \A c \in Cameras : ~cam[c].valid

\* While the model runs, no candidate is further ahead of a view it may join than the view
\* may be old; candidates are from the past.
PoseInv ==
    /\ \A c \in Cameras : cam[c].candidate.time <= now
    /\ pc = "infer" =>
          \A c, d \in Cameras : input_fresh[c] /\ cam[c].valid =>
              cam[d].candidate.time <= cam[c].last_candidate + DropoutHold + MaximumInputAge

-----------------------------------------------------------------------------
(* Operators on one camera.                                                *)

LEMMA LimitTypes ==
    /\ PrimaryCamera \in {0, 1} /\ PrimarySerial \in {0, 1}
    /\ SecondaryEveryN \in Nat \ {0} /\ MinimumInterval \in Nat \ {0}
    /\ DropoutHold \in Nat /\ MaximumGap \in Nat /\ MaximumInputAge \in Nat
BY WorkerAssumption DEF Cameras

\* FramesPerClip and CalibrationFrames, as the configuration gives them.
LEMMA ConfigTypes ==
    ASSUME config \in Configurations
    PROVE  /\ FramesPerClip \in Nat \ {0} /\ CalibrationFrames \in Nat
           /\ mode \in {"primary", "calibrated"}
           /\ MaxLatency[config] \in Nat /\ MaxTime[config] \in Nat
BY WorkerAssumption DEF FramesPerClip, CalibrationFrames, mode

LEMMA CameraFacts ==
    /\ Cameras = {0, 1} /\ NoFrame \in Frames /\ NoFrame.seq = 0 /\ NoFrame.time = 0
    /\ FreshCamera \in CameraRecords /\ FreshCamera.history = <<>>
    /\ Len(FreshCamera.history) = 0
BY DEF Cameras, NoFrame, Frames, FreshCamera, CameraRecords, Clips

Entries == [seq : Nat, time : Nat, at : Nat]

\* A clip with one more frame: the old one without its first frame if it was full.
LEMMA ClipAppend ==
    ASSUME config \in Configurations, NEW h \in Clips, NEW e \in Entries,
           Len(h) <= FramesPerClip
    PROVE  LET longer == AppendToClip(h, e) IN
           /\ longer \in Clips /\ longer # <<>>
           /\ Len(longer) \in 1 .. FramesPerClip
           /\ Len(h) = FramesPerClip => Len(longer) = FramesPerClip
           /\ Newest(longer) = e
           /\ \E d \in {0, 1} :
                 /\ Len(longer) + d = Len(h) + 1
                 /\ \A i \in 1 .. Len(longer) - 1 : i + d \in 1 .. Len(h) /\ longer[i] = h[i + d]
<1> DEFINE longer == Append(h, e)
<1>1. FramesPerClip \in Nat \ {0}
  BY ConfigTypes
<1>2. h \in Seq(Entries)
  BY DEF Clips, Entries
<1>3. Len(h) \in Nat
  BY <1>2, LenProperties
<1>4. /\ longer \in Seq(Entries) /\ longer # <<>>
      /\ Len(longer) = Len(h) + 1
      /\ \A i \in 1 .. Len(h) : longer[i] = h[i]
      /\ longer[Len(h) + 1] = e
  BY <1>2, AppendProperties
<1>5. AppendToClip(h, e) = IF Len(longer) > FramesPerClip THEN Tail(longer) ELSE longer
  BY DEF AppendToClip
<1> HIDE DEF longer
<1>6. CASE Len(longer) > FramesPerClip
  <2>1. /\ Tail(longer) \in Seq(Entries)
        /\ Len(Tail(longer)) = Len(longer) - 1
        /\ \A i \in 1 .. Len(Tail(longer)) : Tail(longer)[i] = longer[i + 1]
    BY <1>4, HeadTailProperties
  <2>2. Len(h) = FramesPerClip /\ Len(Tail(longer)) = FramesPerClip
    BY <1>1, <1>3, <1>4, <1>6, <2>1
  <2>3. Tail(longer) # <<>>
    BY <1>1, <2>2, EmptySeq
  <2>4. Newest(Tail(longer)) = e
    BY <1>1, <1>4, <2>1, <2>2 DEF Newest
  <2>5. \A i \in 1 .. Len(Tail(longer)) - 1 : i + 1 \in 1 .. Len(h) /\ Tail(longer)[i] = h[i + 1]
    BY <1>1, <1>4, <2>1, <2>2
  <2>6. AppendToClip(h, e) = Tail(longer)
    BY <1>5, <1>6
  <2>7. Tail(longer) \in Clips
    BY <2>1 DEF Clips, Entries
  <2> QED BY <1>1, <1>3, <2>2, <2>3, <2>4, <2>5, <2>6, <2>7
<1>7. CASE ~(Len(longer) > FramesPerClip)
  <2>1. AppendToClip(h, e) = longer
    BY <1>5, <1>7
  <2>2. longer \in Clips
    BY <1>4 DEF Clips, Entries
  <2>3. Newest(longer) = e
    BY <1>4 DEF Newest
  <2>4. Len(longer) \in 1 .. FramesPerClip /\ Len(h) # FramesPerClip
    BY <1>1, <1>3, <1>4, <1>7
  <2>5. \A i \in 1 .. Len(longer) - 1 : i + 0 \in 1 .. Len(h) /\ longer[i] = h[i + 0]
    BY <1>3, <1>4
  <2> QED BY <1>3, <1>4, <2>1, <2>2, <2>3, <2>4, <2>5
<1> QED BY <1>6, <1>7

\* What LosePlayer and LoseInput leave.
LEMMA LosePlayerEffect ==
    ASSUME NEW k \in CameraRecords
    PROVE  /\ LosePlayer(k) \in CameraRecords
           /\ LosePlayer(k).source = k.source /\ LosePlayer(k).samples = k.samples
           /\ LosePlayer(k).last_frame = k.last_frame
           /\ ~LosePlayer(k).valid /\ ~LosePlayer(k).prediction_valid
           /\ LosePlayer(k).history = <<>>
           /\ LosePlayer(k).last_candidate = k.last_candidate
           /\ LosePlayer(k).candidate = k.candidate
<1> DEFINE p == [k.prediction EXCEPT !.time = 0]
<1>1. p \in [seq : Nat, time : Nat, first : Nat]
  BY DEF CameraRecords
<1>2. LosePlayer(k) = [k EXCEPT !.valid = FALSE, !.history = <<>>,
                               !.prediction_valid = FALSE, !.prediction = p]
  BY DEF LosePlayer
<1>3. <<>> \in Clips
  BY DEF Clips
<1> HIDE DEF p
<1> QED BY <1>1, <1>2, <1>3 DEF CameraRecords

LEMMA LoseInputEffect ==
    ASSUME NEW k \in CameraRecords
    PROVE  /\ LoseInput(k) \in CameraRecords
           /\ LoseInput(k).source = k.source /\ LoseInput(k).samples = k.samples
           /\ LoseInput(k).last_frame = k.last_frame
           /\ ~LoseInput(k).valid /\ ~LoseInput(k).prediction_valid
           /\ LoseInput(k).history = <<>>
           /\ LoseInput(k).last_candidate = 0 /\ LoseInput(k).candidate = NoFrame
BY LosePlayerEffect, CameraFacts DEF LoseInput, CameraRecords

\* A camera that has nothing holds nothing from before a loss.
LEMMA NothingHolds ==
    ASSUME NEW k \in CameraRecords, NEW lost, lost <= k.source.seq,
           ~k.prediction_valid, k.history = <<>>
    PROVE  Holds(k, lost)
BY DEF Holds

LEMMA FindPlayerEffect ==
    ASSUME config \in Configurations, NEW k \in CameraRecords, NEW f \in Frames, now \in Nat,
           Len(k.history) <= FramesPerClip
    PROVE  LET p == FindPlayer(k, f) IN
           /\ p \in CameraRecords
           /\ p.source = k.source /\ p.samples = k.samples /\ p.last_frame = k.last_frame
           /\ p.valid /\ p.candidate = f /\ p.last_candidate = now
           /\ p.prediction = k.prediction /\ p.prediction_valid = k.prediction_valid
           /\ p.history = AppendToClip(k.history, [seq |-> f.seq, time |-> f.time, at |-> now])
<1>1. [seq |-> f.seq, time |-> f.time, at |-> now] \in Entries /\ Stamp(f) = f
  BY DEF Entries, Frames, Stamp
<1>2. k.history \in Clips
  BY DEF CameraRecords
<1>3. AppendToClip(k.history, [seq |-> f.seq, time |-> f.time, at |-> now]) \in Clips
  BY <1>1, <1>2, ClipAppend
<1> QED BY <1>1, <1>3 DEF FindPlayer, CameraRecords

LEMMA ClipFacts ==
    ASSUME NEW h \in Clips
    PROVE  /\ Len(h) \in Nat
           /\ h = <<>> <=> Len(h) = 0
           /\ \A i \in 1 .. Len(h) : h[i] \in Entries
BY LenProperties, EmptySeq, ElementOfSeq DEF Clips, Entries

LEMMA SumBound ==
    ASSUME NEW a \in Nat, NEW b \in Nat, NEW c \in Nat, NEW g \in Nat, NEW h \in Nat,
           a <= b + g, b <= c + h
    PROVE  a <= c + h + g
OBVIOUS

\* A frame of a camera that is being isolated, seen so far as Holds says and kept by the
\* hold, extends the clip, leaves it, or ends it; lost_at moves only when the clip ends.
LEMMA IsolateHolds ==
    ASSUME config \in Configurations, now \in Nat, isolation_now \in 0 .. now,
           NEW k \in CameraRecords, Len(k.history) <= FramesPerClip,
           NEW f \in Frames, f.time <= isolation_now,
           NEW lost \in Nat, NEW lost2, NEW player \in BOOLEAN,
           Holds(k, lost), f.seq >= k.source.seq, f.seq > lost,
           k.history # <<>> => /\ f.seq > k.source.seq
                               /\ k.source.time <= k.last_candidate + DropoutHold,
           \/ lost2 = lost
           \/ /\ lost2 = f.seq
              /\ ~player
              /\ isolation_now > k.last_candidate + DropoutHold
           \/ /\ lost2 = k.source.seq
              /\ f.seq # k.source.seq
              /\ f.time > k.source.time + MaximumGap
    PROVE  LET r == Isolated(k, f, player) IN
           /\ r \in CameraRecords
           /\ Len(r.history) <= FramesPerClip
           /\ r.source = f /\ r.samples = k.samples /\ r.last_frame = k.last_frame
           /\ r.prediction_valid => k.prediction_valid
           /\ r.history # <<>> => r.source.time <= r.last_candidate + DropoutHold
           /\ Holds(r, lost2)
<1> DEFINE kept == Continued(k, f)
           here == [kept EXCEPT !.source = Stamp(f)]
           r == Isolated(k, f, player)
<1>1. Stamp(f) = f /\ FramesPerClip \in Nat \ {0}
  BY ConfigTypes DEF Stamp, Frames
<1>2. /\ k.source \in Frames /\ k.candidate \in Frames /\ k.last_candidate \in Nat
      /\ k.history \in Clips /\ k.valid \in BOOLEAN /\ k.prediction_valid \in BOOLEAN
      /\ k.prediction.first \in Nat
  BY DEF CameraRecords
<1>h. /\ lost <= k.source.seq
      /\ k.prediction_valid =>
            k.valid /\ Len(k.history) = FramesPerClip /\ k.prediction.first > lost
      /\ k.history # <<>> =>
            /\ k.history[Len(k.history)] = [seq |-> k.candidate.seq, time |-> k.candidate.time,
                                            at |-> k.last_candidate]
            /\ k.candidate.seq <= k.source.seq
            /\ k.candidate.time <= k.source.time
            /\ k.candidate.time <= k.last_candidate
      /\ \A i \in 1 .. Len(k.history) : k.history[i].seq > lost
      /\ \A i \in 2 .. Len(k.history) : Follows(k.history[i - 1], k.history[i])
  BY DEF Holds, Newest
<1>3. /\ f.seq \in Nat /\ f.time \in Nat /\ k.source.seq \in Nat /\ k.source.time \in Nat
      /\ k.candidate.seq \in Nat /\ k.candidate.time \in Nat
  BY <1>2 DEF Frames
<1>4. /\ kept \in CameraRecords /\ kept.samples = k.samples /\ kept.last_frame = k.last_frame
      /\ \/ kept = k /\ ~ContinuityLost(k, f)
         \/ /\ ~kept.valid /\ ~kept.prediction_valid /\ kept.history = <<>>
            /\ ContinuityLost(k, f)
  BY LoseInputEffect DEF Continued
<1>5. /\ here \in CameraRecords /\ here.source = f /\ here.samples = k.samples
      /\ here.last_frame = k.last_frame /\ here.valid = kept.valid
      /\ here.candidate = kept.candidate /\ here.last_candidate = kept.last_candidate
      /\ here.history = kept.history /\ here.prediction = kept.prediction
      /\ here.prediction_valid = kept.prediction_valid
  BY <1>1, <1>4 DEF CameraRecords
<1>6. r = IF player THEN FindPlayer(here, f)
          ELSE IF Bridgeable(here) THEN here ELSE LosePlayer(here)
  BY DEF Isolated
<1> HIDE DEF kept, here, r
<1>7. Len(here.history) \in Nat /\ Len(here.history) <= FramesPerClip
  BY <1>1, <1>2, <1>4, <1>5, ClipFacts, EmptySeq
\* The clip goes on only if the frame follows the one before it.
<1>8. here.history # <<>> =>
         /\ kept = k /\ here.history = k.history
         /\ f.seq > k.source.seq /\ f.time > k.source.time
         /\ f.time <= k.source.time + MaximumGap
         /\ k.candidate.seq > lost /\ k.source.seq >= k.candidate.seq
  <2> SUFFICES ASSUME here.history # <<>>
               PROVE  /\ kept = k /\ here.history = k.history
                      /\ f.seq > k.source.seq /\ f.time > k.source.time
                      /\ f.time <= k.source.time + MaximumGap
                      /\ k.candidate.seq > lost /\ k.source.seq >= k.candidate.seq
    OBVIOUS
  <2>1. kept = k /\ ~ContinuityLost(k, f) /\ here.history = k.history
    BY <1>4, <1>5
  <2>2. f.seq > k.source.seq /\ k.history # <<>>
    BY <2>1
  <2>3. /\ Len(k.history) \in 1 .. Len(k.history)
        /\ k.history[Len(k.history)].seq = k.candidate.seq
    BY <1>2, <1>h, <2>2, ClipFacts
  <2>4. k.candidate.seq > lost /\ k.source.seq >= k.candidate.seq
    <3>1. k.history[Len(k.history)].seq > lost
      BY <1>h, <2>3
    <3> QED BY <1>3, <1>h, <2>2, <2>3, <3>1
  <2>5. Contiguous(k.source, f)
    BY <1>3, <2>1, <2>2, <2>4 DEF ContinuityLost
  <2>6. f.time - k.source.time \in 1 .. MaximumGap
    BY <2>5 DEF Contiguous
  <2>7. f.time > k.source.time /\ f.time <= k.source.time + MaximumGap
    <3>1. f.time \in Nat /\ k.source.time \in Nat /\ MaximumGap \in Nat
      BY <1>3, LimitTypes
    <3> QED BY <2>6, <3>1
  <2> QED BY <2>1, <2>2, <2>4, <2>7
\* When lost_at moves, nothing is left of what was there.
<1>9. /\ lost2 \in Nat /\ lost2 <= f.seq
      /\ lost2 # lost => ~Bridgeable(here)
      /\ lost2 # lost /\ player => here.history = <<>> /\ ~here.prediction_valid
                                   /\ f.seq > lost2
  <2>1. CASE lost2 = lost
    BY <1>3, <2>1
  <2>2. CASE /\ lost2 = f.seq
             /\ ~player
             /\ isolation_now > k.last_candidate + DropoutHold
    <3>1. here.last_candidate = k.last_candidate \/ here.history = <<>>
      BY <1>4, <1>5
    <3> QED BY <1>2, <1>3, <2>2, <3>1, LimitTypes DEF Bridgeable
  <2>3. CASE /\ lost2 = k.source.seq
             /\ f.seq # k.source.seq
             /\ f.time > k.source.time + MaximumGap
    <3>1. ContinuityLost(k, f) \/ lost2 = lost
      <4>1. k.source.seq \in Nat /\ k.source.time \in Nat /\ f.time \in Nat
            /\ MaximumGap \in Nat /\ lost <= k.source.seq
        BY <1>3, <1>h, LimitTypes
      <4>2. f.time - k.source.time \notin 1 .. MaximumGap
        BY <2>3, <4>1
      <4>3. k.source.seq = 0 => lost2 = lost
        BY <1>3, <2>3, <4>1
      <4> QED BY <2>3, <4>2, <4>3 DEF ContinuityLost, Contiguous
    <3>2. ContinuityLost(k, f) => here.history = <<>> /\ ~here.prediction_valid
      BY <1>4, <1>5
    <3>3. lost2 \in Nat /\ lost2 <= f.seq /\ f.seq > lost2
      BY <1>3, <2>3
    <3> QED BY <3>1, <3>2, <3>3 DEF Bridgeable
  <2> QED BY <2>1, <2>2, <2>3
<1>10. /\ here.prediction_valid => k.prediction_valid /\ kept = k
       /\ here.prediction_valid => here.prediction.first > lost
                                   /\ Len(here.history) = FramesPerClip
  BY <1>4, <1>5, <1>h
<1>11. /\ f.time <= now /\ now \in Nat /\ DropoutHold \in Nat
       /\ isolation_now \in Nat
  BY <1>3, LimitTypes
<1>12. CASE player
  <2> DEFINE h == here.history
             e == [seq |-> f.seq, time |-> f.time, at |-> now]
             longer == AppendToClip(h, e)
  <2>1. h \in Clips /\ e \in Entries
    BY <1>3, <1>5, <1>11 DEF CameraRecords, Entries
  <2>2. /\ longer \in Clips /\ longer # <<>>
        /\ Len(longer) \in 1 .. FramesPerClip
        /\ Len(h) = FramesPerClip => Len(longer) = FramesPerClip
        /\ Newest(longer) = e
        /\ \E d \in {0, 1} :
              /\ Len(longer) + d = Len(h) + 1
              /\ \A i \in 1 .. Len(longer) - 1 : i + d \in 1 .. Len(h) /\ longer[i] = h[i + d]
    <3> HIDE DEF h, e
    <3> QED BY <1>7, <2>1, ClipAppend DEF h
  <2>3. /\ r \in CameraRecords
        /\ r.source = here.source /\ r.samples = here.samples /\ r.last_frame = here.last_frame
        /\ r.valid /\ r.candidate = f /\ r.last_candidate = now
        /\ r.prediction = here.prediction /\ r.prediction_valid = here.prediction_valid
        /\ r.history = longer
    BY <1>5, <1>6, <1>7, <1>12, FindPlayerEffect
  <2>4. PICK d \in {0, 1} :
              /\ Len(longer) + d = Len(h) + 1
              /\ \A i \in 1 .. Len(longer) - 1 : i + d \in 1 .. Len(h) /\ longer[i] = h[i + d]
    BY <2>2
  <2>5. longer[Len(longer)] = e
    BY <2>2 DEF Newest
  <2> HIDE DEF longer
  <2>6. /\ \A i \in 1 .. Len(h) : h[i] = k.history[i] /\ Len(h) = Len(k.history)
        /\ Len(h) \in Nat
        /\ Len(h) # 0 => h # <<>>
    <3>1. Len(h) # 0 => h # <<>>
      BY EmptySeq
    <3> QED BY <1>7, <1>8, <3>1
  <2>7. lost2 < f.seq /\ (Len(h) # 0 => lost2 = lost)
    BY <1>3, <1>9, <1>12, <2>6
  <2>8. \A i \in 1 .. Len(longer) : longer[i].seq > lost2
    <3> SUFFICES ASSUME NEW i \in 1 .. Len(longer) PROVE longer[i].seq > lost2
      OBVIOUS
    <3>1. CASE i = Len(longer)
      BY <2>5, <2>7, <3>1
    <3>2. CASE i # Len(longer)
      <4>1. i \in 1 .. Len(longer) - 1
        BY <1>1, <2>2, <3>2
      <4>2. i + d \in 1 .. Len(h) /\ longer[i] = h[i + d]
        BY <2>4, <4>1
      <4>3. Len(h) # 0 /\ h[i + d].seq > lost
        BY <1>h, <2>6, <4>2
      <4> QED BY <2>7, <4>2, <4>3
    <3> QED BY <3>1, <3>2
  <2>9. \A i \in 2 .. Len(longer) : Follows(longer[i - 1], longer[i])
    <3> SUFFICES ASSUME NEW i \in 2 .. Len(longer) PROVE Follows(longer[i - 1], longer[i])
      OBVIOUS
    <3>1. /\ i - 1 \in 1 .. Len(longer) - 1 /\ i \in Nat /\ i >= 2
          /\ i <= Len(longer) /\ Len(longer) \in Nat
      BY <1>1, <2>2
    <3>2. (i - 1) + d \in 1 .. Len(h) /\ longer[i - 1] = h[(i - 1) + d]
      BY <2>4, <3>1
    <3>3. h # <<>> /\ Len(h) # 0
      BY <2>6, <3>2
    <3>4. CASE i = Len(longer)
      <4>1. (i - 1) + d = Len(h)
        BY <2>4, <2>6, <3>1, <3>4
      <4>2. /\ kept = k /\ k.history # <<>>
            /\ longer[i - 1] = k.history[Len(k.history)]
        BY <1>8, <2>6, <3>2, <3>3, <4>1
      <4>3. longer[i - 1] = [seq |-> k.candidate.seq, time |-> k.candidate.time,
                             at |-> k.last_candidate]
        BY <1>h, <4>2
      <4>4. longer[i] = e
        BY <2>5, <3>4
      <4>5. /\ f.seq > k.candidate.seq /\ f.time > k.candidate.time
            /\ f.time <= k.last_candidate + DropoutHold + MaximumGap
        <5>1. /\ f.seq > k.source.seq /\ f.time > k.source.time
              /\ f.time <= k.source.time + MaximumGap
          BY <1>8, <3>3
        <5>2. /\ k.candidate.seq <= k.source.seq /\ k.candidate.time <= k.source.time
              /\ k.source.time <= k.last_candidate + DropoutHold
          BY <1>h, <4>2
        <5>3. k.last_candidate \in Nat /\ DropoutHold \in Nat /\ MaximumGap \in Nat
          BY <1>2, LimitTypes
        <5>4. f.seq > k.candidate.seq
          BY <1>3, <5>1, <5>2
        <5>5. f.time > k.candidate.time
          BY <1>3, <5>1, <5>2
        <5>6. f.time <= k.last_candidate + DropoutHold + MaximumGap
          BY <1>3, <5>1, <5>2, <5>3, SumBound
        <5> QED BY <5>4, <5>5, <5>6
      <4> QED BY <4>3, <4>4, <4>5 DEF Follows
    <3>5. CASE i # Len(longer)
      <4>1. i \in 1 .. Len(longer) - 1
        BY <3>1, <3>5
      <4>2. i + d \in 1 .. Len(h) /\ longer[i] = h[i + d]
        BY <2>4, <4>1
      <4>3. i + d \in 2 .. Len(k.history) /\ (i + d) - 1 = (i - 1) + d
        <5>1. Len(h) = Len(k.history) /\ Len(h) \in Nat
          BY <1>7, <2>6, <3>3
        <5>2. i \in Nat /\ i >= 2 /\ d \in {0, 1}
          BY <3>1
        <5> QED BY <4>2, <5>1, <5>2
      <4>4. Follows(k.history[(i + d) - 1], k.history[i + d])
        BY <1>h, <4>3
      <4> QED BY <2>6, <3>2, <4>2, <4>3, <4>4
    <3> QED BY <3>4, <3>5
  <2>10. here.prediction_valid => lost2 = lost
    BY <1>9, <1>12
  <2>11. Newest(longer) = [seq |-> r.candidate.seq, time |-> r.candidate.time,
                           at |-> r.last_candidate]
    BY <2>2, <2>3
  <2>12. Holds(r, lost2)
    BY <1>3, <1>5, <1>10, <1>11, <2>2, <2>3, <2>7, <2>8, <2>9, <2>10, <2>11 DEF Holds
  <2>13. Len(r.history) <= FramesPerClip
    BY <1>1, <2>2, <2>3
  <2>14. r.source.time <= r.last_candidate + DropoutHold
    BY <1>3, <1>5, <1>11, <2>3
  <2> QED BY <1>5, <1>10, <2>3, <2>12, <2>13, <2>14 DEF r
<1>13. CASE ~player /\ Bridgeable(here)
  <2>1. r = here /\ lost2 = lost
    BY <1>6, <1>9, <1>13
  <2>2. here.valid /\ here.history # <<>> /\ isolation_now - here.last_candidate \in 0 .. DropoutHold
    BY <1>13 DEF Bridgeable
  <2>3. here.last_candidate = k.last_candidate /\ kept = k /\ k.last_candidate \in Nat
    BY <1>2, <1>5, <1>8, <2>2
  <2>4. f.time <= here.last_candidate + DropoutHold
    BY <1>3, <1>11, <2>2, <2>3
  <2>5. /\ k.candidate.seq <= f.seq /\ k.candidate.time <= f.time
    <3>1. /\ k.candidate.seq <= k.source.seq /\ k.candidate.time <= k.source.time
          /\ k.source.seq < f.seq /\ k.source.time < f.time
      BY <1>h, <1>8, <2>2
    <3>2. k.candidate.seq <= f.seq
      BY <1>3, <3>1
    <3>3. k.candidate.time <= f.time
      BY <1>3, <3>1
    <3> QED BY <3>2, <3>3
  <2>6. Holds(here, lost)
    BY <1>2, <1>3, <1>5, <1>h, <1>8, <2>2, <2>3, <2>5 DEF Holds, Newest
  <2> QED BY <1>5, <1>7, <1>10, <2>1, <2>4, <2>6 DEF r
<1>14. CASE ~player /\ ~Bridgeable(here)
  <2>1. r = LosePlayer(here)
    BY <1>6, <1>14
  <2>2. /\ r \in CameraRecords /\ r.source = f /\ r.samples = k.samples
        /\ r.last_frame = k.last_frame /\ ~r.prediction_valid /\ r.history = <<>>
    BY <1>5, <2>1, LosePlayerEffect
  <2>3. Holds(r, lost2)
    BY <1>9, <2>2, NothingHolds
  <2>4. Len(r.history) <= FramesPerClip
    BY <1>1, <2>2, EmptySeq
  <2> QED BY <2>2, <2>3, <2>4 DEF r
<1> QED BY <1>12, <1>13, <1>14

-----------------------------------------------------------------------------
(* What a turn computes.                                                   *)

\* The largest of a nonempty set of two cameras' readings is a reading.
LEMMA MaxOfCameras ==
    ASSUME NEW g \in [Cameras -> Nat], NEW S \in SUBSET Cameras, S # {}
    PROVE  /\ Max({g[c] : c \in S}) \in Nat
           /\ \E c \in S : Max({g[d] : d \in S}) = g[c]
<1> DEFINE T == {g[c] : c \in S}
<1>1. g[0] \in Nat /\ g[1] \in Nat
  BY DEF Cameras
<1>2. \E x \in T : \A y \in T : x >= y
  <2>1. S = {0} \/ S = {1} \/ S = {0, 1}
    BY DEF Cameras
  <2>2. T = {g[0]} \/ T = {g[1]} \/ T = {g[0], g[1]}
    BY <2>1
  <2>3. g[0] >= g[0] /\ g[1] >= g[1] /\ (g[0] >= g[1] \/ g[1] >= g[0])
    BY <1>1
  <2> HIDE DEF T
  <2> QED BY <2>2, <2>3
<1>3. Max(T) \in T
  BY <1>2 DEF Max
<1> QED BY <1>3 DEF Cameras

LEMMA PrimaryFacts ==
    /\ Primary \in Cameras /\ Secondary \in Cameras /\ Primary # Secondary
    /\ Cameras = {Primary, Secondary}
    /\ Processing \subseteq Cameras /\ Primary \in Processing
<1>1. Primary \in {0, 1}
  BY LimitTypes DEF Primary
<1>2. Secondary \in {0, 1} /\ Primary # Secondary
  BY <1>1 DEF Secondary
<1> QED BY <1>1, <1>2 DEF Processing, Cameras

\* Which cameras are processed changes only when all have delivered.
LEMMA SameView ==
    ASSUME config' = config, \A c \in Cameras : cam'[c].last_frame = cam[c].last_frame
    PROVE  /\ AllSeen' <=> AllSeen
           /\ Primary' = Primary /\ Secondary' = Secondary /\ Processing' = Processing
<1>1. AllSeen' <=> AllSeen
  BY DEF AllSeen
<1>2. Primary' = Primary
  BY DEF Primary
<1>3. mode' = mode
  BY DEF mode
<1> QED BY <1>1, <1>2, <1>3 DEF Secondary, Processing

LEMMA SameCalibration ==
    ASSUME config' = config, NEW k, \A c \in Cameras : k[c].samples = cam[c].samples
    PROVE  Calibrating(k)' <=> Calibrating(cam)
BY DEF Calibrating, CalibrationFrames

LEMMA SampledEffect ==
    ASSUME TypeOK, NEW c \in Cameras
    PROVE  LET k == Sampled[c] IN
           /\ k \in CameraRecords
           /\ k.samples <= CalibrationFrames
           /\ k.source = IF frames[c] # NoFrame /\ cam[c].samples < CalibrationFrames
                         THEN frames[c] ELSE cam[c].source
           /\ k.last_frame = cam[c].last_frame
           /\ k.valid = cam[c].valid /\ k.history = cam[c].history
           /\ k.prediction_valid = cam[c].prediction_valid
           /\ k.candidate = cam[c].candidate /\ k.last_candidate = cam[c].last_candidate
<1>1. /\ cam[c] \in CameraRecords /\ frames[c] \in Frames /\ CalibrationFrames \in Nat
      /\ cam[c].samples <= CalibrationFrames
  BY ConfigTypes DEF TypeOK
<1>2. Stamp(frames[c]) = frames[c]
  BY <1>1 DEF Stamp, Frames
<1>3. c \in Arrived <=> frames[c] # NoFrame
  BY DEF Arrived
<1>4. CASE frames[c] # NoFrame /\ cam[c].samples < CalibrationFrames
  <2>1. Sampled[c] = [cam[c] EXCEPT !.source = frames[c], !.samples = cam[c].samples + 1]
    BY <1>2, <1>3, <1>4 DEF Sampled
  <2>2. cam[c].samples \in Nat
    BY <1>1 DEF CameraRecords
  <2>3. cam[c].samples + 1 \in Nat /\ cam[c].samples + 1 <= CalibrationFrames
    BY <1>1, <1>4, <2>2
  <2>4. Sampled[c] \in CameraRecords
    BY <1>1, <2>1, <2>3 DEF CameraRecords
  <2> QED BY <1>1, <1>4, <2>1, <2>3, <2>4 DEF CameraRecords
<1>5. CASE ~(frames[c] # NoFrame /\ cam[c].samples < CalibrationFrames)
  <2>1. Sampled[c] = cam[c]
    BY <1>3, <1>5 DEF Sampled
  <2> QED BY <1>1, <1>5, <2>1
<1> QED BY <1>4, <1>5

LEMMA CheckedEffect ==
    ASSUME TypeOK, NEW c \in Cameras
    PROVE  LET k == Checked[c] IN
           /\ k \in CameraRecords
           /\ k.source = cam[c].source /\ k.samples = cam[c].samples
           /\ k.last_frame = cam[c].last_frame
           /\ \/ k = cam[c] /\ (Fresh(c) \/ ~cam[c].valid)
              \/ ~k.valid /\ ~k.prediction_valid /\ k.history = <<>> /\ ~Fresh(c)
<1>1. cam[c] \in CameraRecords
  BY DEF TypeOK
<1>2. Checked[c] = IF ~Fresh(c) /\ cam[c].valid THEN LoseInput(cam[c]) ELSE cam[c]
  BY DEF Checked
<1> QED BY <1>1, <1>2, LoseInputEffect

LEMMA PredictedEffect ==
    ASSUME TypeOK, NEW c \in Cameras, c \in chosen => Len(cam[c].history) = FramesPerClip
    PROVE  LET k == Predicted[c] IN
           /\ k \in CameraRecords
           /\ k.source = cam[c].source /\ k.samples = cam[c].samples
           /\ k.last_frame = cam[c].last_frame
           /\ k.valid = cam[c].valid /\ k.history = cam[c].history
           /\ k.candidate = cam[c].candidate /\ k.last_candidate = cam[c].last_candidate
           /\ \/ k = cam[c] /\ c \notin chosen
              \/ c \in chosen /\ k.prediction.first = cam[c].history[1].seq
<1>1. /\ cam[c] \in CameraRecords /\ FramesPerClip \in Nat \ {0}
  BY ConfigTypes DEF TypeOK
<1>2. CASE c \notin chosen
  BY <1>1, <1>2 DEF Predicted
<1>3. CASE c \in chosen
  <2> DEFINE p == [seq |-> cam[c].source.seq, time |-> cam[c].candidate.time,
                   first |-> Head(cam[c].history).seq]
  <2>1. cam[c].history \in Clips /\ cam[c].source \in Frames /\ cam[c].candidate \in Frames
    BY <1>1 DEF CameraRecords
  <2>2. /\ 1 \in 1 .. Len(cam[c].history) /\ cam[c].history[1] \in Entries
        /\ Head(cam[c].history) = cam[c].history[1]
    BY <1>1, <1>3, <2>1, ClipFacts DEF Clips
  <2>3. p \in [seq : Nat, time : Nat, first : Nat] /\ p.first = cam[c].history[1].seq
    BY <2>1, <2>2 DEF Frames, Entries
  <2>4. Predicted[c] = [cam[c] EXCEPT !.prediction = p, !.prediction_valid = TRUE]
    BY <1>3 DEF Predicted
  <2> HIDE DEF p
  <2> QED BY <1>1, <1>3, <2>3, <2>4 DEF CameraRecords
<1> QED BY <1>2, <1>3

-----------------------------------------------------------------------------
(* The steps of a turn.                                                    *)

IInv == TypeOK /\ LoopInv

\* What TypeOK says of one camera, with the fields spelled out.
LEMMA CameraTypes ==
    ASSUME TypeOK, NEW c \in Cameras
    PROVE  /\ cam[c] \in CameraRecords /\ frames[c] \in Frames /\ slot[c] \in Frames
           /\ cam[c].source \in Frames /\ cam[c].candidate \in Frames
           /\ cam[c].history \in Clips /\ Len(cam[c].history) \in Nat
           /\ cam[c].source.seq \in Nat /\ cam[c].source.time \in Nat
           /\ cam[c].candidate.seq \in Nat /\ cam[c].candidate.time \in Nat
           /\ cam[c].samples \in Nat /\ cam[c].last_frame \in Nat
           /\ cam[c].last_candidate \in Nat
           /\ cam[c].valid \in BOOLEAN /\ cam[c].prediction_valid \in BOOLEAN
           /\ cam[c].prediction.first \in Nat
           /\ slot[c].seq \in Nat /\ slot[c].time \in Nat
           /\ frames[c].seq \in Nat /\ frames[c].time \in Nat
           /\ lost_at[c] \in Nat
           /\ Len(cam[c].history) <= FramesPerClip
           /\ cam[c].samples <= CalibrationFrames
<1>1. /\ cam[c] \in CameraRecords /\ frames[c] \in Frames /\ slot[c] \in Frames
      /\ lost_at[c] \in Nat /\ Len(cam[c].history) <= FramesPerClip
      /\ cam[c].samples <= CalibrationFrames
  BY DEF TypeOK
<1>2. /\ cam[c].source \in Frames /\ cam[c].candidate \in Frames
      /\ cam[c].history \in Clips
      /\ cam[c].samples \in Nat /\ cam[c].last_frame \in Nat
      /\ cam[c].last_candidate \in Nat
      /\ cam[c].valid \in BOOLEAN /\ cam[c].prediction_valid \in BOOLEAN
      /\ cam[c].prediction.first \in Nat
  BY <1>1 DEF CameraRecords
<1>3. Len(cam[c].history) \in Nat
  BY <1>2, ClipFacts
<1> QED BY <1>1, <1>2, <1>3 DEF Frames

LEMMA InitInv ==
    ASSUME Init PROVE IInv
<1>1. /\ now = 1 /\ config \in Configurations /\ slot = [c \in Cameras |-> NoFrame]
      /\ pc = "read" /\ todo = {} /\ frames = [c \in Cameras |-> NoFrame]
      /\ chosen = {} /\ cam = [c \in Cameras |-> FreshCamera]
      /\ lost_at = [c \in Cameras |-> 0] /\ reused = 0
  BY DEF Init, Start
<1>2. FramesPerClip \in Nat \ {0} /\ CalibrationFrames \in Nat
  BY <1>1, ConfigTypes
<1>3. FreshCamera.samples = 0 /\ FreshCamera.source = NoFrame /\ ~FreshCamera.prediction_valid
  BY DEF FreshCamera
<1>4. TypeOK
  <2>1. pose \in [time : Nat \cup {NoTime}, valid : SUBSET Cameras, fused : BOOLEAN,
                  elapsed : Nat \cup {NoTime}]
    BY DEF Init, NoPose, EmptyPose
  <2>2. input_fresh \in [Cameras -> BOOLEAN]
    BY DEF Init
  <2>3. \A c \in Cameras : /\ cam[c].samples <= CalibrationFrames
                           /\ Len(cam[c].history) <= FramesPerClip
    BY <1>1, <1>2, <1>3, CameraFacts
  <2>4. /\ hold_off \in 0 .. MinimumInterval
        /\ output_count \in 0 .. SecondaryEveryN - 1
    BY LimitTypes DEF Init
  <2>5. cam \in [Cameras -> CameraRecords] /\ slot \in [Cameras -> Frames]
        /\ frames \in [Cameras -> Frames] /\ lost_at \in [Cameras -> Nat]
    BY <1>1, CameraFacts
  <2> QED BY <1>1, <2>1, <2>2, <2>3, <2>4, <2>5 DEF TypeOK, Init
<1>5. HoldsInv
  <2> SUFFICES ASSUME NEW c \in Cameras PROVE Holds(cam[c], lost_at[c])
    BY DEF HoldsInv
  <2>1. /\ cam[c] \in CameraRecords /\ lost_at[c] <= cam[c].source.seq
        /\ ~cam[c].prediction_valid /\ cam[c].history = <<>>
    BY <1>1, <1>3, CameraFacts
  <2> QED BY <2>1, NothingHolds
<1>6. FramesInv
  BY <1>1, <1>3, CameraFacts DEF FramesInv, Pending
<1>7. RecentInv
  BY <1>1, CameraFacts DEF RecentInv
<1>8. CalibrationInv
  BY <1>1, <1>3, CameraFacts DEF CalibrationInv
<1>9. TurnInv
  BY <1>1 DEF TurnInv, Start
<1> QED BY <1>1, <1>4, <1>5, <1>6, <1>7, <1>8, <1>9 DEF IInv, LoopInv, ReuseInv

LEMMA TickStep ==
    ASSUME IInv, Tick PROVE IInv'
<1>1. /\ now' = now + 1 /\ config' = config /\ slot' = slot /\ pc' = pc
      /\ todo' = todo /\ frames' = frames /\ isolation_now' = isolation_now
      /\ input_fresh' = input_fresh /\ chosen' = chosen /\ cam' = cam
      /\ output_count' = output_count /\ pose' = pose /\ joints_time' = joints_time
      /\ previous_time' = previous_time /\ lost_at' = lost_at /\ reused' = reused
      /\ hold_off' = IF hold_off > 0 THEN hold_off - 1 ELSE 0
  BY DEF Tick, turnVars
<1>2. TypeOK /\ now \in Nat
  BY DEF IInv, TypeOK
<1>3. TypeOK'
  <2>1. now' \in Nat
    BY <1>1, <1>2
  <2>2. hold_off' \in 0 .. MinimumInterval
    BY <1>1, <1>2, LimitTypes DEF TypeOK
  <2> QED BY <1>1, <1>2, <2>1, <2>2 DEF TypeOK, FramesPerClip, CalibrationFrames
<1>4. /\ AllSeen' <=> AllSeen
      /\ Primary' = Primary /\ Secondary' = Secondary /\ Processing' = Processing
  BY <1>1, SameView
<1>5. HoldsInv'
  BY <1>1 DEF IInv, LoopInv, HoldsInv, Holds, FramesPerClip
<1>6. FramesInv'
  <2> SUFFICES ASSUME NEW c \in Cameras
               PROVE  slot[c].time <= now + 1
    BY <1>1 DEF IInv, LoopInv, FramesInv, Pending
  <2> QED BY <1>2, CameraTypes DEF IInv, LoopInv, FramesInv
<1>7. RecentInv'
  BY <1>1, <1>4 DEF IInv, LoopInv, RecentInv
<1>8. CalibrationInv'
  BY <1>1 DEF IInv, LoopInv, CalibrationInv, Calibrating, CalibrationFrames
<1>9. TurnInv'
  <2>1. now + 1 >= Start /\ (pc = "isolate" => isolation_now \in 0 .. now + 1)
    BY <1>2 DEF IInv, LoopInv, TurnInv, Start
  <2> QED BY <1>1, <1>4, <2>1 DEF IInv, LoopInv, TurnInv, FramesPerClip
<1>10. ReuseInv'
  BY <1>1, <1>4 DEF IInv, LoopInv, ReuseInv
<1> QED BY <1>3, <1>5, <1>6, <1>7, <1>8, <1>9, <1>10 DEF IInv, LoopInv

\* What a read returns is newer than the cursor, and never older than the last look.
LEMMA ReadIsNewer ==
    ASSUME IInv, NEW c \in Cameras, NEW f \in Readable(c), f # NoFrame
    PROVE  /\ f \in Frames /\ f.seq > cam[c].source.seq /\ f.seq > 0 /\ f.time <= now
           /\ f.seq >= slot[c].seq /\ f.time >= slot[c].time
<1>1. TypeOK /\ now \in Nat
  BY DEF IInv, TypeOK
<1>2. /\ slot[c] \in Frames /\ slot[c].seq \in Nat /\ slot[c].time \in Nat
      /\ cam[c].source.seq \in Nat
      /\ cam[c].source.seq <= slot[c].seq /\ slot[c].time <= now
  BY <1>1, CameraTypes DEF IInv, LoopInv, FramesInv
<1>3. CASE f \in Newer(c)
  <2>1. /\ f \in [seq : slot[c].seq + 1 .. slot[c].seq + 1 + MaxSkip,
                  time : now - MaxLatency[config] .. now]
        /\ f.time > slot[c].time
    BY <1>3 DEF Newer
  <2>2. MaxSkip \in Nat /\ MaxLatency[config] \in Nat
    BY <1>1, WorkerAssumption DEF TypeOK
  <2>3. f.seq \in slot[c].seq + 1 .. slot[c].seq + 1 + MaxSkip
        /\ f.time \in now - MaxLatency[config] .. now
    BY <2>1
  <2>4. f.seq \in Nat /\ f.time \in Nat /\ f.seq > slot[c].seq /\ f.time <= now
    BY <1>1, <1>2, <2>1, <2>2, <2>3
  <2>5. f \in Frames
    BY <2>1, <2>4 DEF Frames
  <2> QED BY <1>2, <2>1, <2>4, <2>5
<1>4. CASE f = slot[c] /\ slot[c].seq > cam[c].source.seq
  BY <1>2, <1>4
<1> QED BY <1>3, <1>4 DEF Readable

\* The cameras keep everything but the time of the last frame.
LEMMA ReadEffect ==
    ASSUME IInv, Read, NEW c \in Cameras
    PROVE  LET k == cam'[c] IN
           /\ k \in CameraRecords
           /\ k.source = cam[c].source /\ k.samples = cam[c].samples
           /\ k.candidate = cam[c].candidate
           /\ k.last_candidate = cam[c].last_candidate
           /\ k.valid = cam[c].valid /\ k.history = cam[c].history
           /\ k.prediction = cam[c].prediction
           /\ k.prediction_valid = cam[c].prediction_valid
           /\ k.last_frame = IF frames'[c] = NoFrame THEN cam[c].last_frame ELSE now
<1>1. cam[c] \in CameraRecords /\ now \in Nat
  BY CameraTypes DEF IInv, TypeOK
<1>2. cam' = [d \in Cameras |-> IF frames'[d] = NoFrame THEN cam[d]
                                ELSE [cam[d] EXCEPT !.last_frame = now]]
  BY DEF Read
<1>3. CASE frames'[c] = NoFrame
  BY <1>1, <1>2, <1>3
<1>4. CASE frames'[c] # NoFrame
  <2>1. cam'[c] = [cam[c] EXCEPT !.last_frame = now]
    BY <1>2, <1>4
  <2> QED BY <1>1, <1>4, <2>1 DEF CameraRecords
<1> QED BY <1>3, <1>4

LEMMA ReadStep ==
    ASSUME IInv, Read PROVE IInv'
<1>1. /\ pc = "read" /\ now' = now /\ config' = config /\ todo' = todo
      /\ isolation_now' = isolation_now /\ input_fresh' = input_fresh /\ chosen' = chosen
      /\ hold_off' = hold_off /\ output_count' = output_count /\ joints_time' = joints_time
      /\ previous_time' = previous_time /\ lost_at' = lost_at /\ reused' = reused
      /\ slot' = [c \in Cameras |-> IF frames'[c] = NoFrame THEN slot[c] ELSE frames'[c]]
      /\ cam' = [c \in Cameras |-> IF frames'[c] = NoFrame THEN cam[c]
                                   ELSE [cam[c] EXCEPT !.last_frame = now]]
      /\ pc' \in {"failed", "calibrate", "sort"}
      /\ pc' = "calibrate" => Calibrating(cam)
      /\ pc' = "sort" => ~Calibrating(cam)
      /\ pose' = NoPose
  BY DEF Read
<1>2. /\ frames' \in [Cameras -> UNION {Readable(c) : c \in Cameras}]
      /\ \A c \in Cameras : frames'[c] \in Readable(c)
  <2>1. PICK f \in Readable(0), g \in Readable(1) :
           frames' = [c \in Cameras |-> IF c = 0 THEN f ELSE g]
    BY DEF Read
  <2> QED BY <2>1 DEF Cameras
<1>3. TypeOK /\ now \in Nat /\ now >= 1 /\ now # 0
  BY DEF IInv, LoopInv, TurnInv, TypeOK, Start
\* The frames, and the last frame looked at.
<1>4. \A c \in Cameras :
         /\ frames'[c] \in Frames /\ slot'[c] \in Frames
         /\ frames'[c] # NoFrame =>
               /\ slot'[c] = frames'[c] /\ frames'[c].seq > 0
               /\ frames'[c].seq > cam[c].source.seq
         /\ slot'[c].seq >= slot[c].seq /\ slot'[c].time >= slot[c].time
         /\ slot'[c].time <= now
  <2> SUFFICES ASSUME NEW c \in Cameras
               PROVE  /\ frames'[c] \in Frames /\ slot'[c] \in Frames
                      /\ frames'[c] # NoFrame =>
                            /\ slot'[c] = frames'[c] /\ frames'[c].seq > 0
                            /\ frames'[c].seq > cam[c].source.seq
                      /\ slot'[c].seq >= slot[c].seq /\ slot'[c].time >= slot[c].time
                      /\ slot'[c].time <= now
    OBVIOUS
  <2>1. /\ slot[c] \in Frames /\ slot[c].seq \in Nat /\ slot[c].time \in Nat
        /\ slot[c].time <= now
    BY <1>3, CameraTypes DEF IInv, LoopInv, FramesInv
  <2>2. CASE frames'[c] = NoFrame
    <3>1. slot'[c] = slot[c]
      BY <1>1, <2>2
    <3> QED BY <2>1, <2>2, <3>1, CameraFacts
  <2>3. CASE frames'[c] # NoFrame
    <3>1. slot'[c] = frames'[c] /\ frames'[c] \in Readable(c)
      BY <1>1, <1>2, <2>3
    <3>2. /\ frames'[c] \in Frames /\ frames'[c].seq > cam[c].source.seq
          /\ frames'[c].seq > 0 /\ frames'[c].time <= now
          /\ frames'[c].seq >= slot[c].seq /\ frames'[c].time >= slot[c].time
      BY <2>3, <3>1, ReadIsNewer
    <3> QED BY <3>1, <3>2
  <2> QED BY <2>2, <2>3
<1>5. \A c \in Cameras :
         /\ cam'[c] \in CameraRecords
         /\ cam'[c].source = cam[c].source /\ cam'[c].samples = cam[c].samples
         /\ cam'[c].candidate = cam[c].candidate
         /\ cam'[c].last_candidate = cam[c].last_candidate
         /\ cam'[c].valid = cam[c].valid /\ cam'[c].history = cam[c].history
         /\ cam'[c].prediction = cam[c].prediction
         /\ cam'[c].prediction_valid = cam[c].prediction_valid
         /\ cam[c].last_frame # 0 => cam'[c].last_frame # 0
  BY <1>3, ReadEffect
<1>6. TypeOK'
  <2>1. /\ cam' \in [Cameras -> CameraRecords] /\ slot' \in [Cameras -> Frames]
        /\ frames' \in [Cameras -> Frames]
    BY <1>1, <1>2, <1>4, <1>5
  <2>2. pose' \in [time : Nat \cup {NoTime}, valid : SUBSET Cameras, fused : BOOLEAN,
                   elapsed : Nat \cup {NoTime}]
    BY <1>1 DEF NoPose, EmptyPose
  <2> QED BY <1>1, <1>3, <1>5, <2>1, <2>2 DEF TypeOK, FramesPerClip, CalibrationFrames
<1>7. Calibrating(cam)' <=> Calibrating(cam)
  BY <1>1, <1>5 DEF Calibrating, CalibrationFrames
<1>8. HoldsInv'
  BY <1>1, <1>5 DEF IInv, LoopInv, HoldsInv, Holds, FramesPerClip
<1>9. FramesInv'
  <2> SUFFICES ASSUME NEW c \in Cameras
               PROVE  /\ cam'[c].source.seq <= slot'[c].seq
                      /\ cam'[c].source.time <= slot'[c].time
                      /\ slot'[c].time <= now
                      /\ frames'[c] # NoFrame => frames'[c] = slot'[c] /\ frames'[c].seq > 0
                      /\ frames'[c] # NoFrame =>
                            /\ frames'[c].seq > cam'[c].source.seq
                            /\ frames'[c].seq > lost_at[c]
    BY <1>1, <1>5, <1>4, CameraTypes, <1>3 DEF FramesInv, Pending
  <2>1. /\ cam[c].source.seq \in Nat /\ cam[c].source.time \in Nat
        /\ slot[c].seq \in Nat /\ slot[c].time \in Nat /\ lost_at[c] \in Nat
        /\ cam[c].source.seq <= slot[c].seq /\ cam[c].source.time <= slot[c].time
        /\ lost_at[c] <= cam[c].source.seq
    BY <1>3, CameraTypes DEF IInv, LoopInv, FramesInv, HoldsInv, Holds
  <2>2. /\ slot'[c].seq \in Nat /\ slot'[c].time \in Nat /\ frames'[c].seq \in Nat
    BY <1>4 DEF Frames
  <2> QED BY <1>4, <1>5, <2>1, <2>2
<1>10. RecentInv'
  <2> SUFFICES ASSUME NEW c \in Cameras, cam'[c].history # <<>>
               PROVE  IF c \in Processing'
                      THEN cam'[c].source.time <= cam'[c].last_candidate + DropoutHold
                      ELSE AllSeen'
    BY DEF RecentInv
  <2>1. IF c \in Processing THEN cam[c].source.time <= cam[c].last_candidate + DropoutHold
                            ELSE AllSeen
    BY <1>5 DEF IInv, LoopInv, RecentInv
  <2>2. CASE Processing' = Processing
    BY <1>5, <2>1, <2>2 DEF AllSeen
  <2>3. CASE Processing' # Processing
    <3>1. Primary' # Primary
      BY <1>1, <2>3 DEF Processing, mode
    <3>2. ~AllSeen /\ AllSeen'
      BY <1>5, <3>1 DEF Primary, AllSeen
    <3> QED BY <1>5, <2>1, <3>2
  <2> QED BY <2>2, <2>3
<1>11. CalibrationInv'
  BY <1>1, <1>5, <1>7 DEF IInv, LoopInv, CalibrationInv
<1>12. TurnInv'
  BY <1>1 DEF IInv, LoopInv, TurnInv
<1>13. ReuseInv'
  <2>1. AllSeen => AllSeen' /\ Secondary' = Secondary
    BY <1>5 DEF AllSeen, Secondary, Primary
  <2> QED BY <1>1, <1>5, <2>1, PrimaryFacts DEF IInv, LoopInv, ReuseInv
<1> QED BY <1>6, <1>8, <1>9, <1>10, <1>11, <1>12, <1>13 DEF IInv, LoopInv

\* A turn of the calibration, whether it ends, fails or goes on.
LEMMA CalibrationStep ==
    ASSUME IInv, pc = "calibrate", cam' = Sampled,
           now' = now, config' = config, slot' = slot, previous_time' = previous_time,
           lost_at' = lost_at, reused' = reused,
           hold_off' \in 0 .. MinimumInterval,
           output_count' \in 0 .. SecondaryEveryN - 1,
           pose' \in [time : Nat \cup {NoTime}, valid : SUBSET Cameras, fused : BOOLEAN,
                      elapsed : Nat \cup {NoTime}],
           joints_time' = joints_time,
           \/ /\ ~Calibrating(Sampled) /\ pc' = "sort"
              /\ UNCHANGED turnVars
           \/ Calibrating(Sampled) /\ pc' = "failed" /\ UNCHANGED turnVars
           \/ Calibrating(Sampled) /\ EndTurn
    PROVE  IInv'
<1>1. TypeOK /\ now \in Nat
  BY DEF IInv, TypeOK
<1>2. /\ Calibrating(cam) /\ reused = 0
      /\ \A c \in Cameras : /\ lost_at[c] = 0 /\ cam[c].history = <<>>
                            /\ ~cam[c].prediction_valid
  BY DEF IInv, LoopInv, CalibrationInv
<1>3. \A c \in Cameras :
         /\ cam'[c] \in CameraRecords
         /\ cam'[c].samples <= CalibrationFrames
         /\ cam'[c].source \in {frames[c], cam[c].source}
         /\ cam'[c].source = frames[c] => frames[c] # NoFrame \/ frames[c] = cam[c].source
         /\ cam'[c].last_frame = cam[c].last_frame
         /\ cam'[c].history = <<>> /\ ~cam'[c].prediction_valid
  <2> SUFFICES ASSUME NEW c \in Cameras
               PROVE  LET k == cam'[c] IN
                      /\ k \in CameraRecords
                      /\ k.samples <= CalibrationFrames
                      /\ k.source \in {frames[c], cam[c].source}
                      /\ k.source = frames[c] => frames[c] # NoFrame \/ frames[c] = cam[c].source
                      /\ k.last_frame = cam[c].last_frame
                      /\ k.history = <<>> /\ ~k.prediction_valid
    OBVIOUS
  <2> QED BY <1>1, <1>2, SampledEffect
<1>4. /\ frames' \in [Cameras -> Frames] /\ input_fresh' \in [Cameras -> BOOLEAN]
      /\ todo' \subseteq Cameras /\ chosen' \subseteq Cameras
      /\ isolation_now' \in Nat \cup {NoTime}
      /\ pc' \in {"sort", "failed", "read"}
      /\ pc' # "read" => frames' = frames
      /\ pc' = "read" => \A c \in Cameras : frames'[c] = NoFrame
  <2>1. CASE UNCHANGED turnVars /\ pc' \in {"sort", "failed"}
    BY <1>1, <2>1 DEF turnVars, TypeOK
  <2>2. CASE EndTurn
    BY <2>2, CameraFacts DEF EndTurn
  <2> QED BY <2>1, <2>2
<1>s. IF pc' = "sort" THEN ~Calibrating(Sampled) ELSE Calibrating(Sampled)
  <2>1. EndTurn => pc' = "read"
    BY DEF EndTurn
  <2> QED BY <2>1
<1>5. TypeOK'
  <2>1. cam' \in [Cameras -> CameraRecords]
    BY <1>3 DEF Sampled
  <2>2. \A c \in Cameras : Len(cam'[c].history) <= FramesPerClip
    BY <1>1, <1>3, ConfigTypes, EmptySeq DEF TypeOK
  <2> QED BY <1>1, <1>3, <1>4, <2>1, <2>2 DEF TypeOK, FramesPerClip, CalibrationFrames
<1>6. Calibrating(cam)' <=> Calibrating(Sampled)
  BY DEF Calibrating, CalibrationFrames
<1>7. HoldsInv'
  <2> SUFFICES ASSUME NEW c \in Cameras PROVE Holds(cam[c], lost_at[c])'
    BY DEF HoldsInv
  <2>1. cam'[c].source \in Frames
    BY <1>1, <1>3, CameraTypes
  <2> QED BY <1>2, <1>3, <2>1 DEF Holds, Frames
<1>8. FramesInv'
  <2> SUFFICES ASSUME NEW c \in Cameras
               PROVE  /\ cam'[c].source.seq <= slot[c].seq
                      /\ cam'[c].source.time <= slot[c].time
                      /\ slot[c].time <= now
                      /\ pc' # "read" /\ frames[c] # NoFrame =>
                            /\ frames[c] = slot[c]
                            /\ frames[c].seq > 0 /\ frames[c].seq >= cam'[c].source.seq
    BY <1>1, <1>2, <1>3, <1>4 DEF FramesInv, Pending
  <2>1. /\ frames[c] # NoFrame =>
              frames[c] = slot[c] /\ frames[c].seq > 0 /\ frames[c].seq >= cam[c].source.seq
        /\ cam[c].source.seq <= slot[c].seq /\ cam[c].source.time <= slot[c].time
        /\ slot[c].time <= now
    BY DEF IInv, LoopInv, FramesInv, Pending
  <2>2. CASE cam'[c].source = cam[c].source
    BY <2>1, <2>2
  <2>3. CASE cam'[c].source = frames[c] /\ frames[c] # NoFrame
    BY <1>1, <2>1, <2>3, CameraTypes
  <2> QED BY <1>3, <2>2, <2>3
<1>9. RecentInv'
  BY <1>3 DEF RecentInv
<1>10. CalibrationInv'
  BY <1>2, <1>3, <1>4, <1>6, <1>s DEF CalibrationInv
<1>11. TurnInv'
  BY <1>4 DEF IInv, LoopInv, TurnInv
<1>12. ReuseInv'
  BY <1>2 DEF ReuseInv
<1> QED BY <1>5, <1>7, <1>8, <1>9, <1>10, <1>11, <1>12 DEF IInv, LoopInv

\* The typing of an empty pose, and of what publishing it leaves.
LEMMA PublishEmptyTypes ==
    ASSUME TypeOK, NEW g \in [Cameras -> Nat], NEW S \in SUBSET Cameras, S # {},
           \/ PublishEmpty(Max({g[c] : c \in S}))
           \/ UNCHANGED outVars
    PROVE  /\ hold_off' \in 0 .. MinimumInterval
           /\ output_count' \in 0 .. SecondaryEveryN - 1
           /\ pose' \in [time : Nat \cup {NoTime}, valid : SUBSET Cameras, fused : BOOLEAN,
                         elapsed : Nat \cup {NoTime}]
           /\ joints_time' = joints_time
<1>1. CASE UNCHANGED outVars
  BY <1>1 DEF outVars, TypeOK
<1>2. CASE PublishEmpty(Max({g[c] : c \in S}))
  <2>1. Max({g[c] : c \in S}) \in Nat
    BY MaxOfCameras
  <2>2. output_count' \in 0 .. SecondaryEveryN - 1
    BY <1>2, LimitTypes DEF PublishEmpty, TypeOK
  <2> QED BY <1>2, <2>1, <2>2, LimitTypes DEF PublishEmpty, EmptyPose
<1> QED BY <1>1, <1>2

LEMMA CalibrationSteps ==
    ASSUME IInv, CalibrationEnds \/ CalibrationStalls \/ CalibrationGoesOn
    PROVE  IInv'
<1>1. TypeOK
  BY DEF IInv
<1>2. UNCHANGED outVars => /\ hold_off' \in 0 .. MinimumInterval
                           /\ output_count' \in 0 .. SecondaryEveryN - 1
                           /\ pose' \in [time : Nat \cup {NoTime}, valid : SUBSET Cameras,
                                         fused : BOOLEAN, elapsed : Nat \cup {NoTime}]
                           /\ joints_time' = joints_time
  BY <1>1 DEF outVars, TypeOK
<1>3. CASE CalibrationEnds
  BY <1>2, <1>3, CalibrationStep DEF CalibrationEnds
<1>4. CASE CalibrationStalls
  BY <1>2, <1>4, CalibrationStep DEF CalibrationStalls
<1>5. CASE CalibrationGoesOn
  <2> DEFINE g == [c \in Cameras |-> Sampled[c].source.time]
  <2>1. g \in [Cameras -> Nat]
    <3> SUFFICES ASSUME NEW c \in Cameras PROVE Sampled[c].source.time \in Nat
      OBVIOUS
    <3> QED BY <1>1, SampledEffect, CameraTypes DEF Frames
  <2>2. {Sampled[c].source.time : c \in Cameras} = {g[c] : c \in Cameras}
    OBVIOUS
  <2>3. PublishEmpty(Max({g[c] : c \in Cameras})) \/ UNCHANGED outVars
    BY <1>5, <2>2 DEF CalibrationGoesOn
  <2> HIDE DEF g
  <2>4. /\ hold_off' \in 0 .. MinimumInterval
        /\ output_count' \in 0 .. SecondaryEveryN - 1
        /\ pose' \in [time : Nat \cup {NoTime}, valid : SUBSET Cameras,
                      fused : BOOLEAN, elapsed : Nat \cup {NoTime}]
        /\ joints_time' = joints_time
    BY <1>1, <2>1, <2>3, PublishEmptyTypes, CameraFacts
  <2> QED BY <1>5, <2>4, CalibrationStep DEF CalibrationGoesOn
<1> QED BY <1>3, <1>4, <1>5

LEMMA SortStep ==
    ASSUME IInv, Sort PROVE IInv'
<1>1. /\ pc = "sort" /\ pc' = "isolate" /\ isolation_now' = now
      /\ todo' = Arrived \cap Processing /\ now' = now /\ config' = config /\ slot' = slot
      /\ frames' = frames /\ input_fresh' = input_fresh /\ chosen' = chosen
      /\ hold_off' = hold_off /\ output_count' = output_count /\ pose' = pose
      /\ joints_time' = joints_time /\ previous_time' = previous_time
      /\ lost_at' = lost_at /\ reused' = reused
  BY DEF Sort, outVars
<1>2. TypeOK /\ now \in Nat
  BY DEF IInv, TypeOK
<1>3. \A c \in Cameras :
         /\ cam'[c] \in CameraRecords
         /\ cam'[c].samples = cam[c].samples /\ cam'[c].last_frame = cam[c].last_frame
         /\ cam'[c].candidate = cam[c].candidate
         /\ cam'[c].last_candidate = cam[c].last_candidate
         /\ cam'[c].valid = cam[c].valid /\ cam'[c].history = cam[c].history
         /\ cam'[c].prediction = cam[c].prediction
         /\ cam'[c].prediction_valid = cam[c].prediction_valid
         /\ IF c \in Arrived \ Processing THEN cam'[c].source = frames[c]
                                          ELSE cam'[c].source = cam[c].source
  <2> SUFFICES ASSUME NEW c \in Cameras
               PROVE  LET k == cam'[c] IN
                      /\ k \in CameraRecords
                      /\ k.samples = cam[c].samples /\ k.last_frame = cam[c].last_frame
                      /\ k.candidate = cam[c].candidate
                      /\ k.last_candidate = cam[c].last_candidate
                      /\ k.valid = cam[c].valid /\ k.history = cam[c].history
                      /\ k.prediction = cam[c].prediction
                      /\ k.prediction_valid = cam[c].prediction_valid
                      /\ IF c \in Arrived \ Processing THEN k.source = frames[c]
                                                       ELSE k.source = cam[c].source
    OBVIOUS
  <2>1. cam[c] \in CameraRecords /\ Stamp(frames[c]) = frames[c] /\ frames[c] \in Frames
    BY <1>2, CameraTypes DEF Stamp, Frames
  <2>2. CASE c \in Arrived \ Processing
    <3>1. cam'[c] = [cam[c] EXCEPT !.source = frames[c]]
      BY <2>1, <2>2 DEF Sort
    <3> QED BY <2>1, <2>2, <3>1 DEF CameraRecords
  <2>3. CASE c \notin Arrived \ Processing
    <3>1. cam'[c] = cam[c]
      BY <2>3 DEF Sort
    <3> QED BY <2>1, <2>3, <3>1
  <2> QED BY <2>2, <2>3
\* A frame that has arrived is the newest of its camera, and newer than the clip.
<1>4. \A c \in Arrived :
         /\ c \in Cameras /\ frames[c] = slot[c] /\ frames[c].seq > lost_at[c]
         /\ frames[c].seq >= cam[c].source.seq /\ frames[c].time >= cam[c].source.time
         /\ frames[c].time <= now
         /\ cam[c].history # <<>> => frames[c].seq > cam[c].source.seq
  BY <1>1 DEF IInv, LoopInv, FramesInv, Pending, Arrived
<1>5. /\ AllSeen' <=> AllSeen
      /\ Primary' = Primary /\ Secondary' = Secondary /\ Processing' = Processing
  BY <1>1, <1>3, SameView
<1>6. Calibrating(cam)' <=> Calibrating(cam)
  BY <1>1, <1>3 DEF Calibrating, CalibrationFrames
<1>7. TypeOK'
  <2>1. cam' \in [Cameras -> CameraRecords]
    BY <1>3 DEF Sort
  <2>2. todo' \subseteq Cameras
    BY <1>1 DEF Arrived
  <2> QED BY <1>1, <1>2, <1>3, <2>1, <2>2 DEF TypeOK, FramesPerClip, CalibrationFrames
<1>8. HoldsInv'
  <2> SUFFICES ASSUME NEW c \in Cameras PROVE Holds(cam[c], lost_at[c])'
    BY <1>1 DEF HoldsInv
  <2>1. Holds(cam[c], lost_at[c])
    BY DEF IInv, LoopInv, HoldsInv
  <2>2. CASE c \in Arrived \ Processing
    <3>1. /\ lost_at[c] <= cam'[c].source.seq
          /\ cam[c].candidate.seq <= cam[c].source.seq =>
                cam'[c].candidate.seq <= cam'[c].source.seq
          /\ cam[c].candidate.time <= cam[c].source.time =>
                cam'[c].candidate.time <= cam'[c].source.time
      <4>1. /\ cam'[c].source = frames[c] /\ cam'[c].candidate = cam[c].candidate
            /\ frames[c].seq > lost_at[c] /\ frames[c].seq >= cam[c].source.seq
            /\ frames[c].time >= cam[c].source.time
        BY <1>3, <1>4, <2>2
      <4>2. /\ lost_at[c] \in Nat /\ frames[c].seq \in Nat /\ frames[c].time \in Nat
            /\ cam[c].source.seq \in Nat /\ cam[c].source.time \in Nat
            /\ cam[c].candidate.seq \in Nat /\ cam[c].candidate.time \in Nat
        BY <1>2, CameraTypes
      <4> QED BY <4>1, <4>2
    <3> QED BY <1>1, <1>3, <2>1, <3>1 DEF Holds, FramesPerClip
  <2>3. CASE c \notin Arrived \ Processing
    BY <1>1, <1>3, <2>1, <2>3 DEF Holds, FramesPerClip
  <2> QED BY <2>2, <2>3
<1>9. FramesInv'
  <2> SUFFICES ASSUME NEW c \in Cameras
               PROVE  /\ cam'[c].source.seq <= slot[c].seq
                      /\ cam'[c].source.time <= slot[c].time
                      /\ c \in Arrived \cap Processing =>
                            /\ frames[c].seq >= cam'[c].source.seq
                            /\ frames[c].seq > lost_at[c]
                            /\ cam[c].history # <<>> => frames[c].seq > cam'[c].source.seq
    BY <1>1, <1>3 DEF IInv, LoopInv, FramesInv, Pending
  <2>1. /\ cam[c].source.seq <= slot[c].seq /\ cam[c].source.time <= slot[c].time
    BY DEF IInv, LoopInv, FramesInv
  <2>2. CASE c \in Arrived \ Processing
    BY <1>2, <1>3, <1>4, <2>2, CameraTypes
  <2>3. CASE c \notin Arrived \ Processing
    BY <1>3, <1>4, <2>1, <2>3
  <2> QED BY <2>2, <2>3
<1>10. RecentInv'
  BY <1>3, <1>5 DEF IInv, LoopInv, RecentInv
<1>11. CalibrationInv'
  BY <1>1, <1>3, <1>6 DEF IInv, LoopInv, CalibrationInv
<1>12. TurnInv'
  <2>1. isolation_now' \in 0 .. now'
    BY <1>1, <1>2
  <2>2. \A c \in todo' : frames[c] # NoFrame /\ frames[c].time <= now
    BY <1>1, <1>4 DEF Arrived
  <2> QED BY <1>1, <1>5, <2>1, <2>2 DEF IInv, LoopInv, TurnInv
<1>13. ReuseInv'
  BY <1>1, <1>3, <1>5, PrimaryFacts DEF IInv, LoopInv, ReuseInv
<1> QED BY <1>7, <1>8, <1>9, <1>10, <1>11, <1>12, <1>13 DEF IInv, LoopInv

LEMMA TurnFacts ==
    ASSUME todo \subseteq Cameras, todo # {} PROVE Turn(todo) \in todo
<1>1. todo = {0} \/ todo = {1} \/ todo = {0, 1}
  BY DEF Cameras
<1>2. \E c \in todo : \A d \in todo : c <= d
  BY <1>1
<1> QED BY <1>2 DEF Turn

LEMMA IsolateStep ==
    ASSUME IInv, Isolate PROVE IInv'
<1> DEFINE c == Turn(todo)
           f == frames[c]
<1>1. PICK player \in BOOLEAN :
         /\ todo' = todo \ {c}
         /\ cam' = [cam EXCEPT ![c] = Isolated(cam[c], f, player)]
         /\ lost_at' = [lost_at EXCEPT ![c] =
               CASE ~player /\ isolation_now > cam[c].last_candidate + DropoutHold -> f.seq
                 [] f.seq # cam[c].source.seq /\ f.time > cam[c].source.time + MaximumGap
                       -> cam[c].source.seq
                 [] OTHER -> lost_at[c]]
         /\ previous_time' = cam[c].source.time
  BY DEF Isolate
<1>2. /\ pc = "isolate" /\ pc' = "isolate" /\ todo # {}
      /\ now' = now /\ config' = config /\ slot' = slot /\ frames' = frames
      /\ isolation_now' = isolation_now /\ input_fresh' = input_fresh /\ chosen' = chosen
      /\ hold_off' = hold_off /\ output_count' = output_count /\ pose' = pose
      /\ joints_time' = joints_time /\ reused' = reused
  BY DEF Isolate, outVars
<1>3. TypeOK /\ now \in Nat /\ todo \subseteq Cameras /\ config \in Configurations
  BY DEF IInv, TypeOK
<1>4. c \in todo /\ c \in Cameras
  BY <1>2, <1>3, TurnFacts
<1> HIDE DEF c
<1>5. /\ isolation_now \in 0 .. now /\ c \in Processing
      /\ f # NoFrame /\ f.time <= isolation_now
  BY <1>2, <1>4 DEF IInv, LoopInv, TurnInv
<1>6. /\ f = slot[c] /\ f.seq >= cam[c].source.seq /\ f.seq > lost_at[c]
      /\ cam[c].history # <<>> => f.seq > cam[c].source.seq
  BY <1>2, <1>4, <1>5 DEF IInv, LoopInv, FramesInv, Pending
<1>7. cam[c].history # <<>> => cam[c].source.time <= cam[c].last_candidate + DropoutHold
  BY <1>4, <1>5 DEF IInv, LoopInv, RecentInv
<1>8. \/ lost_at'[c] = lost_at[c]
      \/ /\ lost_at'[c] = f.seq
         /\ ~player
         /\ isolation_now > cam[c].last_candidate + DropoutHold
      \/ /\ lost_at'[c] = cam[c].source.seq
         /\ f.seq # cam[c].source.seq
         /\ f.time > cam[c].source.time + MaximumGap
  BY <1>1, <1>3, <1>4 DEF TypeOK
<1>9. cam'[c] = Isolated(cam[c], f, player)
  BY <1>1, <1>3, <1>4 DEF TypeOK
<1>10. /\ cam'[c] \in CameraRecords
       /\ Len(cam'[c].history) <= FramesPerClip
       /\ cam'[c].source = f /\ cam'[c].samples = cam[c].samples
       /\ cam'[c].last_frame = cam[c].last_frame
       /\ cam'[c].prediction_valid => cam[c].prediction_valid
       /\ cam'[c].history # <<>> => cam'[c].source.time <= cam'[c].last_candidate + DropoutHold
       /\ Holds(cam'[c], lost_at'[c])
  <2>1. /\ cam[c] \in CameraRecords /\ Len(cam[c].history) <= FramesPerClip
        /\ f \in Frames /\ lost_at[c] \in Nat
    BY <1>3, <1>4, CameraTypes
  <2>2. Holds(cam[c], lost_at[c])
    BY <1>4 DEF IInv, LoopInv, HoldsInv
  <2> HIDE DEF f
  <2> DEFINE k == cam[c]
             lost2 == lost_at'[c]
  <2> SUFFICES LET r == Isolated(k, f, player) IN
                 /\ r \in CameraRecords
                 /\ Len(r.history) <= FramesPerClip
                 /\ r.source = f /\ r.samples = k.samples /\ r.last_frame = k.last_frame
                 /\ r.prediction_valid => k.prediction_valid
                 /\ r.history # <<>> => r.source.time <= r.last_candidate + DropoutHold
                 /\ Holds(r, lost2)
    BY <1>9
  <2> HIDE DEF lost2
  <2>3. \/ lost2 = lost_at[c]
        \/ /\ lost2 = f.seq
           /\ ~player
           /\ isolation_now > k.last_candidate + DropoutHold
        \/ /\ lost2 = k.source.seq
           /\ f.seq # k.source.seq
           /\ f.time > k.source.time + MaximumGap
    BY <1>8 DEF lost2
  <2>4. k.history # <<>> => /\ f.seq > k.source.seq
                            /\ k.source.time <= k.last_candidate + DropoutHold
    BY <1>6, <1>7
  <2>5. f.seq >= k.source.seq /\ f.seq > lost_at[c] /\ f.time <= isolation_now
    BY <1>5, <1>6
  <2> HIDE DEF k
  <2>6. k \in CameraRecords /\ Len(k.history) <= FramesPerClip /\ Holds(k, lost_at[c])
    BY <2>1, <2>2 DEF k
  <2>7. f \in Frames /\ lost_at[c] \in Nat /\ now \in Nat /\ isolation_now \in 0 .. now
        /\ config \in Configurations
    BY <1>3, <1>5, <2>1
  <2> QED BY <2>3, <2>4, <2>5, <2>6, <2>7, IsolateHolds
<1>11. \A d \in Cameras : d # c => cam'[d] = cam[d] /\ lost_at'[d] = lost_at[d]
  BY <1>1, <1>3, <1>4 DEF TypeOK
<1>12. \A d \in Cameras : /\ cam'[d] \in CameraRecords
                          /\ cam'[d].samples = cam[d].samples
                          /\ cam'[d].last_frame = cam[d].last_frame
                          /\ Len(cam'[d].history) <= FramesPerClip
                          /\ cam'[d].prediction_valid => cam[d].prediction_valid
                          /\ cam[d].source \in Frames /\ lost_at[d] \in Nat
  BY <1>3, <1>10, <1>11, CameraTypes
<1>13. /\ AllSeen' <=> AllSeen
       /\ Primary' = Primary /\ Secondary' = Secondary /\ Processing' = Processing
  BY <1>2, <1>12, SameView
<1>14. Calibrating(cam)' <=> Calibrating(cam)
  BY <1>2, <1>12 DEF Calibrating, CalibrationFrames
<1>15. TypeOK'
  <2>1. cam' \in [Cameras -> CameraRecords]
    BY <1>1, <1>3, <1>12 DEF TypeOK
  <2>2. lost_at' \in [Cameras -> Nat]
    <3>1. lost_at'[c] \in Nat
      BY <1>3, <1>4, <1>8, CameraTypes
    <3>2. lost_at' = [lost_at EXCEPT ![c] = lost_at'[c]]
      BY <1>1, <1>3, <1>4 DEF TypeOK
    <3> QED BY <1>3, <1>4, <3>1, <3>2 DEF TypeOK
  <2>3. previous_time' \in Nat \cup {NoTime}
    BY <1>1, <1>3, <1>4, CameraTypes
  <2>4. todo' \subseteq Cameras
    BY <1>1, <1>3
  <2>5. \A d \in Cameras : cam'[d].samples <= CalibrationFrames
    BY <1>3, <1>12, CameraTypes
  <2> QED BY <1>2, <1>3, <1>12, <2>1, <2>2, <2>3, <2>4, <2>5
          DEF TypeOK, FramesPerClip, CalibrationFrames
<1>16. HoldsInv'
  <2> SUFFICES ASSUME NEW d \in Cameras PROVE Holds(cam[d], lost_at[d])'
    BY DEF HoldsInv
  <2>1. Holds(cam'[d], lost_at'[d])
    BY <1>10, <1>11 DEF IInv, LoopInv, HoldsInv
  <2> QED BY <1>2, <2>1 DEF Holds, FramesPerClip
<1>17. FramesInv'
  <2> SUFFICES ASSUME NEW d \in Cameras
               PROVE  /\ cam'[d].source.seq <= slot[d].seq
                      /\ cam'[d].source.time <= slot[d].time
                      /\ d \in todo' =>
                            /\ frames[d].seq >= cam'[d].source.seq
                            /\ frames[d].seq > lost_at'[d]
                            /\ cam'[d].history # <<>> => frames[d].seq > cam'[d].source.seq
    BY <1>2 DEF IInv, LoopInv, FramesInv, Pending
  <2>1. CASE d = c
    <3>1. d \notin todo'
      BY <1>1, <2>1
    <3>2. slot[c].seq \in Nat /\ slot[c].time \in Nat
      BY <1>3, <1>4, CameraTypes
    <3> QED BY <1>6, <1>10, <2>1, <3>1, <3>2
  <2>2. CASE d # c
    <3>1. d \in todo' => d \in todo
      BY <1>1
    <3> QED BY <1>2, <1>11, <2>2, <3>1 DEF IInv, LoopInv, FramesInv, Pending
  <2> QED BY <2>1, <2>2
<1>18. RecentInv'
  <2> SUFFICES ASSUME NEW d \in Cameras, cam'[d].history # <<>>
               PROVE  IF d \in Processing
                      THEN cam'[d].source.time <= cam'[d].last_candidate + DropoutHold
                      ELSE AllSeen
    BY <1>13 DEF RecentInv
  <2>1. CASE d = c
    BY <1>5, <1>10, <2>1
  <2>2. CASE d # c
    BY <1>11, <2>2 DEF IInv, LoopInv, RecentInv
  <2> QED BY <2>1, <2>2
<1>19. CalibrationInv'
  BY <1>2, <1>14 DEF IInv, LoopInv, CalibrationInv
<1>20. TurnInv'
  BY <1>1, <1>2, <1>13 DEF IInv, LoopInv, TurnInv
<1>21. ReuseInv'
  BY <1>2, <1>12, <1>13, PrimaryFacts DEF IInv, LoopInv, ReuseInv
<1> QED BY <1>15, <1>16, <1>17, <1>18, <1>19, <1>20, <1>21 DEF IInv, LoopInv

\* What the freshness check keeps, whatever the turn does next.
LEMMA CheckStep ==
    ASSUME IInv, CheckInput, pc' \in {"read", "infer"},
           EndTurn \/ UNCHANGED frames, reused' \in Nat,
           todo' \subseteq Cameras, chosen' \subseteq Cameras,
           input_fresh' \in [Cameras -> BOOLEAN],
           isolation_now' \in Nat \cup {NoTime},
           hold_off' \in 0 .. MinimumInterval,
           output_count' \in 0 .. SecondaryEveryN - 1,
           pose' \in [time : Nat \cup {NoTime}, valid : SUBSET Cameras, fused : BOOLEAN,
                      elapsed : Nat \cup {NoTime}],
           joints_time' = joints_time
    PROVE  /\ TypeOK' /\ HoldsInv' /\ FramesInv' /\ RecentInv' /\ CalibrationInv'
           /\ now' >= Start
           /\ AllSeen' <=> AllSeen
           /\ Primary' = Primary /\ Secondary' = Secondary
<1>1. /\ pc = "isolate" /\ todo = {} /\ cam' = Checked /\ now' = now /\ config' = config
      /\ slot' = slot /\ previous_time' = previous_time
      /\ lost_at' = [c \in Cameras |-> IF Fresh(c) THEN lost_at[c] ELSE cam[c].source.seq]
  BY DEF CheckInput
<1>2. TypeOK /\ now \in Nat /\ config \in Configurations
  BY DEF IInv, TypeOK
<1>3. \A c \in Cameras :
         /\ cam'[c] \in CameraRecords
         /\ cam'[c].source = cam[c].source /\ cam'[c].samples = cam[c].samples
         /\ cam'[c].last_frame = cam[c].last_frame
         /\ \/ cam'[c] = cam[c] /\ (Fresh(c) \/ ~cam[c].valid)
            \/ ~cam'[c].valid /\ ~cam'[c].prediction_valid /\ cam'[c].history = <<>> /\ ~Fresh(c)
  <2> SUFFICES ASSUME NEW c \in Cameras
               PROVE  LET k == cam'[c] IN
                      /\ k \in CameraRecords
                      /\ k.source = cam[c].source /\ k.samples = cam[c].samples
                      /\ k.last_frame = cam[c].last_frame
                      /\ \/ k = cam[c] /\ (Fresh(c) \/ ~cam[c].valid)
                         \/ ~k.valid /\ ~k.prediction_valid /\ k.history = <<>> /\ ~Fresh(c)
    OBVIOUS
  <2> QED BY <1>1, <1>2, CheckedEffect
<1>4. \A c \in Cameras : /\ cam[c].source \in Frames /\ cam[c].source.seq \in Nat
                         /\ lost_at[c] \in Nat /\ cam[c].samples <= CalibrationFrames
                         /\ Len(cam[c].history) <= FramesPerClip
                         /\ Holds(cam[c], lost_at[c])
  BY <1>2, CameraTypes DEF IInv, LoopInv, HoldsInv
<1>5. FramesPerClip \in Nat \ {0}
  BY <1>2, ConfigTypes
<1>6. /\ AllSeen' <=> AllSeen
      /\ Primary' = Primary /\ Secondary' = Secondary /\ Processing' = Processing
  BY <1>1, <1>3, SameView
<1>7. Calibrating(cam)' <=> Calibrating(cam)
  BY <1>1, <1>3 DEF Calibrating, CalibrationFrames
<1>8. frames' \in [Cameras -> Frames] /\ (EndTurn => \A c \in Cameras : frames'[c] = NoFrame)
  BY <1>2, CameraFacts DEF EndTurn, TypeOK
<1>9. TypeOK'
  <2>1. cam' \in [Cameras -> CameraRecords]
    BY <1>1, <1>3 DEF Checked
  <2>2. lost_at' \in [Cameras -> Nat]
    BY <1>1, <1>4
  <2>3. \A c \in Cameras : /\ cam'[c].samples <= CalibrationFrames
                           /\ Len(cam'[c].history) <= FramesPerClip
    BY <1>3, <1>4, <1>5, EmptySeq
  <2> QED BY <1>1, <1>2, <1>8, <2>1, <2>2, <2>3 DEF TypeOK, FramesPerClip, CalibrationFrames
<1>10. HoldsInv'
  <2> SUFFICES ASSUME NEW c \in Cameras PROVE Holds(cam[c], lost_at[c])'
    BY DEF HoldsInv
  <2>1. Holds(cam'[c], lost_at'[c])
    <3>1. CASE cam'[c] = cam[c] /\ Fresh(c)
      BY <1>1, <1>4, <3>1
    <3>2. CASE cam'[c] = cam[c] /\ ~Fresh(c) /\ ~cam[c].valid
      <4>1. cam[c].history = <<>> /\ ~cam[c].prediction_valid
        BY <1>4, <3>2 DEF Holds
      <4>2. lost_at'[c] <= cam'[c].source.seq
        BY <1>1, <1>4, <3>2
      <4> QED BY <1>3, <3>2, <4>1, <4>2, NothingHolds
    <3>3. CASE ~cam'[c].prediction_valid /\ cam'[c].history = <<>> /\ ~Fresh(c)
      <4>1. lost_at'[c] <= cam'[c].source.seq
        BY <1>1, <1>3, <1>4, <3>3
      <4> QED BY <1>3, <3>3, <4>1, NothingHolds
    <3> QED BY <1>3, <3>1, <3>2, <3>3
  <2> QED BY <1>1, <2>1 DEF Holds, FramesPerClip
<1>11. FramesInv'
  <2>1. \A c \in Cameras : ~Pending(c)'
    BY <1>1 DEF Pending
  <2>2. \A c \in Cameras : frames'[c] # NoFrame => frames'[c] = frames[c]
    BY <1>8
  <2> QED BY <1>1, <1>3, <2>1, <2>2 DEF IInv, LoopInv, FramesInv
<1>12. RecentInv'
  BY <1>3, <1>6 DEF IInv, LoopInv, RecentInv
<1>13. CalibrationInv'
  BY <1>1, <1>7 DEF IInv, LoopInv, CalibrationInv
<1> QED BY <1>1, <1>6, <1>9, <1>10, <1>11, <1>12, <1>13 DEF IInv, LoopInv, TurnInv

\* The secondary's prediction goes, or it is in a turn in which somebody is ready.
LEMMA SecondaryIsReady ==
    ASSUME IInv, Checked[Secondary].prediction_valid
    PROVE  Secondary \in Ready /\ cam[Secondary].prediction_valid
<1>1. Secondary \in Cameras /\ TypeOK
  BY PrimaryFacts DEF IInv
<1>2. /\ Checked[Secondary] = cam[Secondary]
      /\ Fresh(Secondary) \/ ~cam[Secondary].valid
  BY <1>1, CheckedEffect
<1>3. /\ cam[Secondary].prediction_valid =>
            cam[Secondary].valid /\ Len(cam[Secondary].history) = FramesPerClip
  BY <1>1 DEF IInv, LoopInv, HoldsInv, Holds
<1> QED BY <1>1, <1>2, <1>3 DEF Ready

LEMMA NobodyReadyStep ==
    ASSUME IInv, NobodyReady PROVE IInv'
<1>1. /\ CheckInput /\ EndTurn /\ Ready = {} /\ reused' = reused /\ pc = "isolate"
      /\ \/ hold_off = 0 /\ PublishEmpty(Max({cam[c].source.time : c \in Processing}))
         \/ UNCHANGED outVars
  BY DEF NobodyReady, CheckInput
<1>2. TypeOK /\ reused \in Nat
  BY DEF IInv, TypeOK
<1>3. /\ hold_off' \in 0 .. MinimumInterval
      /\ output_count' \in 0 .. SecondaryEveryN - 1
      /\ pose' \in [time : Nat \cup {NoTime}, valid : SUBSET Cameras, fused : BOOLEAN,
                    elapsed : Nat \cup {NoTime}]
      /\ joints_time' = joints_time
  <2> DEFINE g == [c \in Cameras |-> cam[c].source.time]
  <2>1. g \in [Cameras -> Nat]
    BY <1>2, CameraTypes
  <2>2. {cam[c].source.time : c \in Processing} = {g[c] : c \in Processing}
    BY PrimaryFacts
  <2>3. PublishEmpty(Max({g[c] : c \in Processing})) \/ UNCHANGED outVars
    BY <1>1, <2>2
  <2>4. Processing \in SUBSET Cameras /\ Processing # {}
    BY PrimaryFacts
  <2> HIDE DEF g
  <2> QED BY <1>2, <2>1, <2>3, <2>4, PublishEmptyTypes
<1>4. /\ pc' = "read" /\ todo' = {} /\ chosen' = {}
      /\ input_fresh' \in [Cameras -> BOOLEAN] /\ isolation_now' = NoTime
  BY <1>1 DEF EndTurn
<1>5. /\ TypeOK' /\ HoldsInv' /\ FramesInv' /\ RecentInv' /\ CalibrationInv'
      /\ now' >= Start /\ (AllSeen' <=> AllSeen) /\ Secondary' = Secondary
  BY <1>1, <1>2, <1>3, <1>4, CheckStep
<1>6. TurnInv'
  BY <1>4, <1>5 DEF TurnInv
<1>7. ReuseInv'
  <2>1. ~cam'[Secondary].prediction_valid
    BY <1>1, SecondaryIsReady DEF CheckInput
  <2> QED BY <1>1, <1>4, <1>5, <2>1 DEF IInv, LoopInv, ReuseInv
<1> QED BY <1>5, <1>6, <1>7 DEF IInv, LoopInv

LEMMA NothingDueStep ==
    ASSUME IInv, NothingDue PROVE IInv'
<1>1. /\ CheckInput /\ EndTurn /\ reused' = reused /\ pc = "isolate"
      /\ hold_off' = hold_off /\ output_count' = output_count /\ pose' = pose
      /\ joints_time' = joints_time
  BY DEF NothingDue, CheckInput, outVars
<1>2. TypeOK /\ reused \in Nat
  BY DEF IInv, TypeOK
<1>3. /\ pc' = "read" /\ todo' = {} /\ chosen' = {}
      /\ input_fresh' \in [Cameras -> BOOLEAN] /\ isolation_now' = NoTime
  BY <1>1 DEF EndTurn
<1>4. /\ TypeOK' /\ HoldsInv' /\ FramesInv' /\ RecentInv' /\ CalibrationInv'
      /\ now' >= Start /\ (AllSeen' <=> AllSeen) /\ Secondary' = Secondary
  <2>1. /\ hold_off' \in 0 .. MinimumInterval
        /\ output_count' \in 0 .. SecondaryEveryN - 1
        /\ pose' \in [time : Nat \cup {NoTime}, valid : SUBSET Cameras, fused : BOOLEAN,
                      elapsed : Nat \cup {NoTime}]
    BY <1>1, <1>2 DEF TypeOK
  <2> QED BY <1>1, <1>2, <1>3, <2>1, CheckStep
<1>5. TurnInv'
  BY <1>3, <1>4 DEF TurnInv
<1>6. ReuseInv'
  <2>1. cam'[Secondary].prediction_valid => cam[Secondary].prediction_valid
    BY <1>1, SecondaryIsReady DEF CheckInput
  <2> QED BY <1>1, <1>3, <1>4, <2>1 DEF IInv, LoopInv, ReuseInv
<1> QED BY <1>4, <1>5, <1>6 DEF IInv, LoopInv

\* An inference that refreshes the secondary although the primary has something new is
\* the one at which the count of outputs is zero.
LEMMA RefreshIsCounted ==
    ASSUME IInv, Due = {Secondary}, Checked[Secondary].prediction_valid,
           NeedsInference(Primary)
    PROVE  output_count = 0 /\ AllSeen
<1>1. Primary \in Ready /\ Secondary \in Select
  BY DEF NeedsInference, Due
<1>2. Secondary \in Ready
  BY SecondaryIsReady
<1>3. Primary # Secondary
  BY PrimaryFacts
<1>4. Select = {Secondary} => SecondaryDue
  BY <1>1, <1>2, <1>3 DEF Select, If
<1>5. Select = {Secondary}
  BY <1>1, <1>3 DEF Select, If
<1>6. output_count = 0
  BY <1>4, <1>5 DEF SecondaryDue
<1>7. \A c \in Cameras : cam[c].last_frame # 0
  <2> SUFFICES ASSUME NEW c \in Cameras PROVE cam[c].last_frame # 0
    OBVIOUS
  <2>1. c \in Ready
    BY <1>1, <1>2, PrimaryFacts
  <2>2. cam[c].last_frame \in Nat /\ cam[c].last_frame > 0
    BY <2>1, CameraTypes DEF Ready, Fresh, IInv
  <2> QED BY <2>2
<1> QED BY <1>6, <1>7 DEF AllSeen

LEMMA StartInferenceStep ==
    ASSUME IInv, StartInference PROVE IInv'
<1>1. /\ CheckInput /\ pc' = "infer" /\ chosen' = Due /\ pc = "isolate"
      /\ input_fresh' = [c \in Cameras |-> Fresh(c)]
      /\ reused' = IF /\ Due = {Secondary}
                      /\ Checked[Secondary].prediction_valid
                      /\ NeedsInference(Primary)
                   THEN reused + 1 ELSE 0
      /\ todo' = todo /\ frames' = frames /\ isolation_now' = isolation_now
      /\ hold_off' = hold_off /\ output_count' = output_count /\ pose' = pose
      /\ joints_time' = joints_time
      /\ cam' = Checked /\ config' = config
  BY DEF StartInference, CheckInput, outVars
<1>2. TypeOK /\ reused \in Nat
  BY DEF IInv, TypeOK
<1>3. Select \subseteq Ready /\ Due \subseteq Ready
  BY DEF Select, If, NeedsInference, Due
<1>4. input_fresh' \in [Cameras -> BOOLEAN]
  <2>1. \A c \in Cameras : Fresh(c) \in BOOLEAN
    BY DEF Fresh
  <2> QED BY <1>1, <2>1
<1>5. /\ TypeOK' /\ HoldsInv' /\ FramesInv' /\ RecentInv' /\ CalibrationInv'
      /\ now' >= Start /\ (AllSeen' <=> AllSeen)
      /\ Primary' = Primary /\ Secondary' = Secondary
  <2>1. /\ hold_off' \in 0 .. MinimumInterval
        /\ output_count' \in 0 .. SecondaryEveryN - 1
        /\ pose' \in [time : Nat \cup {NoTime}, valid : SUBSET Cameras, fused : BOOLEAN,
                      elapsed : Nat \cup {NoTime}]
        /\ todo' \subseteq Cameras /\ isolation_now' \in Nat \cup {NoTime}
    BY <1>1, <1>2 DEF TypeOK
  <2>2. chosen' \subseteq Cameras
    BY <1>1, <1>3 DEF Ready
  <2>3. reused' \in Nat
    BY <1>1, <1>2
  <2> QED BY <1>1, <1>2, <1>4, <2>1, <2>2, <2>3, CheckStep
<1>6. TurnInv'
  BY <1>1, <1>3, <1>5 DEF TurnInv, Ready, FramesPerClip
<1>7. ReuseInv'
  <2> SUFFICES ASSUME SecondaryEveryN > 1
               PROVE  reused' <= 1 /\ (reused' = 1 => AllSeen' /\ output_count' = 0)
    BY <1>1 DEF ReuseInv
  <2>1. CASE /\ Due = {Secondary}
             /\ Checked[Secondary].prediction_valid
             /\ NeedsInference(Primary)
    <3>1. output_count = 0 /\ AllSeen
      BY <2>1, RefreshIsCounted
    <3>2. cam[Secondary].prediction_valid
      BY <2>1, SecondaryIsReady
    <3>3. reused # 1 /\ reused <= 1
      BY <1>1, <3>1, <3>2 DEF IInv, LoopInv, ReuseInv
    <3>4. reused' = reused + 1
      BY <1>1, <2>1
    <3> QED BY <1>1, <1>2, <1>5, <3>1, <3>3, <3>4
  <2>2. CASE ~(/\ Due = {Secondary}
               /\ Checked[Secondary].prediction_valid
               /\ NeedsInference(Primary))
    <3>1. reused' = 0
      BY <1>1, <2>2
    <3> QED BY <3>1
  <2> QED BY <2>1, <2>2
<1> QED BY <1>5, <1>6, <1>7 DEF IInv, LoopInv

LEMMA PublishStep ==
    ASSUME IInv, Publish PROVE IInv'
<1>1. PICK fused \in BOOLEAN :
         /\ pose' = [time |-> NewestTime,
                     valid |-> {c \in Cameras : CameraValid(c)},
                     fused |-> fused,
                     elapsed |-> Elapsed]
         /\ previous_time' = IF fused THEN NewestTime ELSE previous_time
         /\ joints_time' = IF fused THEN NewestTime ELSE joints_time
  BY DEF Publish
<1>2. /\ pc = "infer" /\ pc' = "read" /\ todo' = {} /\ chosen' = {} /\ cam' = Predicted
      /\ frames' = [c \in Cameras |-> NoFrame] /\ isolation_now' = NoTime
      /\ input_fresh' = [c \in Cameras |-> FALSE]
      /\ output_count' = (output_count + 1) % SecondaryEveryN
      /\ now' = now /\ config' = config /\ slot' = slot /\ hold_off' = hold_off
      /\ lost_at' = lost_at /\ reused' = reused
  BY DEF Publish, EndTurn
<1>3. TypeOK /\ config \in Configurations /\ FramesPerClip \in Nat \ {0}
  BY ConfigTypes DEF IInv, TypeOK
<1>4. \A c \in chosen : /\ c \in Cameras /\ cam[c].valid
                        /\ Len(cam[c].history) = FramesPerClip
  BY <1>2, <1>3 DEF IInv, LoopInv, TurnInv, TypeOK
<1>5. \A c \in Cameras :
         /\ cam'[c] \in CameraRecords
         /\ cam'[c].source = cam[c].source /\ cam'[c].samples = cam[c].samples
         /\ cam'[c].last_frame = cam[c].last_frame
         /\ cam'[c].valid = cam[c].valid /\ cam'[c].history = cam[c].history
         /\ cam'[c].candidate = cam[c].candidate
         /\ cam'[c].last_candidate = cam[c].last_candidate
         /\ \/ cam'[c] = cam[c] /\ c \notin chosen
            \/ c \in chosen /\ cam'[c].prediction.first = cam[c].history[1].seq
  <2> SUFFICES ASSUME NEW c \in Cameras
               PROVE  LET k == cam'[c] IN
                      /\ k \in CameraRecords
                      /\ k.source = cam[c].source /\ k.samples = cam[c].samples
                      /\ k.last_frame = cam[c].last_frame
                      /\ k.valid = cam[c].valid /\ k.history = cam[c].history
                      /\ k.candidate = cam[c].candidate
                      /\ k.last_candidate = cam[c].last_candidate
                      /\ \/ k = cam[c] /\ c \notin chosen
                         \/ c \in chosen /\ k.prediction.first = cam[c].history[1].seq
    OBVIOUS
  <2> QED BY <1>2, <1>3, <1>4, PredictedEffect
<1>6. /\ AllSeen' <=> AllSeen
      /\ Primary' = Primary /\ Secondary' = Secondary /\ Processing' = Processing
  BY <1>2, <1>5, SameView
<1>7. Calibrating(cam)' <=> Calibrating(cam)
  BY <1>2, <1>5 DEF Calibrating, CalibrationFrames
<1>8. TypeOK'
  <2>1. cam' \in [Cameras -> CameraRecords]
    BY <1>2, <1>5 DEF Predicted
  <2>2. NewestTime \in Nat
    <3> DEFINE g == [c \in Cameras |-> cam[c].candidate.time]
    <3>1. g \in [Cameras -> Nat]
      BY <1>3, CameraTypes
    <3>2. {cam[c].candidate.time : c \in Processing} = {g[c] : c \in Processing}
      BY PrimaryFacts
    <3>3. Processing \in SUBSET Cameras /\ Processing # {}
      BY PrimaryFacts
    <3> HIDE DEF g
    <3>4. Max({g[c] : c \in Processing}) \in Nat
      BY <3>1, <3>3, MaxOfCameras
    <3> QED BY <3>2, <3>4 DEF NewestTime
  <2>3. previous_time \in Nat \cup {NoTime} /\ joints_time \in Nat \cup {NoTime}
    BY <1>3 DEF TypeOK
  <2>4. Elapsed \in Nat \cup {NoTime}
    BY <2>2, <2>3 DEF Elapsed
  <2>5. pose' \in [time : Nat \cup {NoTime}, valid : SUBSET Cameras, fused : BOOLEAN,
                   elapsed : Nat \cup {NoTime}]
    BY <1>1, <2>2, <2>4
  <2>6. previous_time' \in Nat \cup {NoTime} /\ joints_time' \in Nat \cup {NoTime}
    BY <1>1, <2>2, <2>3
  <2>7. output_count' \in 0 .. SecondaryEveryN - 1
    BY <1>2, <1>3, LimitTypes DEF TypeOK
  <2>8. frames' \in [Cameras -> Frames] /\ input_fresh' \in [Cameras -> BOOLEAN]
    BY <1>2, CameraFacts
  <2> QED BY <1>2, <1>3, <1>5, <2>1, <2>5, <2>6, <2>7, <2>8
          DEF TypeOK, FramesPerClip, CalibrationFrames
<1>9. HoldsInv'
  <2> SUFFICES ASSUME NEW c \in Cameras PROVE Holds(cam[c], lost_at[c])'
    BY DEF HoldsInv
  <2>1. Holds(cam[c], lost_at[c])
    BY DEF IInv, LoopInv, HoldsInv
  <2>2. CASE c \notin chosen
    BY <1>2, <1>5, <2>1, <2>2 DEF Holds, FramesPerClip
  <2>3. CASE c \in chosen
    <3>1. 1 \in 1 .. Len(cam[c].history)
      BY <1>3, <1>4, <2>3
    <3>2. cam'[c].prediction.first > lost_at[c]
      BY <1>5, <2>1, <2>3, <3>1 DEF Holds
    <3> QED BY <1>2, <1>4, <1>5, <2>1, <2>3, <3>2 DEF Holds, FramesPerClip
  <2> QED BY <2>2, <2>3
<1>10. FramesInv'
  BY <1>2, <1>5 DEF IInv, LoopInv, FramesInv, Pending
<1>11. RecentInv'
  BY <1>5, <1>6 DEF IInv, LoopInv, RecentInv
<1>12. CalibrationInv'
  BY <1>2, <1>7 DEF IInv, LoopInv, CalibrationInv
<1>13. TurnInv'
  BY <1>2 DEF IInv, LoopInv, TurnInv
<1>14. ReuseInv'
  <2> SUFFICES ASSUME SecondaryEveryN > 1
               PROVE  reused <= 1 /\ (reused = 1 => AllSeen /\ output_count' # 0)
    BY <1>2, <1>6 DEF ReuseInv
  <2>1. reused <= 1 /\ (reused = 1 => AllSeen /\ output_count = 0)
    BY <1>2 DEF IInv, LoopInv, ReuseInv
  <2>2. SecondaryEveryN \in Nat /\ 1 % SecondaryEveryN = 1
    BY LimitTypes
  <2> QED BY <1>2, <2>1, <2>2
<1> QED BY <1>8, <1>9, <1>10, <1>11, <1>12, <1>13, <1>14 DEF IInv, LoopInv

-----------------------------------------------------------------------------
(* Theorems.                                                               *)

LEMMA StutterStep ==
    ASSUME IInv, UNCHANGED vars PROVE IInv'
<1>1. /\ now' = now /\ config' = config /\ slot' = slot /\ pc' = pc /\ todo' = todo
      /\ frames' = frames /\ isolation_now' = isolation_now /\ input_fresh' = input_fresh
      /\ chosen' = chosen /\ cam' = cam /\ hold_off' = hold_off
      /\ output_count' = output_count /\ pose' = pose /\ joints_time' = joints_time
      /\ previous_time' = previous_time /\ lost_at' = lost_at /\ reused' = reused
  BY DEF vars, turnVars, outVars
<1>2. TypeOK'
  BY <1>1 DEF IInv, TypeOK, FramesPerClip, CalibrationFrames
<1>3. /\ AllSeen' <=> AllSeen
      /\ Primary' = Primary /\ Secondary' = Secondary /\ Processing' = Processing
  BY <1>1, SameView
<1>4. HoldsInv' /\ FramesInv'
  BY <1>1 DEF IInv, LoopInv, HoldsInv, FramesInv, Holds, Pending, FramesPerClip
<1>5. RecentInv' /\ ReuseInv'
  BY <1>1, <1>3 DEF IInv, LoopInv, RecentInv, ReuseInv
<1>6. CalibrationInv'
  BY <1>1 DEF IInv, LoopInv, CalibrationInv, Calibrating, CalibrationFrames
<1>7. TurnInv'
  BY <1>1, <1>3 DEF IInv, LoopInv, TurnInv, FramesPerClip
<1> QED BY <1>2, <1>4, <1>5, <1>6, <1>7 DEF IInv, LoopInv

LEMMA NextInv ==
    ASSUME IInv, [Next]_vars PROVE IInv'
<1>1. CASE Tick
  BY <1>1, TickStep
<1>2. CASE Read
  BY <1>2, ReadStep
<1>3. CASE CalibrationEnds \/ CalibrationStalls \/ CalibrationGoesOn
  BY <1>3, CalibrationSteps
<1>4. CASE Sort
  BY <1>4, SortStep
<1>5. CASE Isolate
  BY <1>5, IsolateStep
<1>6. CASE NobodyReady
  BY <1>6, NobodyReadyStep
<1>7. CASE NothingDue
  BY <1>7, NothingDueStep
<1>8. CASE StartInference
  BY <1>8, StartInferenceStep
<1>9. CASE Publish
  BY <1>9, PublishStep
<1>10. CASE UNCHANGED vars
  BY <1>10, StutterStep
<1> QED BY <1>1, <1>2, <1>3, <1>4, <1>5, <1>6, <1>7, <1>8, <1>9, <1>10 DEF Next

\* The strengthened invariant holds in every reachable state of the loop.
THEOREM LoopIsInductive == Spec => []IInv
<1>1. Init => IInv
  BY InitInv
<1>2. IInv /\ [Next]_vars => IInv'
  BY NextInv
<1> QED BY <1>1, <1>2, PTL DEF Spec

\* The loop's variables keep their types: clips never outgrow a clip's length, samples
\* stop at the number the calibration asks for, and counts wrap (run in worker.py).
THEOREM TypeCorrect == Spec => []TypeOK
<1>1. IInv => TypeOK
  BY DEF IInv
<1> QED BY <1>1, LoopIsInductive, PTL

\* The frames of a clip are one uninterrupted sight of the player, although the gap and
\* the hold are limited in different places (realtime_clip_frame_is_contiguous,
\* candidate_dropout_is_bridgeable).
THEOREM ClipsAreUnbroken == Spec => []ClipIsUnbroken
<1>1. IInv => ClipIsUnbroken
  BY DEF IInv, LoopInv, HoldsInv, Holds, Follows, ClipIsUnbroken
<1> QED BY <1>1, LoopIsInductive, PTL

\* Neither a clip nor a valid prediction has a frame from before the player was lost.
THEOREM LossesAreForgotten == Spec => []NothingSurvivesALoss
<1>1. IInv => NothingSurvivesALoss
  BY DEF IInv, LoopInv, HoldsInv, Holds, NothingSurvivesALoss
<1> QED BY <1>1, LoopIsInductive, PTL

\* The secondary camera never takes the inference from the primary twice in a row
\* (select_inference_indices and the count of outputs).
THEOREM PrimaryComesBack == Spec => []PrimaryIsRefreshed
<1>1. IInv => PrimaryIsRefreshed
  BY DEF IInv, LoopInv, ReuseInv, PrimaryIsRefreshed
<1> QED BY <1>1, LoopIsInductive, PTL

-----------------------------------------------------------------------------
(* How old a view may be.                                                  *)

\* A step that sees no new player, and lets none wait, leaves the ages in order.
LEMMA QuietAges ==
    ASSUME IInv, AgeInv, config' = config, now' \in {now, now + 1},
           \A c \in Cameras :
              /\ cam'[c].last_frame = cam[c].last_frame
              /\ cam'[c].last_candidate \in {cam[c].last_candidate, 0}
              /\ cam'[c].valid => /\ cam[c].valid
                                  /\ cam'[c].last_candidate = cam[c].last_candidate
              /\ cam'[c].samples = cam[c].samples \/ frames[c] # NoFrame
              /\ frames'[c] # NoFrame => frames[c] # NoFrame
              /\ cam[c].valid /\ pc' # "failed" /\ ~Pending(c)'
                    => pc # "failed" /\ ~Pending(c),
           pc' = "isolate" => \/ pc = "isolate" /\ isolation_now' = isolation_now
                              \/ isolation_now' = now,
           Calibrating(cam)' => Calibrating(cam)
    PROVE  AgeInv'
<1>1. TypeOK /\ now \in Nat
  BY DEF IInv, TypeOK
<1>2. Processing' = Processing
  BY SameView
<1>3. ASSUME NEW c \in Cameras
      PROVE  /\ cam'[c].last_frame <= now' /\ cam'[c].last_candidate <= now'
             /\ frames'[c] # NoFrame \/ cam'[c].samples > 0 => cam'[c].last_frame # 0
             /\ pc' = "isolate" => cam'[c].last_frame <= isolation_now'
             /\ cam'[c].valid =>
                   /\ c \in Processing'
                   /\ pc' # "failed" /\ ~Pending(c)' =>
                         cam'[c].last_frame <= cam'[c].last_candidate + DropoutHold
  <2>1. /\ cam[c].last_frame \in Nat /\ cam[c].last_candidate \in Nat
        /\ cam[c].last_frame <= now /\ cam[c].last_candidate <= now
        /\ frames[c] # NoFrame \/ cam[c].samples > 0 => cam[c].last_frame # 0
        /\ pc = "isolate" => cam[c].last_frame <= isolation_now
        /\ cam[c].valid =>
              /\ c \in Processing
              /\ pc # "failed" /\ ~Pending(c) =>
                    cam[c].last_frame <= cam[c].last_candidate + DropoutHold
    BY <1>1, <1>3, CameraTypes DEF AgeInv
  <2>2. cam'[c].last_frame <= now' /\ cam'[c].last_candidate <= now'
    BY <1>1, <1>3, <2>1
  <2>3. frames'[c] # NoFrame \/ cam'[c].samples > 0 => cam'[c].last_frame # 0
    BY <1>3, <2>1
  <2>4. pc' = "isolate" => cam'[c].last_frame <= isolation_now'
    BY <1>3, <2>1
  <2>5. cam'[c].valid =>
           /\ c \in Processing'
           /\ pc' # "failed" /\ ~Pending(c)' =>
                 cam'[c].last_frame <= cam'[c].last_candidate + DropoutHold
    BY <1>2, <1>3, <2>1
  <2> QED BY <2>2, <2>3, <2>4, <2>5
<1>4. Calibrating(cam)' => \A c \in Cameras : ~cam'[c].valid
  BY DEF AgeInv
<1> QED BY <1>3, <1>4 DEF AgeInv

LEMMA TickAges ==
    ASSUME IInv, AgeInv, Tick PROVE AgeInv'
<1>1. /\ now' = now + 1 /\ config' = config /\ pc' = pc /\ todo' = todo /\ cam' = cam
      /\ frames' = frames /\ isolation_now' = isolation_now
  BY DEF Tick, turnVars
<1>2. Calibrating(cam)' <=> Calibrating(cam)
  BY <1>1 DEF Calibrating, CalibrationFrames
<1>3. \A c \in Cameras : Pending(c)' <=> Pending(c)
  BY <1>1 DEF Pending
<1> QED BY <1>1, <1>2, <1>3, QuietAges

LEMMA CalibrationAges ==
    ASSUME IInv, AgeInv, CalibrationEnds \/ CalibrationStalls \/ CalibrationGoesOn
    PROVE  AgeInv'
<1>1. /\ pc = "calibrate" /\ cam' = Sampled /\ now' = now /\ config' = config
      /\ pc' # "isolate"
      /\ \A c \in Cameras : frames'[c] # NoFrame => frames[c] # NoFrame
  BY DEF CalibrationEnds, CalibrationStalls, CalibrationGoesOn, EndTurn, turnVars
<1>2. Calibrating(cam) /\ \A c \in Cameras : ~cam[c].valid
  BY <1>1 DEF AgeInv, IInv, LoopInv, CalibrationInv
<1>3. ASSUME NEW c \in Cameras
      PROVE  /\ cam'[c].last_frame = cam[c].last_frame
             /\ cam'[c].last_candidate = cam[c].last_candidate
             /\ cam'[c].valid = cam[c].valid
             /\ cam'[c].samples = cam[c].samples \/ frames[c] # NoFrame
  <2>1. cam[c] \in CameraRecords
    BY CameraTypes DEF IInv
  <2>2. CASE c \in Arrived
    <3>1. frames[c] # NoFrame
      BY <2>2 DEF Arrived
    <3> QED BY <1>1, <3>1, SampledEffect DEF IInv
  <2>3. CASE c \notin Arrived
    BY <1>1, <2>1, <2>3 DEF Sampled
  <2> QED BY <2>2, <2>3
<1> QED BY <1>1, <1>2, <1>3, QuietAges

LEMMA SortAges ==
    ASSUME IInv, AgeInv, Sort PROVE AgeInv'
<1>1. /\ pc = "sort" /\ pc' = "isolate" /\ isolation_now' = now /\ now' = now
      /\ todo' = Arrived \cap Processing /\ config' = config /\ frames' = frames
  BY DEF Sort
<1>2. ASSUME NEW c \in Cameras
      PROVE  /\ cam'[c].last_frame = cam[c].last_frame /\ cam'[c].samples = cam[c].samples
             /\ cam'[c].last_candidate = cam[c].last_candidate
             /\ cam'[c].valid = cam[c].valid
  <2>1. cam[c] \in CameraRecords
    BY CameraTypes DEF IInv
  <2>2. cam'[c] = [cam[c] EXCEPT !.source = Stamp(frames[c])] \/ cam'[c] = cam[c]
    BY DEF Sort
  <2> QED BY <2>1, <2>2 DEF CameraRecords
<1>3. Calibrating(cam)' <=> Calibrating(cam)
  BY <1>1, <1>2 DEF Calibrating, CalibrationFrames
<1>4. \A c \in Cameras : cam[c].valid /\ ~Pending(c)' => ~Pending(c)
  BY <1>1 DEF AgeInv, Pending, Arrived
<1> QED BY <1>1, <1>2, <1>3, <1>4, QuietAges

LEMMA CheckAges ==
    ASSUME IInv, AgeInv, NobodyReady \/ NothingDue \/ StartInference PROVE AgeInv'
<1>1. /\ pc = "isolate" /\ todo = {} /\ cam' = Checked /\ now' = now /\ config' = config
      /\ pc' \in {"read", "infer"}
      /\ \A c \in Cameras : frames'[c] # NoFrame => frames[c] # NoFrame
  BY DEF NobodyReady, NothingDue, StartInference, CheckInput, EndTurn
<1>2. ASSUME NEW c \in Cameras
      PROVE  /\ cam'[c].last_frame = cam[c].last_frame /\ cam'[c].samples = cam[c].samples
             /\ cam'[c].last_candidate \in {cam[c].last_candidate, 0}
             /\ cam'[c].valid => /\ cam[c].valid
                                 /\ cam'[c].last_candidate = cam[c].last_candidate
  <2>1. cam[c] \in CameraRecords
    BY CameraTypes DEF IInv
  <2>2. cam'[c] = LoseInput(cam[c]) \/ cam'[c] = cam[c]
    BY <1>1 DEF Checked
  <2> QED BY <2>1, <2>2, LoseInputEffect
<1>3. Calibrating(cam)' <=> Calibrating(cam)
  BY <1>1, <1>2 DEF Calibrating, CalibrationFrames
<1>4. \A c \in Cameras : ~Pending(c)
  BY <1>1 DEF Pending
<1> QED BY <1>1, <1>2, <1>3, <1>4, QuietAges

LEMMA PublishAges ==
    ASSUME IInv, AgeInv, Publish PROVE AgeInv'
<1>1. /\ pc = "infer" /\ pc' = "read" /\ cam' = Predicted /\ now' = now /\ config' = config
      /\ \A c \in Cameras : frames'[c] = NoFrame
  BY DEF Publish, EndTurn
<1>2. ASSUME NEW c \in Cameras
      PROVE  /\ cam'[c].last_frame = cam[c].last_frame /\ cam'[c].samples = cam[c].samples
             /\ cam'[c].last_candidate = cam[c].last_candidate
             /\ cam'[c].valid = cam[c].valid
  <2>1. c \in chosen => Len(cam[c].history) = FramesPerClip
    BY <1>1 DEF IInv, LoopInv, TurnInv
  <2> QED BY <1>1, <2>1, PredictedEffect DEF IInv
<1>3. Calibrating(cam)' <=> Calibrating(cam)
  BY <1>1, <1>2 DEF Calibrating, CalibrationFrames
<1>4. \A c \in Cameras : ~Pending(c)
  BY <1>1 DEF Pending
<1> QED BY <1>1, <1>2, <1>3, <1>4, QuietAges

\* Once no background is missing, the set of processed cameras is settled.
LEMMA ViewIsSettled ==
    ASSUME IInv, AgeInv, PrimaryIsKnown, Read, ~Calibrating(cam)
    PROVE  Processing' = Processing
<1>1. /\ config' = config /\ TypeOK /\ config \in Configurations
      /\ \A c \in Cameras : cam[c].last_frame # 0 => cam'[c].last_frame # 0
  <2>1. now # 0
    BY DEF IInv, LoopInv, TurnInv, Start
  <2> QED BY <2>1, ReadEffect DEF Read, IInv, TypeOK
<1>2. CASE mode = "calibrated"
  BY <1>1, <1>2 DEF Processing, mode
<1>3. CASE PrimaryCamera = PrimarySerial
  BY <1>1, <1>3 DEF Processing, mode, Primary
<1>4. CASE config.background_calibration_frames > 0
  <2>1. \A c \in Cameras : cam[c].last_frame # 0
    <3> SUFFICES ASSUME NEW c \in Cameras PROVE cam[c].last_frame # 0
      OBVIOUS
    <3>1. cam[c].samples \in Nat /\ CalibrationFrames \in Nat
      BY <1>1, CameraTypes, ConfigTypes
    <3>2. cam[c].samples > 0
      BY <1>4, <3>1 DEF Calibrating, CalibrationFrames
    <3> QED BY <3>2 DEF AgeInv
  <2>2. Primary' = Primary
    BY <1>1, <2>1 DEF Primary
  <2> QED BY <1>1, <2>2 DEF Processing, mode
<1> QED BY <1>1, <1>2, <1>3, <1>4 DEF PrimaryIsKnown, mode

LEMMA ReadAges ==
    ASSUME IInv, AgeInv, PrimaryIsKnown, Read PROVE AgeInv'
<1>1. /\ pc = "read" /\ pc' \in {"failed", "calibrate", "sort"} /\ now' = now
      /\ config' = config
  BY DEF Read
<1>2. TypeOK /\ now \in Nat /\ now # 0
  BY DEF IInv, TypeOK, LoopInv, TurnInv, Start
<1>3. Calibrating(cam)' <=> Calibrating(cam)
  BY <1>1, ReadEffect DEF Calibrating, CalibrationFrames
<1>4. ASSUME NEW c \in Cameras
      PROVE  /\ cam'[c].last_frame <= now /\ cam'[c].last_candidate <= now
             /\ frames'[c] # NoFrame \/ cam'[c].samples > 0 => cam'[c].last_frame # 0
             /\ cam'[c].valid =>
                   /\ c \in Processing'
                   /\ pc' # "failed" /\ ~Pending(c)' =>
                         cam'[c].last_frame <= cam'[c].last_candidate + DropoutHold
             /\ Calibrating(cam) => ~cam'[c].valid
  <2>1. /\ cam'[c].samples = cam[c].samples /\ cam'[c].valid = cam[c].valid
        /\ cam'[c].last_candidate = cam[c].last_candidate
        /\ cam'[c].last_frame = IF frames'[c] = NoFrame THEN cam[c].last_frame ELSE now
    BY <1>4, ReadEffect
  <2>2. /\ cam[c].last_frame <= now /\ cam[c].last_candidate <= now
        /\ cam[c].samples > 0 => cam[c].last_frame # 0
        /\ cam[c].valid =>
              /\ c \in Processing /\ ~Calibrating(cam)
              /\ cam[c].last_frame <= cam[c].last_candidate + DropoutHold
    BY <1>1, <1>4 DEF AgeInv, Pending
  <2>3. cam'[c].last_frame <= now /\ cam'[c].last_candidate <= now
    BY <1>2, <2>1, <2>2
  <2>4. frames'[c] # NoFrame \/ cam'[c].samples > 0 => cam'[c].last_frame # 0
    BY <1>2, <2>1, <2>2
  <2>5. cam'[c].valid => c \in Processing'
    BY <2>1, <2>2, ViewIsSettled
  <2>6. cam'[c].valid /\ pc' # "failed" /\ ~Pending(c)'
           => cam'[c].last_frame <= cam'[c].last_candidate + DropoutHold
    BY <1>1, <2>1, <2>2 DEF Pending
  <2>7. Calibrating(cam) => ~cam'[c].valid
    BY <2>1, <2>2
  <2> QED BY <2>3, <2>4, <2>5, <2>6, <2>7
<1> QED BY <1>1, <1>3, <1>4 DEF AgeInv

\* A player in sight has just been found, or the hold bridges this miss.
LEMMA IsolatedAge ==
    ASSUME config \in Configurations, now \in Nat, isolation_now \in Nat,
           NEW k \in CameraRecords, Len(k.history) <= FramesPerClip,
           NEW f \in Frames, NEW player \in BOOLEAN
    PROVE  LET r == Isolated(k, f, player) IN
           /\ r.samples = k.samples /\ r.last_frame = k.last_frame
           /\ r.last_candidate \in {now, k.last_candidate, 0}
           /\ r.candidate \in {f, k.candidate, NoFrame}
           /\ r.valid => \/ r.last_candidate = now
                         \/ isolation_now <= r.last_candidate + DropoutHold
<1> DEFINE kept == Continued(k, f)
           here == [kept EXCEPT !.source = Stamp(f)]
           r == Isolated(k, f, player)
<1>1. Stamp(f) = f /\ FramesPerClip \in Nat \ {0}
  BY ConfigTypes DEF Stamp, Frames
<1>2. /\ kept \in CameraRecords /\ kept.samples = k.samples /\ kept.last_frame = k.last_frame
      /\ kept.last_candidate \in {k.last_candidate, 0}
      /\ kept.candidate \in {k.candidate, NoFrame}
      /\ Len(kept.history) <= FramesPerClip
  <2>1. CASE ContinuityLost(k, f)
    <3>1. kept = LoseInput(k)
      BY <2>1 DEF Continued
    <3>2. Len(LoseInput(k).history) <= FramesPerClip
      BY <1>1, LoseInputEffect, EmptySeq
    <3> QED BY <3>1, <3>2, LoseInputEffect
  <2>2. CASE ~ContinuityLost(k, f)
    BY <2>2 DEF Continued
  <2> QED BY <2>1, <2>2
<1>3. /\ here \in CameraRecords /\ here.samples = k.samples /\ here.last_frame = k.last_frame
      /\ here.last_candidate \in {k.last_candidate, 0} /\ here.last_candidate \in Nat
      /\ here.candidate \in {k.candidate, NoFrame}
      /\ Len(here.history) <= FramesPerClip
  BY <1>1, <1>2 DEF CameraRecords
<1>4. r = IF player THEN FindPlayer(here, f)
          ELSE IF Bridgeable(here) THEN here ELSE LosePlayer(here)
  BY DEF Isolated
<1> HIDE DEF kept, here, r
<1>5. CASE player
  <2>1. r = FindPlayer(here, f)
    BY <1>4, <1>5
  <2>2. /\ r.samples = here.samples /\ r.last_frame = here.last_frame
        /\ r.last_candidate = now /\ r.candidate = f
    BY <1>3, <2>1, FindPlayerEffect
  <2> QED BY <1>3, <2>2 DEF r
<1>6. CASE ~player /\ Bridgeable(here)
  <2>1. r = here /\ isolation_now - here.last_candidate \in 0 .. DropoutHold
    BY <1>4, <1>6 DEF Bridgeable
  <2>2. isolation_now <= here.last_candidate + DropoutHold
    BY <1>3, <2>1, LimitTypes
  <2> QED BY <1>3, <2>1, <2>2 DEF r
<1>7. CASE ~player /\ ~Bridgeable(here)
  <2>1. r = LosePlayer(here)
    BY <1>4, <1>7
  <2> QED BY <1>3, <2>1, LosePlayerEffect DEF r
<1> QED BY <1>5, <1>6, <1>7

LEMMA IsolateAges ==
    ASSUME IInv, AgeInv, Isolate PROVE AgeInv'
<1> DEFINE c == Turn(todo)
           f == frames[c]
<1>1. PICK player \in BOOLEAN :
         /\ todo' = todo \ {c}
         /\ cam' = [cam EXCEPT ![c] = Isolated(cam[c], f, player)]
  BY DEF Isolate
<1>2. /\ pc = "isolate" /\ pc' = "isolate" /\ todo # {} /\ now' = now /\ config' = config
      /\ frames' = frames /\ isolation_now' = isolation_now
  BY DEF Isolate
<1>3. TypeOK /\ now \in Nat /\ todo \subseteq Cameras /\ config \in Configurations
  BY DEF IInv, TypeOK
<1>4. c \in todo /\ c \in Cameras
  BY <1>2, <1>3, TurnFacts
<1>5. isolation_now \in Nat /\ isolation_now <= now /\ c \in Processing
  BY <1>2, <1>3, <1>4 DEF IInv, LoopInv, TurnInv
<1> HIDE DEF c
<1>6. /\ cam'[c].samples = cam[c].samples /\ cam'[c].last_frame = cam[c].last_frame
      /\ cam'[c].last_candidate \in {now, cam[c].last_candidate, 0}
      /\ cam'[c].valid => \/ cam'[c].last_candidate = now
                          \/ isolation_now <= cam'[c].last_candidate + DropoutHold
  <2>1. cam'[c] = Isolated(cam[c], f, player)
    BY <1>1, <1>3, <1>4 DEF TypeOK
  <2>2. /\ cam[c] \in CameraRecords /\ Len(cam[c].history) <= FramesPerClip /\ f \in Frames
    BY <1>3, <1>4, CameraTypes
  <2> HIDE DEF f
  <2> QED BY <1>3, <1>5, <2>1, <2>2, IsolatedAge
<1>7. \A d \in Cameras : d # c => cam'[d] = cam[d]
  BY <1>1, <1>3, <1>4 DEF TypeOK
<1>8. Processing' = Processing
  BY <1>2, <1>6, <1>7, SameView
<1>9. ~Calibrating(cam)'
  <2>1. ~Calibrating(cam)
    BY <1>2 DEF IInv, LoopInv, CalibrationInv
  <2> QED BY <1>2, <1>6, <1>7, <2>1 DEF Calibrating, CalibrationFrames
<1>10. ASSUME NEW d \in Cameras
       PROVE  /\ cam'[d].last_frame <= now /\ cam'[d].last_candidate <= now
              /\ frames[d] # NoFrame \/ cam'[d].samples > 0 => cam'[d].last_frame # 0
              /\ cam'[d].last_frame <= isolation_now
              /\ cam'[d].valid =>
                    /\ d \in Processing
                    /\ ~Pending(d)' =>
                          cam'[d].last_frame <= cam'[d].last_candidate + DropoutHold
  <2>1. /\ cam[d].last_frame <= now /\ cam[d].last_candidate <= now
        /\ frames[d] # NoFrame \/ cam[d].samples > 0 => cam[d].last_frame # 0
        /\ cam[d].last_frame <= isolation_now
        /\ cam[d].valid =>
              /\ d \in Processing
              /\ ~Pending(d) => cam[d].last_frame <= cam[d].last_candidate + DropoutHold
    BY <1>2, <1>10 DEF AgeInv
  <2>2. CASE d = c
    <3>1. cam[d].last_frame \in Nat /\ cam[d].last_candidate \in Nat
      BY <1>3, <1>10, CameraTypes
    <3>2. cam'[d].last_candidate <= now
      BY <1>3, <1>6, <2>1, <2>2, <3>1
    <3>3. cam'[d].valid => cam'[d].last_frame <= cam'[d].last_candidate + DropoutHold
      <4>1. cam'[d].last_candidate \in Nat
        BY <1>3, <1>6, <2>2, <3>1
      <4> QED BY <1>3, <1>5, <1>6, <2>1, <2>2, <3>1, <4>1, LimitTypes
    <3> QED BY <1>5, <1>6, <2>1, <2>2, <3>2, <3>3
  <2>3. CASE d # c
    <3>1. cam'[d] = cam[d]
      BY <1>7, <1>10, <2>3
    <3>2. ~Pending(d)' => ~Pending(d)
      BY <1>1, <1>2, <2>3 DEF Pending
    <3> QED BY <2>1, <3>1, <3>2
  <2> QED BY <2>2, <2>3
<1> QED BY <1>2, <1>8, <1>9, <1>10 DEF AgeInv

\* The invariant of the ages, whichever step is taken.
LEMMA AgesStay ==
    ASSUME PrimaryIsKnown, IInv, AgeInv, [Next]_vars PROVE AgeInv'
<1>1. CASE UNCHANGED vars
  <2>1. /\ now' = now /\ config' = config /\ pc' = pc /\ todo' = todo /\ cam' = cam
        /\ frames' = frames /\ isolation_now' = isolation_now
    BY <1>1 DEF vars, turnVars
  <2>2. Calibrating(cam)' <=> Calibrating(cam)
    BY <2>1 DEF Calibrating, CalibrationFrames
  <2>3. \A c \in Cameras : Pending(c)' <=> Pending(c)
    BY <2>1 DEF Pending
  <2> QED BY <2>1, <2>2, <2>3, QuietAges
<1> QED BY <1>1, TickAges, ReadAges, CalibrationAges, SortAges, IsolateAges, CheckAges,
           PublishAges DEF Next

LEMMA AgesHold ==
    ASSUME PrimaryIsKnown PROVE Spec => [](IInv /\ AgeInv)
<1>1. Init => IInv /\ AgeInv
  <2> SUFFICES ASSUME Init PROVE AgeInv
    BY InitInv
  <2>1. FreshCamera.last_frame = 0 /\ FreshCamera.last_candidate = 0
        /\ FreshCamera.samples = 0 /\ ~FreshCamera.valid
    BY DEF FreshCamera
  <2>2. /\ cam = [c \in Cameras |-> FreshCamera] /\ now = 1 /\ pc = "read"
        /\ frames = [c \in Cameras |-> NoFrame]
    BY DEF Init, Start
  <2> QED BY <2>1, <2>2 DEF AgeInv
<1>2. (IInv /\ AgeInv) /\ [Next]_vars => (IInv /\ AgeInv)'
  BY NextInv, AgesStay
<1> QED BY <1>1, <1>2, PTL DEF Spec

\* What becomes part of a pose was seen within the dropout hold and the maximum input age,
\* if a switch of the primary camera cannot leave another camera's player behind: without a
\* background calibration nothing makes the old primary camera forget its player when
\* resolve_primary_camera names the other one.
THEOREM ViewsStayRecent ==
    ASSUME PrimaryIsKnown
    PROVE  Spec => ViewsAreRecent
<1>1. IInv /\ AgeInv =>
         [StartInference =>
            \A c \in Cameras : Fresh(c) /\ cam'[c].valid =>
                now - cam'[c].last_candidate <= DropoutHold + MaximumInputAge]_vars
  <2> SUFFICES ASSUME IInv, AgeInv, StartInference,
                      NEW c \in Cameras, Fresh(c), cam'[c].valid
               PROVE  now - cam'[c].last_candidate <= DropoutHold + MaximumInputAge
    OBVIOUS
  <2>1. pc = "isolate" /\ todo = {} /\ cam' = Checked
    BY DEF StartInference, CheckInput
  <2>2. cam'[c] = cam[c]
    BY <2>1, CheckedEffect DEF IInv
  <2>3. cam[c].last_frame <= cam[c].last_candidate + DropoutHold
    BY <2>1, <2>2 DEF AgeInv, Pending
  <2>4. now - cam[c].last_frame \in 0 .. MaximumInputAge
    BY DEF Fresh
  <2>5. now \in Nat /\ cam[c].last_frame \in Nat /\ cam[c].last_candidate \in Nat
    BY CameraTypes DEF IInv, TypeOK
  <2> QED BY <2>2, <2>3, <2>4, <2>5, LimitTypes
<1> QED BY <1>1, AgesHold, PTL DEF Spec, ViewsAreRecent

-----------------------------------------------------------------------------
(* How old a view of a published pose may be.                              *)

\* A candidate is a frame that was looked at, or none.
LEMMA CandidatesArePast ==
    ASSUME IInv, PoseInv, [Next]_vars, NEW c \in Cameras
    PROVE  cam'[c].candidate.time <= now'
<1>1. /\ TypeOK /\ now \in Nat /\ cam[c] \in CameraRecords /\ frames[c] \in Frames
      /\ cam[c].candidate.time \in Nat /\ cam[c].candidate.time <= now
      /\ config \in Configurations
  BY CameraTypes DEF IInv, TypeOK, PoseInv
<1>2. now' \in {now, now + 1}
  BY DEF Next, Tick, Read, CalibrationEnds, CalibrationStalls, CalibrationGoesOn, Sort,
         Isolate, NobodyReady, NothingDue, StartInference, CheckInput, Publish, vars
<1>3. CASE cam'[c].candidate \in {cam[c].candidate, NoFrame}
  BY <1>1, <1>2, <1>3, CameraFacts
<1>4. CASE Isolate
  <2>1. PICK player \in BOOLEAN :
           cam' = [cam EXCEPT ![Turn(todo)] = Isolated(@, frames[Turn(todo)], player)]
    BY <1>4 DEF Isolate
  <2>2. CASE c # Turn(todo)
    <3>1. cam'[c] = cam[c]
      BY <2>1, <2>2 DEF IInv, TypeOK
    <3> QED BY <1>3, <3>1
  <2>3. CASE c = Turn(todo)
    <3>1. /\ pc = "isolate" /\ c \in todo /\ isolation_now \in Nat /\ isolation_now <= now
          /\ frames[c].time <= isolation_now /\ frames[c].time \in Nat
          /\ Len(cam[c].history) <= FramesPerClip
      <4>1. pc = "isolate" /\ todo # {} /\ todo \subseteq Cameras
        BY <1>1, <1>4 DEF Isolate, TypeOK
      <4>2. c \in todo
        BY <2>3, <4>1, TurnFacts
      <4> QED BY <1>1, <4>1, <4>2, CameraTypes DEF IInv, LoopInv, TurnInv
    <3>2. cam'[c] = Isolated(cam[c], frames[c], player)
      BY <1>1, <2>1, <2>3 DEF TypeOK
    <3>3. cam'[c].candidate \in {frames[c], cam[c].candidate, NoFrame}
      BY <1>1, <3>1, <3>2, IsolatedAge
    <3>4. now' = now
      BY <1>4 DEF Isolate
    <3> QED BY <1>1, <1>3, <3>1, <3>3, <3>4
  <2> QED BY <2>2, <2>3
<1>5. CASE Read
  BY <1>3, <1>5, ReadEffect
<1>6. CASE CalibrationEnds \/ CalibrationStalls \/ CalibrationGoesOn
  <2>1. cam' = Sampled
    BY <1>6 DEF CalibrationEnds, CalibrationStalls, CalibrationGoesOn
  <2> QED BY <1>1, <1>3, <2>1, SampledEffect
<1>7. CASE Sort
  <2>1. cam'[c] = [cam[c] EXCEPT !.source = Stamp(frames[c])] \/ cam'[c] = cam[c]
    BY <1>7 DEF Sort
  <2> QED BY <1>1, <1>3, <2>1 DEF CameraRecords
<1>8. CASE NobodyReady \/ NothingDue \/ StartInference
  <2>1. cam'[c] = LoseInput(cam[c]) \/ cam'[c] = cam[c]
    BY <1>8 DEF NobodyReady, NothingDue, StartInference, CheckInput, Checked
  <2> QED BY <1>1, <1>3, <2>1, LoseInputEffect
<1>9. CASE Publish
  <2>1. pc = "infer" /\ cam' = Predicted
    BY <1>9 DEF Publish
  <2>2. c \in chosen => Len(cam[c].history) = FramesPerClip
    BY <2>1 DEF IInv, LoopInv, TurnInv
  <2> QED BY <1>1, <1>3, <2>1, <2>2, PredictedEffect
<1>10. CASE Tick \/ UNCHANGED vars
  BY <1>3, <1>10 DEF Tick, vars
<1> QED BY <1>4, <1>5, <1>6, <1>7, <1>8, <1>9, <1>10 DEF Next

\* The decision lets in only views that are recent; nothing is looked at until the pose is out.
LEMMA PosesStay ==
    ASSUME IInv, AgeInv, PoseInv, [Next]_vars PROVE PoseInv'
<1>1. \A c \in Cameras : cam'[c].candidate.time <= now'
  BY CandidatesArePast
<1>2. ASSUME pc' = "infer", NEW c \in Cameras, NEW d \in Cameras,
             input_fresh'[c], cam'[c].valid
      PROVE  cam'[d].candidate.time <= cam'[c].last_candidate + DropoutHold + MaximumInputAge
  <2>1. CASE StartInference
    <3>1. /\ pc = "isolate" /\ todo = {} /\ cam' = Checked /\ now' = now
          /\ input_fresh' = [k \in Cameras |-> Fresh(k)]
      BY <2>1 DEF StartInference, CheckInput
    <3>2. Fresh(c)
      BY <1>2, <3>1
    <3>3. cam'[c] = cam[c]
      BY <3>1, <3>2, CheckedEffect DEF IInv
    <3>4. cam[c].last_frame <= cam[c].last_candidate + DropoutHold
      BY <1>2, <3>1, <3>3 DEF AgeInv, Pending
    <3>5. now - cam[c].last_frame \in 0 .. MaximumInputAge
      BY <3>2 DEF Fresh
    <3>6. /\ now \in Nat /\ cam[c].last_frame \in Nat /\ cam[c].last_candidate \in Nat
      BY CameraTypes DEF IInv, TypeOK
    <3>7. cam'[d].candidate.time \in Nat /\ cam'[d].candidate.time <= now
      <4>1. cam'[d] \in CameraRecords
        BY <3>1, CheckedEffect DEF IInv
      <4> QED BY <1>1, <3>1, <4>1 DEF CameraRecords, Frames
    <3> QED BY <3>3, <3>4, <3>5, <3>6, <3>7, LimitTypes
  <2>2. CASE Tick \/ UNCHANGED vars
    <3>1. pc = "infer" /\ cam' = cam /\ input_fresh' = input_fresh
      BY <1>2, <2>2 DEF Tick, vars, turnVars
    <3> QED BY <1>2, <3>1 DEF PoseInv
  <2>3. CASE \/ Read \/ CalibrationEnds \/ CalibrationStalls \/ CalibrationGoesOn \/ Sort
             \/ Isolate \/ NobodyReady \/ NothingDue \/ Publish
    <3>1. pc' # "infer"
      BY <2>3 DEF Read, CalibrationEnds, CalibrationStalls, CalibrationGoesOn, Sort,
                  Isolate, NobodyReady, NothingDue, Publish, EndTurn
    <3> QED BY <1>2, <3>1
  <2> QED BY <2>1, <2>2, <2>3 DEF Next
<1> QED BY <1>1, <1>2 DEF PoseInv

\* No published pose counts a view as valid whose player was last seen longer before the
\* pose's own frame than the dropout hold and the maximum input age together (the freshness
\* check, the model's run and camera_valid), under the condition of ViewsStayRecent.
THEOREM StaleDepthStaysOut ==
    ASSUME PrimaryIsKnown
    PROVE  Spec => StaleDepthIsDropped
<1>1. Init => PoseInv
  <2> SUFFICES ASSUME Init PROVE PoseInv
    OBVIOUS
  <2>1. FreshCamera.candidate = NoFrame
    BY DEF FreshCamera
  <2>2. cam = [c \in Cameras |-> FreshCamera] /\ now = 1 /\ pc = "read"
    BY DEF Init, Start
  <2> QED BY <2>1, <2>2, CameraFacts DEF PoseInv
<1>2. (IInv /\ AgeInv) /\ PoseInv /\ [Next]_vars => PoseInv'
  BY PosesStay
<1>3. (IInv /\ AgeInv) /\ PoseInv /\ [Next]_vars =>
         [pc = "infer" /\ pc' = "read" =>
            \A c \in pose'.valid :
                pose'.time - cam[c].last_candidate <= DropoutHold + MaximumInputAge]_vars
  <2> SUFFICES ASSUME IInv, PoseInv, [Next]_vars, pc = "infer", pc' = "read",
                      NEW c \in pose'.valid
               PROVE  pose'.time - cam[c].last_candidate <= DropoutHold + MaximumInputAge
    OBVIOUS
  <2>1. Publish
    BY DEF Next, Tick, Read, CalibrationEnds, CalibrationStalls, CalibrationGoesOn, Sort,
           Isolate, NobodyReady, NothingDue, StartInference, CheckInput, vars
  <2>2. /\ pose'.time = NewestTime
        /\ pose'.valid = {d \in Cameras : CameraValid(d)}
    BY <2>1 DEF Publish
  <2>3. c \in Cameras /\ input_fresh[c] /\ cam[c].valid
    BY <2>2 DEF CameraValid
  <2>4. PICK d \in Cameras : NewestTime = cam[d].candidate.time
    <3> DEFINE g == [d \in Cameras |-> cam[d].candidate.time]
    <3>1. g \in [Cameras -> Nat]
      BY CameraTypes DEF IInv
    <3>2. {g[d] : d \in Processing} = {cam[d].candidate.time : d \in Processing}
      BY PrimaryFacts
    <3>3. \E d \in Processing : Max({g[k] : k \in Processing}) = g[d]
      <4> HIDE DEF g
      <4> QED BY <3>1, PrimaryFacts, MaxOfCameras
    <3> QED BY <3>2, <3>3, PrimaryFacts DEF NewestTime
  <2>5. cam[d].candidate.time <= cam[c].last_candidate + DropoutHold + MaximumInputAge
    BY <2>3 DEF PoseInv
  <2>6. cam[d].candidate.time \in Nat /\ cam[c].last_candidate \in Nat
    BY <2>3, CameraTypes DEF IInv
  <2> QED BY <2>2, <2>4, <2>5, <2>6, LimitTypes
<1> QED BY <1>1, <1>2, <1>3, AgesHold, PTL DEF Spec, StaleDepthIsDropped

=============================================================================
