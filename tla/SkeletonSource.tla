--------------------------- MODULE SkeletonSource ---------------------------
(***************************************************************************)
(* The native skeleton sources: the Kinect's worker, which follows one of  *)
(* the people its runtime tracks, and the SteamVR worker, which has one    *)
(* body made of trackers. Each publishes under a mutex the newest skeleton *)
(* or that there is none; the analysis loop reads each publication once.   *)
(*                                                                         *)
(* Moments are kept as the time that has passed since, up to the limit     *)
(* they are compared with.                                                 *)
(***************************************************************************)
EXTENDS Naturals

CONSTANTS
    People,         \* the tracking IDs of the Kinect's runtime
    Lock,           \* skeleton_lock_ms, how long the selected person may be missed
    FilterLimit,    \* 1000 ms, after which the joint filter starts anew
    StreamTimeout   \* 2000 ms, after which a publication is too old to be read

Nobody == "nobody"
Wearer == "wearer"   \* of the trackers

ASSUME SourceAssumption ==
    /\ Lock \in Nat /\ FilterLimit \in Nat /\ StreamTimeout \in Nat
    /\ Nobody \notin People /\ Wearer \notin People

VARIABLES
    selected,      \* activeTrackingId
    selectedAge,   \* since activeTrackingTick
    filter,        \* jointFilterTrackingId while jointFilterReady
    filterAge,     \* since jointFilterTick
    skeleton,      \* skel: whose it is
    smoothed,      \* the skeleton rests on the filter's joints and bones
    skeletonAge,   \* since skelTick
    stamped,       \* skelTick is that of skel
    unread,        \* skGeneration differs from the reader's
    last,          \* the last person published (history)
    lastAge        \* since a frame tracked that person (history)

selection == <<selected, selectedAge>>
sourceVars == <<selection, filter, filterAge, skeleton, smoothed, skeletonAge, stamped, unread,
                last, lastAge>>

SourceInit ==
    /\ selected = Nobody
    /\ selectedAge = 0
    /\ filter = Nobody
    /\ filterAge = 0
    /\ skeleton = Nobody
    /\ smoothed = FALSE
    /\ skeletonAge = StreamTimeout + 1   \* skelTick is 0
    /\ stamped = TRUE
    /\ unread = FALSE
    /\ last = Nobody
    /\ lastAge = 0

UpTo(limit, age) == IF age < limit THEN age + 1 ELSE limit

SourceTick ==
    /\ selectedAge' = UpTo(Lock, selectedAge)
    /\ filterAge' = UpTo(FilterLimit + 1, filterAge)
    /\ skeletonAge' = UpTo(StreamTimeout + 1, skeletonAge)
    /\ lastAge' = UpTo(Lock + FilterLimit + 1, lastAge)
    /\ UNCHANGED <<selected, filter, skeleton, smoothed, stamped, unread, last>>

-----------------------------------------------------------------------------
(* The Kinect.                                                             *)

\* Variant: the best skeleton of every frame is taken.
Unlocked == FALSE

\* select_skeleton: someone else is not selected while the lock holds.
Locked == selected # Nobody /\ selectedAge < Lock

Select(tracked, who) ==
    IF selected \in tracked THEN who = selected
    ELSE IF Locked \/ tracked = {} THEN who = Nobody
    ELSE who \in tracked   \* the best score

\* stabilize_skeleton, or reset_joint_filter
Filtered(who) == filter = who /\ filterAge <= FilterLimit

\* Variant: only a body is published.
PublishBody(who) ==
    /\ stamped
    /\ IF who = Nobody THEN UNCHANGED <<skeleton, stamped, unread>>
       ELSE /\ skeleton' = who
            /\ stamped' = FALSE
            /\ unread' = TRUE
    /\ UNCHANGED skeletonAge

\* The worker publishes under the mutex,
Publish(who) ==
    /\ stamped
    /\ skeleton' = who
    /\ stamped' = FALSE
    /\ unread' = TRUE
    /\ UNCHANGED skeletonAge

\* and stores skelTick when it has released it; a reader in between sees the last one.
StampSkeleton ==
    /\ ~stamped
    /\ stamped' = TRUE
    /\ skeletonAge' = 0
    /\ UNCHANGED <<selection, filter, filterAge, skeleton, smoothed, unread, last, lastAge>>

\* on_skeleton_frame
SkeletonFrame(tracked) ==
    \E who \in tracked \cup {Nobody} :
        /\ Select(tracked, who)
        /\ IF who # Nobody
           THEN /\ selected' = who
                /\ selectedAge' = 0
                /\ smoothed' = Filtered(who)
                /\ filter' = who
                /\ filterAge' = 0
                /\ last' = who
                /\ lastAge' = 0
           ELSE /\ selected' = IF Locked THEN selected ELSE Nobody
                /\ filter' = IF Locked THEN filter ELSE Nobody
                /\ smoothed' = FALSE
                /\ lastAge' = IF last \in tracked THEN 0 ELSE lastAge
                /\ UNCHANGED <<selectedAge, filterAge, last>>
        /\ Publish(who)

-----------------------------------------------------------------------------
(* SteamVR.                                                                *)

TrackerFrame(who) ==
    /\ Publish(who)
    /\ smoothed' = FALSE
    /\ UNCHANGED <<selection, filter, filterAge, last, lastAge>>

-----------------------------------------------------------------------------
(* wait_for_skeleton                                                       *)

\* A publication is read; the caller waits on when it is too old.
ReadSkeleton(who) ==
    /\ unread
    /\ skeletonAge <= StreamTimeout
    /\ who = skeleton
    /\ unread' = FALSE

SkipSkeleton ==
    /\ unread
    /\ skeletonAge > StreamTimeout
    /\ unread' = FALSE

exceptUnread == <<selection, filter, filterAge, skeleton, smoothed, skeletonAge, stamped, last,
                  lastAge>>

SourceTypeOK ==
    /\ selected \in People \cup {Nobody}
    /\ filter \in People \cup {Nobody}
    /\ last \in People \cup {Nobody}
    /\ skeleton \in People \cup {Nobody, Wearer}
    /\ selectedAge \in 0..Lock /\ filterAge \in 0..FilterLimit + 1
    /\ skeletonAge \in 0..StreamTimeout + 1 /\ lastAge \in 0..Lock + FilterLimit + 1
    /\ smoothed \in BOOLEAN /\ stamped \in BOOLEAN /\ unread \in BOOLEAN

(***************************************************************************)
(* The performer is one person: someone else's skeleton is published only  *)
(* after no frame has tracked the last one for the lock's time, and the    *)
(* joints and bones a skeleton is smoothed with are its own, from a frame  *)
(* at most FilterLimit ago.                                                *)
(***************************************************************************)
PerformerIsOnePerson ==
    [][skeleton' \in People /\ stamped /\ ~stamped' =>
          /\ skeleton' # last => last = Nobody \/ lastAge >= Lock
          /\ smoothed' => skeleton' = last /\ lastAge <= FilterLimit]_sourceVars

=============================================================================
