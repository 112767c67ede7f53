---------------------------- MODULE BridgeFrames ----------------------------
(***************************************************************************)
(* The virtual color frames of the native D4xx bridge: g_frame_buffers     *)
(* maps the address of an infrared frame to its pixels as BGR24.           *)
(*                                                                         *)
(* librealsense gives a frame's address to a later frame once the last     *)
(* reference to it is gone; use[f] numbers the frames at the address f.    *)
(* The wrapper may copy a reference: rs2_frame_add_ref is not intercepted. *)
(* A thread works on a frame it has a reference to, in the steps           *)
(*   lookup -> convert -> insert     bridge_get_frame_data                 *)
(*   erase -> release                bridge_release_frame                  *)
(* or calls librealsense directly for what is not intercepted: of the      *)
(* imports, those up to rs2_get_frame_data, that one and those after it,   *)
(* and rs2_release_frame are replaced in this order or not at all.         *)
(***************************************************************************)
EXTENDS Naturals, FiniteSets

CONSTANTS
    Threads,     \* the wrapper's threads
    Frames,      \* addresses of infrared frames
    MaxUse,      \* bound: frames that come by at one address
    MaxRefs      \* bound: references of one thread to one frame

ASSUME FrameBounds == Frames # {} /\ MaxUse \in Nat \ {0} /\ MaxRefs \in Nat \ {0}

VARIABLES
    imports,     \* the librealsense imports of the wrapper that lead to the bridge
    use,         \* use[f]: the frame at the address f
    refs,        \* refs[t][f]: references t has to it
    buffers,     \* g_frame_buffers: address -> frame its pixels are of
    work,        \* work[t]: the step and the frame t is at, and the frame converted
    pixels       \* pixels[t][f]: the frame that the data t got for f are of, or 0

\* What patch_realsense_imports has replaced when it ends, or fails before it does.
Intercepted == {"streams", "data", "release"}
Replaced == {{}, {"streams"}, {"streams", "data"}, Intercepted}

frameVars == <<use, refs, buffers, work, pixels>>

Idle == [step |-> "idle", frame |-> CHOOSE f \in Frames : TRUE, of |-> 0]

FramesInit ==
    /\ imports = {}
    /\ use = [f \in Frames |-> 0]
    /\ refs = [t \in Threads |-> [f \in Frames |-> 0]]
    /\ buffers = [f \in {} |-> 0]
    /\ work = [t \in Threads |-> Idle]
    /\ pixels = [t \in Threads |-> [f \in Frames |-> 0]]

Free(f) == \A t \in Threads : refs[t][f] = 0

Go(t, step, f, of) == work' = [work EXCEPT ![t] = [step |-> step, frame |-> f, of |-> of]]

Got(t, f, of) ==
    /\ pixels' = [pixels EXCEPT ![t][f] = of]
    /\ work' = [work EXCEPT ![t] = Idle]

\* A frame arrives, at an address that is free.
Arrive(t, f) ==
    /\ work[t].step = "idle"
    /\ Free(f)
    /\ use[f] < MaxUse
    /\ use' = [use EXCEPT ![f] = @ + 1]
    /\ refs' = [refs EXCEPT ![t][f] = 1]
    /\ UNCHANGED <<buffers, work, pixels>>

\* t copies a reference for itself or for another thread.
AddRef(t, u, f) ==
    /\ work[t].step = "idle"
    /\ refs[t][f] > 0
    /\ refs[u][f] < MaxRefs
    /\ refs' = [refs EXCEPT ![u][f] = @ + 1]
    /\ UNCHANGED <<use, buffers, work, pixels>>

-----------------------------------------------------------------------------
(* rs2_get_frame_data or bridge_get_frame_data                             *)

\* The frame's own data, from librealsense.
GetDirectly(t, f) ==
    /\ "data" \notin imports
    /\ work[t].step = "idle"
    /\ refs[t][f] > 0
    /\ Got(t, f, use[f])
    /\ UNCHANGED <<use, refs, buffers>>

FindBuffer(t, f) ==
    /\ "data" \in imports
    /\ work[t].step = "idle"
    /\ refs[t][f] > 0
    /\ f \in DOMAIN buffers
    /\ Got(t, f, buffers[f])
    /\ UNCHANGED <<use, refs, buffers>>

FindNoBuffer(t, f) ==
    /\ "data" \in imports
    /\ work[t].step = "idle"
    /\ refs[t][f] > 0
    /\ f \notin DOMAIN buffers
    /\ Go(t, "convert", f, 0)
    /\ UNCHANGED <<use, refs, buffers, pixels>>

\* The infrared image is read and converted, under no lock.
Convert(t, f) ==
    /\ work[t].step = "convert" /\ work[t].frame = f
    /\ Go(t, "insert", f, use[f])
    /\ UNCHANGED <<use, refs, buffers, pixels>>

\* The image cannot be read or has an impossible size: no data.
ConvertFails(t, f) ==
    /\ work[t].step = "convert" /\ work[t].frame = f
    /\ work' = [work EXCEPT ![t] = Idle]
    /\ UNCHANGED <<use, refs, buffers, pixels>>

\* emplace: a buffer that another thread inserted in the meantime stays.
Insert(t, f) ==
    /\ work[t].step = "insert" /\ work[t].frame = f
    /\ buffers' = [g \in DOMAIN buffers \union {f} |->
                      IF g \in DOMAIN buffers THEN buffers[g] ELSE work[t].of]
    /\ Got(t, f, buffers'[f])
    /\ UNCHANGED <<use, refs>>

-----------------------------------------------------------------------------
(* rs2_release_frame or bridge_release_frame                               *)

\* The buffers of the frames in F are destroyed.
Erase(F) ==
    buffers' = [g \in DOMAIN buffers \ F |-> buffers[g]]

\* Variant: the map is not told of the release.
EraseNothing(t, f) ==
    /\ "release" \in imports
    /\ work[t].step = "idle"
    /\ refs[t][f] > 0
    /\ Go(t, "release", f, 0)
    /\ UNCHANGED <<use, refs, buffers, pixels>>

EraseBuffer(t, f) ==
    /\ "release" \in imports
    /\ work[t].step = "idle"
    /\ refs[t][f] > 0
    /\ Erase({f})
    /\ Go(t, "release", f, 0)
    /\ UNCHANGED <<use, refs, pixels>>

\* With its last reference the thread lets go of the data.
Drop(t, f) ==
    /\ refs' = [refs EXCEPT ![t][f] = @ - 1]
    /\ pixels' = IF refs[t][f] = 1 THEN [pixels EXCEPT ![t][f] = 0] ELSE pixels
    /\ work' = [work EXCEPT ![t] = Idle]
    /\ UNCHANGED <<use, buffers>>

ReleaseFrame(t, f) ==
    /\ work[t].step = "release" /\ work[t].frame = f
    /\ Drop(t, f)

\* librealsense knows nothing of the buffers.
ReleaseDirectly(t, f) ==
    /\ "release" \notin imports
    /\ work[t].step = "idle"
    /\ refs[t][f] > 0
    /\ Drop(t, f)

FrameStep(t, f) ==
    \/ Arrive(t, f) \/ \E u \in Threads : AddRef(t, u, f)
    \/ GetDirectly(t, f) \/ FindBuffer(t, f) \/ FindNoBuffer(t, f)
    \/ Convert(t, f) \/ ConvertFails(t, f) \/ Insert(t, f)
    \/ EraseBuffer(t, f) \/ ReleaseFrame(t, f) \/ ReleaseDirectly(t, f)

-----------------------------------------------------------------------------
FramesTypeOK ==
    /\ imports \in Replaced
    /\ use \in [Frames -> 0..MaxUse]
    /\ refs \in [Threads -> [Frames -> 0..MaxRefs]]
    /\ DOMAIN buffers \subseteq Frames
    /\ \A f \in DOMAIN buffers : buffers[f] \in 1..MaxUse
    /\ work \in [Threads -> [step : {"idle", "convert", "insert", "release"},
                             frame : Frames, of : 0..MaxUse]]
    /\ pixels \in [Threads -> [Frames -> 0..MaxUse]]

(***************************************************************************)
(* The data a thread has are of the frame it asked for. Not so in a        *)
(* wrapper whose rs2_get_frame_data is replaced and whose                  *)
(* rs2_release_frame is not: there an image stays for the next frame.      *)
(***************************************************************************)
DataAreOfTheirFrame ==
    \A t \in Threads, f \in Frames : pixels[t][f] \in {0, use[f]}

(***************************************************************************)
(* An address librealsense uses again never meets the image of the frame   *)
(* that had it before: a buffer is of the frame now at its address, and    *)
(* goes with the last reference to it, whatever threads convert, insert,   *)
(* erase and release at the same time. Except where the takeover failed    *)
(* between the imports of rs2_get_frame_data and rs2_release_frame.        *)
(***************************************************************************)
NoStaleImage ==
    ("data" \in imports => "release" \in imports) =>
        /\ \A f \in DOMAIN buffers : ~Free(f) /\ buffers[f] = use[f]
        /\ DataAreOfTheirFrame

=============================================================================
