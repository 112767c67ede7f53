------------------------- MODULE NativeBridgeProofs -------------------------
(***************************************************************************)
(* Proofs about NativeBridge and BridgeFrames, for any number of modules,  *)
(* threads and frame addresses.                                            *)
(***************************************************************************)
EXTENDS NativeBridge, TLAPS

-----------------------------------------------------------------------------
(* The virtual frames.                                                     *)

\* t has announced that it drops one of its references to f.
Dropping(t, f) == work[t].step = "release" /\ work[t].frame = f

\* t has a reference to f that it will not drop without erasing the buffer again.
Keeps(t, f) == refs[t][f] > IF Dropping(t, f) THEN 1 ELSE 0

\* A thread works on a frame it has a reference to, and has converted that frame.
WorkInv ==
    /\ \A t \in Threads :
          /\ work[t].step # "idle" => refs[t][work[t].frame] > 0
          /\ work[t].step = "insert" => work[t].of = use[work[t].frame]
    /\ \A t \in Threads, f \in Frames : refs[t][f] > 0 => use[f] > 0

\* A buffer is of the frame at its address, and somebody keeps that frame.
BufferInv ==
    \A f \in DOMAIN buffers : buffers[f] = use[f] /\ \E t \in Threads : Keeps(t, f)

\* Data in use is of the frame the thread has a reference to.
PixelsInv ==
    \A t \in Threads, f \in Frames :
        pixels[t][f] = 0 \/ (pixels[t][f] = use[f] /\ refs[t][f] > 0)

\* The bridge learns of the release of every frame that it converts.
Covered == "data" \in imports => "release" \in imports

\* Until rs2_get_frame_data is replaced the bridge has nothing to do with the frames.
UntouchedInv ==
    "data" \notin imports =>
        DOMAIN buffers = {} /\ \A t \in Threads : work[t].step = "idle"

FramesInv ==
    /\ FramesTypeOK
    /\ WorkInv
    /\ UntouchedInv
    /\ Covered => BufferInv /\ PixelsInv

-----------------------------------------------------------------------------
(* The takeover.                                                           *)

\* Before the wrapper is seen nothing has changed; once it is patched, everything has,
\* until the bridge goes.
TakeoverInv ==
    /\ state = "waiting" => bound = "none" /\ imports = {} /\ export = "wrapper"
    /\ state = "patched" /\ entry # "destroyed" =>
          genuine /\ bound = "wrapper" /\ imports = Intercepted /\ export = "bridge"
    /\ bound # "none" => bound = "wrapper" /\ mapped
    /\ entry = "ready" => state = "patched"

\* Only a module that loaded the wrapper itself gets the full table, and no longer
\* when the wrapper is patched.
TableInv ==
    /\ \A m \in Modules : handle[m] = "wrapper" => mapped \/ entry = "destroyed"
    /\ \A m \in Modules :
          table[m] = "full" /\ realtimeOnly => handle[m] = "wrapper" /\ state # "patched"

LinkInv == TypeOK /\ TakeoverInv /\ TableInv

-----------------------------------------------------------------------------
(* Steps of the frames.                                                    *)

USE FrameBounds, ModuleAssumption DEF frameVars, setupVars, linkVars, gameVars

LEMMA IdleType ==
    /\ Idle \in [step : {"idle", "convert", "insert", "release"}, frame : Frames,
                 of : 0..MaxUse]
    /\ Idle.step = "idle"
BY DEF Idle

LEMMA InitFrames == FramesInit => FramesInv
<1> SUFFICES ASSUME FramesInit PROVE FramesInv
  OBVIOUS
<1>1. DOMAIN buffers = {}
  BY DEF FramesInit
<1>2. FramesTypeOK
  BY <1>1, IdleType DEF FramesInit, FramesTypeOK, Replaced
<1> QED BY <1>1, <1>2, IdleType DEF FramesInit, FramesInv, WorkInv, UntouchedInv,
        BufferInv, PixelsInv

\* A step that drops no reference and erases no buffer loses no keeper.
LEMMA KeptBuffers ==
    ASSUME BufferInv, NEW g \in DOMAIN buffers, use'[g] = use[g],
           \A u \in Threads : Keeps(u, g) => Keeps(u, g)'
    PROVE  buffers[g] = use'[g] /\ \E u \in Threads : Keeps(u, g)'
BY DEF BufferInv

LEMMA ArriveTurn ==
    ASSUME FramesInv, NEW t \in Threads, NEW f \in Frames, Arrive(t, f), UNCHANGED imports
    PROVE  FramesInv'
<1> USE DEF FramesInv, FramesTypeOK
<1>1. /\ work[t].step = "idle" /\ \A u \in Threads : refs[u][f] = 0
      /\ use[f] < MaxUse
      /\ use' = [use EXCEPT ![f] = @ + 1]
      /\ refs' = [refs EXCEPT ![t][f] = 1]
      /\ UNCHANGED <<buffers, work, pixels>>
  BY DEF Arrive, Free
<1>2. \A u \in Threads : work[u].step # "idle" => work[u].frame # f
  BY <1>1 DEF WorkInv
<1>3. FramesTypeOK'
  BY <1>1
<1>4. WorkInv'
  BY <1>1, <1>2, <1>3 DEF WorkInv
<1>5. UntouchedInv'
  BY <1>1 DEF UntouchedInv
<1>6. ASSUME Covered PROVE BufferInv' /\ PixelsInv'
  <2>1. BufferInv /\ PixelsInv
    BY <1>6
  <2>2. f \notin DOMAIN buffers
    <3>1. \A u \in Threads : ~Keeps(u, f)
      BY <1>1 DEF Keeps
    <3> QED BY <2>1, <3>1 DEF BufferInv
  <2>3. ASSUME NEW g \in DOMAIN buffers
        PROVE  buffers[g] = use'[g] /\ \E u \in Threads : Keeps(u, g)'
    <3>1. g # f /\ g \in Frames
      BY <2>2
    <3>2. use'[g] = use[g] /\ \A u \in Threads : Keeps(u, g)' <=> Keeps(u, g)
      BY <1>1, <3>1 DEF Keeps, Dropping
    <3> QED BY <2>1, <3>2, KeptBuffers
  <2>4. PixelsInv'
    BY <1>1, <2>1 DEF PixelsInv
  <2> QED BY <1>1, <2>3, <2>4 DEF BufferInv
<1> QED BY <1>3, <1>4, <1>5, <1>6 DEF Covered

LEMMA AddRefTurn ==
    ASSUME FramesInv, NEW t \in Threads, NEW u \in Threads, NEW f \in Frames,
           AddRef(t, u, f), UNCHANGED imports
    PROVE  FramesInv'
<1> USE DEF FramesInv, FramesTypeOK
<1>1. /\ refs[t][f] > 0 /\ refs[u][f] < MaxRefs
      /\ refs' = [refs EXCEPT ![u][f] = @ + 1]
      /\ UNCHANGED <<use, buffers, work, pixels>>
  BY DEF AddRef
<1>2. \A v \in Threads, g \in Frames : refs'[v][g] \in 0..MaxRefs /\ refs'[v][g] >= refs[v][g]
  BY <1>1
<1>3. FramesTypeOK'
  BY <1>1
<1>4. WorkInv'
  <2>1. use[f] > 0
    BY <1>1 DEF WorkInv
  <2> QED BY <1>1, <1>2, <2>1 DEF WorkInv
<1>5. UntouchedInv'
  BY <1>1 DEF UntouchedInv
<1>6. ASSUME Covered PROVE BufferInv' /\ PixelsInv'
  <2>1. BufferInv /\ PixelsInv
    BY <1>6
  <2>2. ASSUME NEW g \in DOMAIN buffers
        PROVE  buffers[g] = use'[g] /\ \E v \in Threads : Keeps(v, g)'
    <3>1. \A v \in Threads : Keeps(v, g) => Keeps(v, g)'
      BY <1>1, <1>2 DEF Keeps, Dropping
    <3> QED BY <1>1, <2>1, <3>1, KeptBuffers
  <2>3. PixelsInv'
    BY <1>1, <1>2, <2>1 DEF PixelsInv
  <2> QED BY <1>1, <2>2, <2>3 DEF BufferInv
<1> QED BY <1>3, <1>4, <1>5, <1>6 DEF Covered

\* What librealsense or the map answers is of the frame that the thread has.
LEMMA DataTurn ==
    ASSUME FramesInv, NEW t \in Threads, NEW f \in Frames, UNCHANGED imports,
           GetDirectly(t, f) \/ FindBuffer(t, f)
    PROVE  FramesInv'
<1> USE IdleType DEF FramesInv, FramesTypeOK
<1>1. PICK of \in 1..MaxUse :
        /\ work[t].step = "idle" /\ refs[t][f] > 0
        /\ pixels' = [pixels EXCEPT ![t][f] = of]
        /\ work' = [work EXCEPT ![t] = Idle]
        /\ UNCHANGED <<use, refs, buffers>>
        /\ Covered => of = use[f]
  <2>1. CASE GetDirectly(t, f)
    <3>1. use[f] \in 1..MaxUse
      BY <2>1 DEF GetDirectly, WorkInv
    <3> QED BY <2>1, <3>1 DEF GetDirectly, Got
  <2>2. CASE FindBuffer(t, f)
    BY <2>2 DEF FindBuffer, Got, BufferInv
  <2> QED BY <2>1, <2>2
<1>2. FramesTypeOK' /\ WorkInv'
  BY <1>1 DEF WorkInv
<1>3. UntouchedInv'
  BY <1>1 DEF UntouchedInv
<1>4. ASSUME Covered PROVE BufferInv' /\ PixelsInv'
  <2>1. BufferInv /\ PixelsInv
    BY <1>4
  <2>2. BufferInv'
    BY <1>1, <2>1 DEF BufferInv, Keeps, Dropping
  <2>3. PixelsInv'
    BY <1>1, <1>4, <2>1 DEF PixelsInv
  <2> QED BY <2>2, <2>3
<1> QED BY <1>2, <1>3, <1>4 DEF Covered

\* A thread that converts only changes where it is; it keeps its reference.
LEMMA ConvertTurn ==
    ASSUME FramesInv, NEW t \in Threads, NEW f \in Frames, UNCHANGED imports,
           FindNoBuffer(t, f) \/ Convert(t, f) \/ ConvertFails(t, f)
    PROVE  FramesInv'
<1> USE IdleType DEF FramesInv, FramesTypeOK
<1>1. /\ UNCHANGED <<use, refs, buffers, pixels>>
      /\ "data" \in imports
      /\ \E w \in [step : {"idle", "convert", "insert"}, frame : Frames, of : 0..MaxUse] :
            /\ work' = [work EXCEPT ![t] = w]
            /\ w.step # "idle" => refs[t][w.frame] > 0
            /\ w.step = "insert" => w.of = use[w.frame]
  <2>1. CASE FindNoBuffer(t, f)
    <3> DEFINE w == [step |-> "convert", frame |-> f, of |-> 0]
    <3>1. work' = [work EXCEPT ![t] = w] /\ refs[t][f] > 0 /\ "data" \in imports
          /\ UNCHANGED <<use, refs, buffers, pixels>>
      BY <2>1 DEF FindNoBuffer, Go
    <3>2. w \in [step : {"idle", "convert", "insert"}, frame : Frames, of : 0..MaxUse]
      OBVIOUS
    <3> QED BY <3>1, <3>2
  <2>2. CASE Convert(t, f)
    <3> DEFINE w == [step |-> "insert", frame |-> f, of |-> use[f]]
    <3>1. work' = [work EXCEPT ![t] = w] /\ work[t].step = "convert" /\ work[t].frame = f
          /\ UNCHANGED <<use, refs, buffers, pixels>>
      BY <2>2 DEF Convert, Go
    <3>2. refs[t][f] > 0 /\ "data" \in imports
      BY <3>1 DEF WorkInv, UntouchedInv
    <3>3. w \in [step : {"idle", "convert", "insert"}, frame : Frames, of : 0..MaxUse]
      OBVIOUS
    <3> QED BY <3>1, <3>2, <3>3
  <2>3. CASE ConvertFails(t, f)
    BY <2>3 DEF ConvertFails, Idle, UntouchedInv
  <2> QED BY <2>1, <2>2, <2>3
<1>2. FramesTypeOK'
  BY <1>1
<1>3. WorkInv'
  BY <1>1 DEF WorkInv
<1>4. UntouchedInv'
  BY <1>1 DEF UntouchedInv
<1>5. \A u \in Threads, g \in Frames : Keeps(u, g) => Keeps(u, g)'
  BY <1>1 DEF Keeps, Dropping
<1>6. Covered => BufferInv' /\ PixelsInv'
  BY <1>1, <1>5 DEF BufferInv, PixelsInv
<1> QED BY <1>2, <1>3, <1>4, <1>6 DEF Covered

\* What is inserted was converted from the frame that the thread still has.
LEMMA InsertTurn ==
    ASSUME FramesInv, NEW t \in Threads, NEW f \in Frames, Insert(t, f), UNCHANGED imports
    PROVE  FramesInv'
<1> USE IdleType DEF FramesInv, FramesTypeOK
<1>1. /\ work[t].step = "insert" /\ work[t].frame = f
      /\ buffers' = [g \in DOMAIN buffers \union {f} |->
                        IF g \in DOMAIN buffers THEN buffers[g] ELSE work[t].of]
      /\ pixels' = [pixels EXCEPT ![t][f] = buffers'[f]]
      /\ work' = [work EXCEPT ![t] = Idle]
      /\ UNCHANGED <<use, refs>>
  BY DEF Insert, Got
<1>2. refs[t][f] > 0 /\ work[t].of = use[f] /\ use[f] \in 1..MaxUse
  BY <1>1 DEF WorkInv
<1>3. /\ DOMAIN buffers' = DOMAIN buffers \union {f}
      /\ \A g \in DOMAIN buffers : buffers'[g] = buffers[g]
      /\ f \notin DOMAIN buffers => buffers'[f] = use[f]
  BY <1>1, <1>2
<1>4. FramesTypeOK'
  BY <1>1, <1>2, <1>3
<1>5. WorkInv'
  BY <1>1 DEF WorkInv
<1>6. UntouchedInv'
  BY <1>1 DEF UntouchedInv
<1>7. ASSUME Covered PROVE BufferInv' /\ PixelsInv'
  <2>1. BufferInv /\ PixelsInv
    BY <1>7
  <2>2. buffers'[f] = use[f]
    BY <1>3, <2>1 DEF BufferInv
  <2>3. \A u \in Threads, g \in Frames : Dropping(u, g)' => Dropping(u, g)
    BY <1>1 DEF Dropping
  <2>4. \A u \in Threads, g \in Frames : Keeps(u, g) => Keeps(u, g)'
    BY <1>1, <2>3 DEF Keeps
  <2>5. Keeps(t, f)'
    BY <1>1, <1>2 DEF Keeps, Dropping
  <2>6. BufferInv'
    BY <1>1, <1>3, <2>1, <2>2, <2>4, <2>5 DEF BufferInv
  <2>7. PixelsInv'
    BY <1>1, <1>2, <2>1, <2>2 DEF PixelsInv
  <2> QED BY <2>6, <2>7
<1> QED BY <1>4, <1>5, <1>6, <1>7 DEF Covered

\* bridge_release_frame: the buffer goes before the reference.
LEMMA EraseTurn ==
    ASSUME FramesInv, NEW t \in Threads, NEW f \in Frames, EraseBuffer(t, f),
           UNCHANGED imports
    PROVE  FramesInv'
<1> USE DEF FramesInv, FramesTypeOK
<1>1. /\ "release" \in imports /\ refs[t][f] > 0
      /\ work' = [work EXCEPT ![t] = [step |-> "release", frame |-> f, of |-> 0]]
      /\ UNCHANGED <<use, refs, pixels>>
  BY DEF EraseBuffer, Go
<1>2. /\ DOMAIN buffers' = DOMAIN buffers \ {f}
      /\ \A g \in DOMAIN buffers' : buffers'[g] = buffers[g]
  BY DEF EraseBuffer, Erase
<1>3. FramesTypeOK'
  BY <1>1, <1>2
<1>4. WorkInv'
  BY <1>1 DEF WorkInv
<1>5. UntouchedInv'
  BY <1>1 DEF UntouchedInv, Replaced, Intercepted
<1>6. ASSUME Covered PROVE BufferInv' /\ PixelsInv'
  <2>1. BufferInv /\ PixelsInv
    BY <1>6
  <2>2. \A u \in Threads, g \in Frames : g # f /\ Keeps(u, g) => Keeps(u, g)'
    BY <1>1 DEF Keeps, Dropping
  <2>3. BufferInv'
    BY <1>1, <1>2, <2>1, <2>2 DEF BufferInv
  <2>4. PixelsInv'
    BY <1>1, <2>1 DEF PixelsInv
  <2> QED BY <2>3, <2>4
<1> QED BY <1>3, <1>4, <1>5, <1>6 DEF Covered

\* A reference goes that was announced, or that no buffer of the bridge depends on.
LEMMA ReleaseTurn ==
    ASSUME FramesInv, NEW t \in Threads, NEW f \in Frames, UNCHANGED imports,
           ReleaseFrame(t, f) \/ ReleaseDirectly(t, f)
    PROVE  FramesInv'
<1> USE IdleType DEF FramesInv, FramesTypeOK
<1>1. /\ refs[t][f] > 0
      /\ refs' = [refs EXCEPT ![t][f] = @ - 1]
      /\ pixels' = IF refs[t][f] = 1 THEN [pixels EXCEPT ![t][f] = 0] ELSE pixels
      /\ work' = [work EXCEPT ![t] = Idle]
      /\ UNCHANGED <<use, buffers>>
      /\ Dropping(t, f) \/ "release" \notin imports
      /\ work[t].step = "idle" \/ work[t].frame = f
  BY DEF ReleaseFrame, ReleaseDirectly, Drop, WorkInv, Dropping
<1>2. refs[t][f] - 1 \in 0..MaxRefs
  BY <1>1
<1>3. FramesTypeOK'
  BY <1>1, <1>2
<1>4. WorkInv'
  BY <1>1 DEF WorkInv
<1>5. UntouchedInv'
  BY <1>1 DEF UntouchedInv
<1>6. ASSUME Covered PROVE BufferInv' /\ PixelsInv'
  <2>1. BufferInv /\ PixelsInv
    BY <1>6
  <2>2. BufferInv'
    <3>1. CASE Dropping(t, f)
      <4>1. \A u \in Threads, g \in Frames : Keeps(u, g) => Keeps(u, g)'
        BY <1>1, <1>2, <3>1 DEF Keeps, Dropping
      <4> QED BY <1>1, <2>1, <4>1 DEF BufferInv
    <3>2. CASE "release" \notin imports
      <4>1. DOMAIN buffers = {}
        BY <1>6, <3>2 DEF Covered, UntouchedInv
      <4> QED BY <1>1, <4>1 DEF BufferInv
    <3> QED BY <1>1, <3>1, <3>2
  <2>3. PixelsInv'
    BY <1>1, <1>2, <2>1 DEF PixelsInv
  <2> QED BY <2>2, <2>3
<1> QED BY <1>3, <1>4, <1>5, <1>6 DEF Covered

LEMMA FramesTurn ==
    ASSUME FramesInv, NEW t \in Threads, NEW f \in Frames, FrameStep(t, f), UNCHANGED imports
    PROVE  FramesInv'
BY ArriveTurn, AddRefTurn, DataTurn, ConvertTurn, InsertTurn, EraseTurn, ReleaseTurn
   DEF FrameStep

\* A takeover that begins when no import is replaced changes nothing of the frames, and
\* they fit whatever it has replaced in the end.
LEMMA ImportsTurn ==
    ASSUME FramesInv, UNCHANGED frameVars, imports' \in Replaced, imports' = imports \/ imports = {}
    PROVE  FramesInv'
<1> USE DEF FramesInv, FramesTypeOK
<1>1. FramesTypeOK' /\ WorkInv'
  BY DEF WorkInv
<1>2. CASE imports' = imports
  BY <1>1, <1>2 DEF UntouchedInv, Covered, BufferInv, PixelsInv, Keeps, Dropping
<1>3. CASE imports = {}
  <2>1. DOMAIN buffers = {} /\ PixelsInv /\ UntouchedInv'
    BY <1>3 DEF UntouchedInv, Covered
  <2> QED BY <1>1, <2>1 DEF BufferInv, PixelsInv
<1> QED BY <1>2, <1>3

-----------------------------------------------------------------------------
(* Steps of the takeover.                                                  *)

\* The bridge is notified when the wrapper is mapped, before anybody has its table.
LEMMA MapTurn ==
    ASSUME LinkInv, FramesInv, entry # "destroyed", Map,
           UNCHANGED <<frameVars, setupVars, table, loaded, hooked, aliased>>,
           entry' \in {entry, "check"},
           handle' \in [Modules -> {"none", "wrapper", "bridge"}],
           \A m \in Modules : handle[m] # "none" => handle'[m] = handle[m]
    PROVE  LinkInv' /\ FramesInv'
<1> USE DEF LinkInv, TypeOK, TakeoverInv, TableInv
<1>1. CASE UNCHANGED <<state, bound, imports, export>>
  <2>1. FramesInv' /\ FramesTypeOK'
    BY <1>1, ImportsTurn DEF FramesInv, FramesTypeOK
  <2> QED BY <1>1, <2>1 DEF Map
<1>2. CASE ~mapped /\ Observing /\ state = "waiting" /\ genuine /\ TakeOver
  <2>1. imports = {} /\ imports' \in Replaced
    BY <1>2 DEF TakeOver, ReplaceImports, Replaced
  <2>2. FramesInv' /\ FramesTypeOK'
    BY <2>1, ImportsTurn DEF FramesInv
  <2> QED BY <1>2, <2>2 DEF Map, TakeOver, BindOriginal, ReplaceImports, RedirectExport
<1>3. CASE ~mapped /\ Observing /\ state = "waiting" /\ Reject
  <2>1. FramesInv' /\ FramesTypeOK'
    BY <1>3, ImportsTurn DEF FramesInv, FramesTypeOK, Reject
  <2> QED BY <1>3, <2>1 DEF Map, Reject
<1> QED BY <1>1, <1>2, <1>3 DEF Map

\* DllMain, the entry point and destroy_callback.
LEMMA EntryTurn ==
    ASSUME LinkInv, FramesInv, Entry
    PROVE  LinkInv' /\ FramesInv'
<1> USE DEF LinkInv, TypeOK, TakeoverInv, TableInv, HookLoader
<1>1. CASE UNCHANGED <<frameVars, imports>>
  <2>1. FramesInv' /\ FramesTypeOK'
    BY <1>1, ImportsTurn DEF FramesInv, FramesTypeOK
  <2> SUFFICES LinkInv'
    BY <2>1
  <2>2. CASE Attach
    BY <2>1, <2>2 DEF Attach
  <2>3. CASE Prepare
    BY <2>1, <2>3 DEF Prepare
  <2>4. CASE PrepareFails
    BY <2>1, <2>4 DEF PrepareFails, Fail
  <2>5. CASE Preload
    BY <2>5, MapTurn DEF Preload
  <2>6. CASE PreloadFails
    BY <2>1, <2>6 DEF PreloadFails, Fail
  <2>7. CASE NoPreload
    BY <2>1, <2>7 DEF NoPreload
  <2>8. CASE NotPatched
    BY <2>1, <2>8 DEF NotPatched, Fail
  <2>9. CASE RegisterAliases
    BY <2>1, <2>9 DEF RegisterAliases, StateIsGood
  <2>10. CASE HookLoaded
    BY <2>1, <2>10 DEF HookLoaded, StateIsGood
  <2>11. CASE AliasFails
    BY <2>1, <2>11 DEF AliasFails
  <2>12. CASE Destroy
    BY <2>1, <2>12 DEF Destroy, RestoreExport
  <2> QED BY <2>2, <2>3, <2>4, <2>5, <2>6, <2>7, <2>8, <2>9, <2>10, <2>11, <2>12 DEF Entry
<1>2. CASE Preload
  BY <1>2, MapTurn DEF Preload
<1>3. CASE Destroy
  <2>1. DOMAIN buffers' = {} /\ UNCHANGED <<use, refs, work, pixels, imports>>
    BY <1>3 DEF Destroy, Erase, FramesInv, FramesTypeOK
  <2>2. FramesTypeOK' /\ WorkInv' /\ UntouchedInv'
    BY <2>1 DEF FramesInv, FramesTypeOK, WorkInv, UntouchedInv
  <2>3. Covered => BufferInv' /\ PixelsInv'
    BY <2>1 DEF FramesInv, BufferInv, PixelsInv
  <2>4. FramesInv'
    BY <2>1, <2>2, <2>3 DEF FramesInv, Covered
  <2> QED BY <1>3, <2>2, <2>4 DEF Destroy, RestoreExport
<1> QED BY <1>1, <1>2, <1>3 DEF Entry, Attach, Prepare, PrepareFails, Fail, PreloadFails,
           NoPreload, NotPatched, RegisterAliases, HookLoaded, AliasFails

\* The game's modules.
LEMMA ModuleTurn ==
    ASSUME LinkInv, FramesInv, NEW m \in Modules,
           \/ LoadModule(m) \/ LoadVp4u(m) \/ GetTable(m)
           \/ \E n \in Modules : LoadAgain(m, n)
    PROVE  LinkInv' /\ FramesInv'
<1> USE DEF LinkInv, TypeOK, TakeoverInv, TableInv, HookLoader
<1>1. CASE LoadVp4u(m) /\ ~Redirected(m)
  BY <1>1, MapTurn DEF LoadVp4u
<1>2. CASE UNCHANGED <<frameVars, imports>>
  <2>1. FramesInv' /\ FramesTypeOK'
    BY <1>2, ImportsTurn DEF FramesInv, FramesTypeOK
  <2>2. CASE LoadModule(m)
    BY <2>1, <2>2 DEF LoadModule
  <2>3. CASE \E n \in Modules : LoadAgain(m, n)
    BY <2>1, <2>3 DEF LoadAgain
  <2>4. CASE LoadVp4u(m) /\ Redirected(m)
    BY <2>1, <2>4 DEF LoadVp4u
  <2>5. CASE GetTable(m)
    BY <2>1, <2>5 DEF GetTable, Resolved, Adapted
  <2> QED BY <1>1, <2>1, <2>2, <2>3, <2>4, <2>5
<1> QED BY <1>1, <1>2 DEF LoadModule, LoadAgain, LoadVp4u, GetTable

LEMMA InitBridge == Init => LinkInv /\ FramesInv
<1> SUFFICES ASSUME Init PROVE LinkInv /\ FramesInv
  OBVIOUS
<1>1. FramesInv /\ imports = {}
  BY InitFrames DEF Init, FramesInit
<1> QED BY <1>1 DEF Init, LinkInv, TypeOK, TakeoverInv, TableInv, FramesInv

LEMMA NextBridge == LinkInv /\ FramesInv /\ [Next]_vars => LinkInv' /\ FramesInv'
<1> SUFFICES ASSUME LinkInv, FramesInv, [Next]_vars PROVE LinkInv' /\ FramesInv'
  OBVIOUS
<1>1. ASSUME NEW t \in Threads, NEW f \in Frames, Frame(t, f)
      PROVE  LinkInv' /\ FramesInv'
  <2>1. FramesInv'
    BY <1>1, FramesTurn DEF Frame
  <2> QED BY <1>1, <2>1 DEF Frame, FramesInv, LinkInv, TypeOK, TakeoverInv, TableInv
<1>2. CASE UNCHANGED vars
  <2>1. FramesInv'
    BY <1>2, ImportsTurn DEF vars, FramesInv, FramesTypeOK
  <2> QED BY <1>2, <2>1 DEF vars, LinkInv, TypeOK, TakeoverInv, TableInv, FramesInv
<1> QED BY <1>1, <1>2, EntryTurn, ModuleTurn DEF Next

LEMMA BridgeInvariant == Spec => [](LinkInv /\ FramesInv)
BY InitBridge, NextBridge, PTL DEF Spec

-----------------------------------------------------------------------------

\* Every variable keeps its type.
THEOREM TypeCorrect == Spec => []TypeOK
<1>1. LinkInv => TypeOK
  BY DEF LinkInv
<1> QED BY <1>1, BridgeInvariant, PTL

\* An address that librealsense uses again never meets the image of an earlier frame,
\* unless the takeover failed between rs2_get_frame_data and rs2_release_frame.
THEOREM NoImageIsStale == Spec => []NoStaleImage
<1>1. ASSUME FramesInv, Covered, NEW f \in DOMAIN buffers
      PROVE  ~Free(f) /\ buffers[f] = use[f]
  <2>1. PICK t \in Threads : Keeps(t, f)
    BY <1>1 DEF FramesInv, BufferInv
  <2>2. f \in Frames /\ refs[t][f] \in 0..MaxRefs
    BY <1>1 DEF FramesInv, FramesTypeOK
  <2>3. refs[t][f] # 0
    BY <2>1, <2>2 DEF Keeps
  <2> QED BY <1>1, <2>3 DEF FramesInv, BufferInv, Free
<1>2. ASSUME FramesInv, Covered, NEW t \in Threads, NEW f \in Frames
      PROVE  pixels[t][f] \in {0, use[f]}
  BY <1>2 DEF FramesInv, PixelsInv
<1>3. FramesInv => NoStaleImage
  BY <1>1, <1>2, Zenon DEF NoStaleImage, DataAreOfTheirFrame, Covered
<1> QED BY <1>3, BridgeInvariant, PTL

\* The bridge calls the wrapper, never itself, and success is a whole takeover.
THEOREM BridgeForwards == Spec => []ForwardsToWrapper
<1>1. LinkInv => ForwardsToWrapper
  BY DEF LinkInv, TakeoverInv, ForwardsToWrapper
<1> QED BY <1>1, BridgeInvariant, PTL

\* Nobody has the full table of a wrapper that is taken over.
THEOREM FullTableIsGone == Spec => []NobodyHasFullTable
<1>1. LinkInv => NobodyHasFullTable
  BY DEF LinkInv, TableInv, NobodyHasFullTable
<1> QED BY <1>1, BridgeInvariant, PTL

=============================================================================
