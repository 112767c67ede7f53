-------------------------- MODULE Vp4uSessionProofs --------------------------
(***************************************************************************)
(* Proofs about Vp4uSession: what the order of the game's calls and of the *)
(* joins they make guarantees, without a lock around the sources. At the   *)
(* end, proofs about HostConfig, the configuration the same calls load.    *)
(***************************************************************************)
EXTENDS Vp4uSession, HostConfig, TLAPS

\* Where a thread is that runs its loop: the analysis worker until it has joined the
\* inference thread.
InLoop == {"top", "use", "callback", "sleep", "join"}

\* The calls that have asked a worker to stop and wait for it.
Waiting(w) ==
    IF w = "preview" THEN {"startPreview", "stopPreview", "joinPreview"}
    ELSE {"startAnalysis", "stopAnalysis", "joinAnalysis"}

\* While a call changes the sources, there is no worker.
CallInv ==
    /\ call \in {"ready", "spike", "reset"} => \A w \in Workers : thread[w] = "none"
    /\ call = "joinAnalysis" => thread["preview"] = "none"

\* The inference thread lives within the loop of an analysis worker that will join it,
\* and only a thread in a turn uses anything.
ReaderInv ==
    /\ thread["inference"] \in {"none", "top", "use", "sleep", "ended"}
    /\ thread["inference"] # "none" => kind = "d4xx" /\ thread["analysis"] \in InLoop
    /\ \A t \in Threads : uses[t] # {} => thread[t] = "use"
    /\ \A t \in Threads : uses[t] \subseteq Alive

\* A worker that was asked to stop is being waited for.
StopInv ==
    \A w \in Workers : started[w] \/ thread[w] = "none" \/ call \in Waiting(w)

\* g_logMtx is held by the one worker that says hello or goodbye.
LogInv ==
    /\ \A w \in Workers : thread[w] \in {"hello", "said"} <=> logging = w
    /\ hearing => listener /\ logging # "nobody"

\* A D4xx without its SPiKE worker: the call that opens or closes them goes on.
OpenInv ==
    backend = "spike" /\ "sensor" \in held /\ "spike" \notin held =>
        call \in {"ready", "spike", "reset"}

SessionInv == TypeOK /\ CallInv /\ ReaderInv /\ StopInv /\ LogInv /\ OpenInv

USE DEF Workers, Threads, Backends, InLoop, Waiting, sourceVars, threadVars, logVars, game

LEMMA InitSession == Init => SessionInv
BY DEF Init, SessionInv, TypeOK, CallInv, ReaderInv, StopInv, LogInv, OpenInv, Alive

\* Without workers nobody is in a source.
LEMMA NobodyReads ==
    ASSUME SessionInv, \A w \in Workers : thread[w] = "none"
    PROVE  \A t \in Threads : thread[t] = "none" /\ uses[t] = {}
BY DEF SessionInv, ReaderInv

\* What a turn reaches is there.
LEMMA TouchesAlive ==
    ASSUME SessionInv, NEW t \in Threads
    PROVE  Touches(t) \subseteq Alive /\ Touches(t) \subseteq {"sensor", "spike", "engine"}
BY DEF SessionInv, TypeOK, Touches, Alive

-----------------------------------------------------------------------------
(* Every step preserves the invariant.                                     *)

\* The game begins a call. No worker is there when a source is let go.
LEMMA GameTurn ==
    ASSUME SessionInv, GameCalls
    PROVE  SessionInv'
<1> USE DEF SessionInv, TypeOK, CallInv, ReaderInv, StopInv, LogInv, OpenInv, Alive
<1>1. CASE Register
  BY <1>1 DEF Register
<1>2. CASE Unregister
  <2>1. listener' \in BOOLEAN
    BY <1>2, Zenon DEF Unregister
  <2>2. /\ call = "none" /\ logging = "nobody"
        /\ UNCHANGED <<backend, initialized, sourceVars, call, threadVars, logging, hearing>>
    BY <1>2 DEF Unregister
  <2>3. TypeOK'
    BY <2>1, <2>2
  <2>4. CallInv' /\ ReaderInv' /\ StopInv' /\ OpenInv'
    BY <2>2
  <2>5. LogInv'
    BY <2>2
  <2> QED BY <2>3, <2>4, <2>5
<1>3. CASE Initialize
  BY <1>3 DEF Initialize
<1>4. CASE OpenRealSense
  <2>1. \A t \in Threads : thread[t] = "none" /\ uses[t] = {}
    BY <1>4, NobodyReads DEF OpenRealSense
  <2>2. /\ held' \subseteq {"sensor", "spike"}
        /\ call' \in {"none", "ready"}
        /\ UNCHANGED <<backend, initialized, engine, threadVars, logVars>>
    BY <1>4 DEF OpenRealSense
  <2>3. OpenInv'
    BY <1>4 DEF OpenRealSense
  <2>4. TypeOK' /\ CallInv' /\ StopInv' /\ LogInv'
    BY <2>1, <2>2
  <2>5. ReaderInv'
    BY <2>1, <2>2
  <2> QED BY <2>3, <2>4, <2>5
<1>5. CASE InitVisionPose
  <2>1. /\ engine' = engine \/ engine' = TRUE
        /\ UNCHANGED <<backend, initialized, held, call, threadVars, logVars>>
    BY <1>5 DEF InitVisionPose
  <2>2. Alive \subseteq Alive'
    BY <2>1
  <2>3. ReaderInv'
    BY <2>1, <2>2
  <2>4. CASE engine' = engine
    BY <2>1, <2>3, <2>4
  <2>5. CASE engine' = TRUE
    BY <2>1, <2>3, <2>5
  <2> QED BY <2>1, <2>4, <2>5
<1>6. CASE StartPreview
  BY <1>6 DEF StartPreview, Stopping, Asked
<1>7. CASE StopPreview
  BY <1>7 DEF StopPreview, Stopping, Asked
<1>8. CASE StartAnalysis
  BY <1>8 DEF StartAnalysis, Stopping, Asked
<1>9. CASE StopAnalysis
  BY <1>9 DEF StopAnalysis, Stopping, Asked
<1>10. CASE Shutdown
  BY <1>10 DEF Shutdown, Stopping, Asked
<1> QED BY <1>1, <1>2, <1>3, <1>4, <1>5, <1>6, <1>7, <1>8, <1>9, <1>10 DEF GameCalls

\* A call goes on when the worker it waits for has ended.
LEMMA CallTurn ==
    ASSUME SessionInv, FinishCall
    PROVE  SessionInv'
<1> USE DEF SessionInv, TypeOK, CallInv, ReaderInv, StopInv, LogInv, OpenInv, Alive
<1>1. CASE SensorReady
  BY <1>1 DEF SensorReady
<1>2. CASE OpenSpike
  BY <1>2 DEF OpenSpike
<1>3. CASE FinishStart("preview", "startPreview")
  BY <1>3 DEF FinishStart, Joined, Launch
<1>4. CASE FinishStart("analysis", "startAnalysis")
  BY <1>4 DEF FinishStart, Joined, Launch
<1>5. CASE FinishStop("preview", "stopPreview")
  BY <1>5 DEF FinishStop, Joined
<1>6. CASE FinishStop("analysis", "stopAnalysis")
  BY <1>6 DEF FinishStop, Joined
<1>7. CASE ShutdownPreview
  BY <1>7 DEF ShutdownPreview, Joined, Asked
<1>8. CASE ShutdownAnalysis
  BY <1>8 DEF ShutdownAnalysis, Joined
<1>9. CASE ResetSources
  BY <1>9 DEF ResetSources
<1> QED BY <1>1, <1>2, <1>3, <1>4, <1>5, <1>6, <1>7, <1>8, <1>9 DEF FinishCall

\* A thread goes on: it takes what there is, and lets go of it before it leaves its loop.
LEMMA ThreadTurn ==
    ASSUME SessionInv, NEW t \in Threads, Run(t)
    PROVE  SessionInv'
<1> USE DEF SessionInv, TypeOK, CallInv, ReaderInv, StopInv, LogInv, OpenInv, Alive
<1>1. CASE Turn(t)
  <2>1. /\ thread[t] = "top"
        /\ UNCHANGED <<game, stop, kind, started, logging, hearing>>
    BY <1>1 DEF Turn
  <2>2. CASE Stopped(t)
    BY <1>1, <2>1, <2>2 DEF Turn, AfterLoop
  <2>3. CASE ~Stopped(t)
    <3>1. /\ thread' = [thread EXCEPT ![t] = "use"]
          /\ uses' = [uses EXCEPT ![t] = Touches(t)]
      BY <1>1, <2>3 DEF Turn
    <3>2. TypeOK' /\ CallInv' /\ StopInv' /\ LogInv' /\ OpenInv'
      BY <2>1, <3>1, TouchesAlive
    <3>3. ReaderInv'
      BY <2>1, <3>1, TouchesAlive
    <3> QED BY <3>2, <3>3
  <2> QED BY <2>2, <2>3
<1>2. CASE EndUse(t)
  BY <1>2 DEF EndUse
<1>3. CASE Wake(t)
  BY <1>3 DEF Wake
<1>4. CASE t \in Workers /\ Hello(t)
  <2>1. /\ thread[t] = "new" /\ logging = "nobody"
        /\ thread' = [thread EXCEPT ![t] = "hello"]
        /\ logging' = t /\ hearing' = listener
        /\ kind' \in {"hardware", "d4xx", "plain"}
        /\ t = "preview" => kind' = kind
        /\ UNCHANGED <<game, stop, uses, started>>
    BY <1>4 DEF Hello, TakeLog
  <2>2. TypeOK' /\ CallInv' /\ StopInv' /\ OpenInv'
    BY <1>4, <2>1
  <2>3. ReaderInv'
    BY <1>4, <2>1
  <2>4. LogInv'
    BY <1>4, <2>1
  <2> QED BY <2>2, <2>3, <2>4
<1>5. CASE t \in Workers /\ Enter(t)
  <2>1. /\ thread[t] = "hello" /\ logging' = "nobody" /\ hearing' = FALSE
        /\ UNCHANGED <<game, stop, kind, uses, started>>
    BY <1>5 DEF Enter, EndLog
  <2>2. CASE t = "analysis" /\ kind = "d4xx"
    <3>1. thread' = [thread EXCEPT ![t] = "top", !["inference"] = "top"]
      BY <1>5, <2>2 DEF Enter
    <3>2. TypeOK'
      BY <1>5, <2>1, <2>2, <3>1
    <3>3. CallInv' /\ ReaderInv'
      BY <1>5, <2>1, <2>2, <3>1
    <3>4. StopInv' /\ LogInv' /\ OpenInv'
      BY <1>5, <2>1, <2>2, <3>1
    <3> QED BY <3>2, <3>3, <3>4
  <2>3. CASE ~(t = "analysis" /\ kind = "d4xx")
    <3>1. thread' = [thread EXCEPT ![t] = "top"]
      BY <1>5, <2>3 DEF Enter
    <3>2. TypeOK'
      BY <1>5, <2>1, <2>3, <3>1
    <3>3. CallInv' /\ ReaderInv'
      BY <1>5, <2>1, <2>3, <3>1
    <3>4. StopInv' /\ LogInv' /\ OpenInv'
      BY <1>5, <2>1, <2>3, <3>1
    <3> QED BY <3>2, <3>3, <3>4
  <2> QED BY <2>2, <2>3
<1>6. CASE t \in Workers /\ CallbackReturns(t)
  BY <1>6 DEF CallbackReturns
<1>7. CASE t \in Workers /\ Bye(t)
  <2>1. CASE TakeLog(t, "bye", "said") /\ UNCHANGED <<game, stop, kind, uses, started>>
    BY <1>7, <2>1 DEF TakeLog
  <2>2. CASE /\ thread[t] = "said" /\ EndLog
             /\ thread' = [thread EXCEPT ![t] = "ended"]
             /\ UNCHANGED <<game, stop, kind, uses, started>>
    <3>1. TypeOK'
      BY <1>7, <2>2 DEF EndLog
    <3>2. CallInv' /\ ReaderInv'
      BY <1>7, <2>2 DEF EndLog
    <3>3. StopInv' /\ LogInv' /\ OpenInv'
      BY <1>7, <2>2 DEF EndLog
    <3> QED BY <3>1, <3>2, <3>3
  <2> QED BY <1>7, <2>1, <2>2 DEF Bye
<1>8. CASE JoinInference
  BY <1>8 DEF JoinInference
<1> QED BY <1>1, <1>2, <1>3, <1>4, <1>5, <1>6, <1>7, <1>8 DEF Run

LEMMA NextSession == SessionInv /\ [Next]_vars => SessionInv'
<1> SUFFICES ASSUME SessionInv, [Next]_vars PROVE SessionInv'
  OBVIOUS
<1>1. CASE UNCHANGED vars
  BY <1>1 DEF vars, SessionInv, TypeOK, CallInv, ReaderInv, StopInv, LogInv, OpenInv, Alive
<1> QED BY <1>1, GameTurn, CallTurn, ThreadTurn DEF Next

LEMMA SessionInvariant == Spec => []SessionInv
BY InitSession, NextSession, PTL DEF Spec

-----------------------------------------------------------------------------

\* Every variable keeps its type, whatever the game calls.
THEOREM TypeCorrect == Spec => []TypeOK
<1>1. SessionInv => TypeOK
  BY DEF SessionInv
<1> QED BY <1>1, SessionInvariant, PTL

\* No thread is in a source, an engine or a stack frame that is gone.
THEOREM SourcesOutliveReaders == Spec => []SourceOutlivesReaders
<1>1. SessionInv => SourceOutlivesReaders
  BY DEF SessionInv, ReaderInv, SourceOutlivesReaders
<1> QED BY <1>1, SessionInvariant, PTL

\* After a Stop or a Shutdown the game hears nothing.
THEOREM StopIsSilent == Spec => []SilentAfterStop
<1>1. SessionInv => SilentAfterStop
  BY DEF SessionInv, StopInv, LogInv, SilentAfterStop
<1> QED BY <1>1, SessionInvariant, PTL

\* An OpenRealSense that fails keeps no camera.
THEOREM FailedOpensRelease == Spec => []FailedOpenReleases
<1>1. SessionInv => FailedOpenReleases
  BY DEF SessionInv, OpenInv, FailedOpenReleases
<1> QED BY <1>1, SessionInvariant, PTL

-----------------------------------------------------------------------------
(* The configuration.                                                      *)

Values == {"default", "host", "placement", "profile", "env", "out", "edge"}

LayerInv ==
    /\ build \in Builds /\ config \in [Fields -> Values]
    /\ DOMAIN env \subseteq {"rate", "hold"} /\ \A f \in DOMAIN env : env[f] = "env"
    /\ DOMAIN host \subseteq Fields /\ \A f \in DOMAIN host : host[f] \in {"host", "out"}
    /\ DOMAIN placement \subseteq IF build = "d4xx" THEN {"hold", "center"} ELSE {}
    /\ \A f \in DOMAIN placement : placement[f] \in {"placement", "out"}

\* The plugin-local placement has been applied, and the environment over it or not yet.
PlacementIn(withEnv) ==
    /\ \A f \in DOMAIN placement : ~(withEnv /\ f \in DOMAIN env) => config[f] = placement[f]
    /\ withEnv => \A f \in DOMAIN env : config[f] = "env"

KinectIsPaced == build = "kinect" => config["rate"] \in {"profile", "env"}

\* What holds between two statements of a load, after those that have been executed.
ProgressInv ==
    /\ step \in {"idle", "host", "placement", "profile", "environment", "bounds", "initialize"}
    /\ step = "profile" => PlacementIn(FALSE)
    /\ step = "environment" => PlacementIn(FALSE) /\ KinectIsPaced
    /\ step = "bounds" => PlacementIn(TRUE) /\ KinectIsPaced

\* The layers as LayersInOrder orders them; an initialization in progress keeps the order.
Ordered ==
    /\ \A f \in Fields \ {"width"} :
          IF f \in DOMAIN env THEN config[f] = "env"
          ELSE f \in DOMAIN placement =>
                   config[f] = placement[f] \/ (placement[f] = "out" /\ config[f] = "edge")
    /\ KinectIsPaced
    /\ build = "d4xx" => config["width"] = "profile"

SettledInv ==
    /\ loaded => step \in {"idle", "initialize"} /\ Ordered
    /\ step \in {"idle", "initialize"} => \A f \in Bounded : config[f] # "out"

ConfigInv == LayerInv /\ ProgressInv /\ SettledInv

LEMMA LayerFacts ==
    ASSUME NEW fields, NEW values, NEW layer \in Layers(fields, values)
    PROVE  DOMAIN layer \subseteq fields /\ \A f \in DOMAIN layer : layer[f] \in values
BY DEF Layers

LEMMA NoLayerFacts == DOMAIN NoLayer = {}
BY DEF NoLayer

LEMMA OverFacts ==
    ASSUME NEW values \in [Fields -> Values], NEW layer,
           DOMAIN layer \subseteq Fields, \A f \in DOMAIN layer : layer[f] \in Values
    PROVE  /\ Over(values, layer) \in [Fields -> Values]
           /\ \A f \in Fields : Over(values, layer)[f] =
                                   IF f \in DOMAIN layer THEN layer[f] ELSE values[f]
BY DEF Over

\* A field that is bounded is one of the configuration.
LEMMA BoundedFields == Bounded \subseteq Fields
BY DEF Bounded, Fields

LEMMA InitConfig == ConfigInit => ConfigInv
<1> SUFFICES ASSUME ConfigInit PROVE ConfigInv
  OBVIOUS
<1>1. DOMAIN env \subseteq {"rate", "hold"} /\ \A f \in DOMAIN env : env[f] = "env"
  BY LayerFacts DEF ConfigInit, Environments
<1>2. LayerInv
  BY <1>1, NoLayerFacts DEF ConfigInit, LayerInv, Values
<1>3. ProgressInv /\ SettledInv
  BY BoundedFields DEF ConfigInit, ProgressInv, SettledInv
<1> QED BY <1>2, <1>3 DEF ConfigInv

LEMMA LoadKeeps ==
    ASSUME ConfigInv, LoadConfig \/ ReloadConfig \/ InitializeConfig PROVE ConfigInv'
<1>1. CASE \E withPath \in BOOLEAN : Load(withPath)
  <2>1. PICK withPath \in BOOLEAN : Load(withPath)
    BY <1>1
  <2>2. DOMAIN host' \subseteq Fields /\ \A f \in DOMAIN host' : host'[f] \in {"host", "out"}
    <3>1. CASE withPath
      <4>1. host' \in Layers(Fields, {"host", "out"})
        BY <2>1, <3>1 DEF Load
      <4> QED BY <4>1, LayerFacts
    <3>2. CASE ~withPath
      <4>1. host' = NoLayer
        BY <2>1, <3>2 DEF Load
      <4> QED BY <4>1, NoLayerFacts
    <3> QED BY <3>1, <3>2
  <2>3. /\ DOMAIN placement' \subseteq IF build = "d4xx" THEN {"hold", "center"} ELSE {}
        /\ \A f \in DOMAIN placement' : placement'[f] \in {"placement", "out"}
    <3>1. CASE build = "d4xx"
      <4>1. placement' \in Layers({"hold", "center"}, {"placement", "out"})
        BY <2>1, <3>1 DEF Load
      <4> QED BY <3>1, <4>1, LayerFacts
    <3>2. CASE build # "d4xx"
      <4>1. placement' = NoLayer
        BY <2>1, <3>2 DEF Load
      <4> QED BY <4>1, NoLayerFacts
    <3> QED BY <3>1, <3>2
  <2>4. step' = "host" /\ ~loaded' /\ build' = build /\ env' = env /\ config' = config
    BY <2>1 DEF Load
  <2>5. LayerInv'
    BY <2>2, <2>3, <2>4 DEF ConfigInv, LayerInv
  <2> QED BY <2>4, <2>5 DEF ConfigInv, ProgressInv, SettledInv
<1>2. CASE /\ step = "idle" /\ step' = "initialize"
           /\ UNCHANGED <<build, env, path, host, placement, config, loaded>>
  BY <1>2 DEF ConfigInv, LayerInv, ProgressInv, SettledInv, Ordered, KinectIsPaced, Bounded
<1> QED BY <1>1, <1>2 DEF LoadConfig, ReloadConfig, InitializeConfig

\* A file is applied as a whole.
LEMMA FilesKeep ==
    ASSUME ConfigInv, ApplyJson \/ ApplyPlacement PROVE ConfigInv'
<1>1. /\ UNCHANGED <<build, env, path, host, placement, loaded>>
      /\ \/ step = "host" /\ step' = "placement" /\ config' = Over(config, host)
         \/ step = "placement" /\ step' = "profile" /\ config' = Over(config, placement)
  BY DEF ApplyJson, ApplyPlacement, Continue
<1>2. LayerInv'
  BY <1>1, OverFacts DEF ConfigInv, LayerInv, Fields, Values
<1>3. ~loaded
  BY <1>1 DEF ConfigInv, SettledInv
<1>4. step' = "profile" => PlacementIn(FALSE)'
  <2>1. DOMAIN placement \subseteq Fields /\ \A f \in DOMAIN placement : placement[f] \in Values
    BY DEF ConfigInv, LayerInv, Fields, Values
  <2> QED BY <1>1, <2>1, OverFacts DEF ConfigInv, LayerInv, PlacementIn
<1> QED BY <1>1, <1>2, <1>3, <1>4 DEF ConfigInv, ProgressInv, SettledInv

LEMMA PaceKeeps ==
    ASSUME ConfigInv, PaceKinect PROVE ConfigInv'
<1>1. /\ UNCHANGED <<build, env, path, host, placement, loaded>>
      /\ step = "profile" /\ step' = "environment"
      /\ config' = IF build = "kinect" THEN [config EXCEPT !["rate"] = "profile"] ELSE config
  BY DEF PaceKinect, Continue
<1>2. LayerInv'
  BY <1>1 DEF ConfigInv, LayerInv, Values
<1>3. ~loaded
  BY <1>1 DEF ConfigInv, SettledInv
<1>4. PlacementIn(FALSE)' /\ KinectIsPaced'
  BY <1>1 DEF ConfigInv, LayerInv, ProgressInv, PlacementIn, KinectIsPaced, Fields
<1> QED BY <1>1, <1>2, <1>3, <1>4 DEF ConfigInv, ProgressInv, SettledInv

\* The environment stays in bounds and stays in front, with a load and without.
LEMMA EnvironmentKeeps ==
    ASSUME ConfigInv, ApplyEnvironment \/ InitializeEnvironment PROVE ConfigInv'
<1>1. /\ UNCHANGED <<build, env, path, host, placement, loaded>>
      /\ config' = Over(config, env)
      /\ \/ step = "environment" /\ step' = "bounds"
         \/ step = "initialize" /\ step' = "idle"
  BY DEF ApplyEnvironment, InitializeEnvironment, Continue
<1>2. /\ config' \in [Fields -> Values]
      /\ \A f \in Fields : config'[f] = IF f \in DOMAIN env THEN "env" ELSE config[f]
  BY <1>1, OverFacts DEF ConfigInv, LayerInv, Fields, Values
<1>3. LayerInv'
  BY <1>1, <1>2 DEF ConfigInv, LayerInv
<1>4. DOMAIN placement \subseteq Fields /\ DOMAIN env \subseteq Fields /\ "rate" \in Fields
  BY DEF ConfigInv, LayerInv, Fields
<1>5. step' = "bounds" => PlacementIn(TRUE)' /\ KinectIsPaced'
  BY <1>1, <1>2, <1>4 DEF ConfigInv, ProgressInv, PlacementIn, KinectIsPaced
<1>6. step' = "idle" => \A f \in Bounded' : config'[f] # "out"
  BY <1>1, <1>2, BoundedFields DEF ConfigInv, SettledInv, Bounded
<1>7. loaded => step' = "idle" /\ Ordered'
  <2> SUFFICES ASSUME loaded PROVE step' = "idle" /\ Ordered'
    OBVIOUS
  <2>1. step' = "idle" /\ Ordered
    BY <1>1 DEF ConfigInv, SettledInv
  <2>2. "width" \in Fields /\ "width" \notin DOMAIN env
    BY DEF ConfigInv, LayerInv, Fields
  <2> QED BY <1>1, <1>2, <1>4, <2>1, <2>2 DEF Ordered, KinectIsPaced
<1> QED BY <1>1, <1>3, <1>5, <1>6, <1>7 DEF ConfigInv, ProgressInv, SettledInv

\* The bounds move only what is out of them, and touch no other layer.
LEMMA ClampKeeps ==
    ASSUME ConfigInv, Clamp PROVE ConfigInv'
<1>1. /\ UNCHANGED <<build, env, path, host, placement>> /\ loaded'
      /\ step = "bounds" /\ step' = "idle"
      /\ config' = [f \in Fields |-> IF build = "d4xx" /\ f = "width" THEN "profile"
                                     ELSE Clamped(f)]
  BY DEF Clamp, Continue
<1>2. \A f \in Fields :
         /\ Clamped(f) \in Values
         /\ config[f] # "out" => Clamped(f) = config[f]
         /\ Clamped(f) \in {config[f], "edge"}
         /\ f \in Bounded => Clamped(f) # "out"
  BY DEF Clamped, ConfigInv, LayerInv, Values
<1>3. LayerInv'
  BY <1>1, <1>2 DEF ConfigInv, LayerInv, Values
<1>4. \A f \in Bounded' : config'[f] # "out"
  BY <1>1, <1>2, BoundedFields DEF Bounded
<1>5. Ordered'
  <2>1. PlacementIn(TRUE) /\ KinectIsPaced
    BY <1>1 DEF ConfigInv, ProgressInv
  <2>2. ASSUME NEW f \in Fields \ {"width"}
        PROVE  IF f \in DOMAIN env THEN config'[f] = "env"
               ELSE f \in DOMAIN placement =>
                   config'[f] = placement[f] \/ (placement[f] = "out" /\ config'[f] = "edge")
    <3>1. config'[f] = Clamped(f)
      BY <1>1
    <3>2. /\ config[f] # "out" => config'[f] = config[f]
          /\ config'[f] \in {config[f], "edge"}
      BY <1>2, <3>1
    <3>3. CASE f \in DOMAIN env
      <4>1. config[f] = "env"
        BY <2>1, <3>3 DEF PlacementIn
      <4> QED BY <3>2, <3>3, <4>1
    <3>4. CASE f \notin DOMAIN env /\ f \in DOMAIN placement
      <4>1. config[f] = placement[f]
        BY <2>1, <3>4 DEF PlacementIn
      <4> QED BY <3>2, <3>4, <4>1
    <3> QED BY <3>3, <3>4
  <2>3. KinectIsPaced'
    <3>1. "rate" \in Fields /\ "rate" # "width"
      BY DEF Fields
    <3>2. config'["rate"] = Clamped("rate")
      BY <1>1, <3>1
    <3> QED BY <1>1, <1>2, <2>1, <3>1, <3>2 DEF KinectIsPaced
  <2>4. build = "d4xx" => config'["width"] = "profile"
    BY <1>1 DEF Fields
  <2> QED BY <1>1, <2>2, <2>3, <2>4 DEF Ordered
<1> QED BY <1>1, <1>3, <1>4, <1>5 DEF ConfigInv, ProgressInv, SettledInv

LEMMA ConfigInvariant == ConfigSpec => []ConfigInv
<1>1. ConfigInv /\ [ConfigNext]_configVars => ConfigInv'
  <2> SUFFICES ASSUME ConfigInv, [ConfigNext]_configVars PROVE ConfigInv'
    OBVIOUS
  <2>1. CASE UNCHANGED configVars
    BY <2>1 DEF configVars, ConfigInv, LayerInv, ProgressInv, SettledInv, PlacementIn,
                Ordered, KinectIsPaced, Bounded
  <2> QED BY <2>1, LoadKeeps, FilesKeep, PaceKeeps, EnvironmentKeeps, ClampKeeps DEF ConfigNext
<1> QED BY <1>1, InitConfig, PTL DEF ConfigSpec

\* Between calls the bounded fields are within their bounds (config_load_file clamps last, and
\* config_apply_environment, which t_Initialize calls alone, checks its own ranges).
THEOREM ConfigSettles == ConfigSpec => []SettledInBounds
<1>1. ConfigInv => SettledInBounds
  BY DEF ConfigInv, SettledInv, SettledInBounds
<1> QED BY <1>1, ConfigInvariant, PTL

\* Every field ends with the value of the layer it belongs to, however often it is loaded.
THEOREM LayersStayInOrder == ConfigSpec => []LayersInOrder
<1>1. ConfigInv => LayersInOrder
  BY DEF ConfigInv, SettledInv, LayersInOrder, Ordered, KinectIsPaced
<1> QED BY <1>1, ConfigInvariant, PTL

=============================================================================
