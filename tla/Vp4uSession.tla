----------------------------- MODULE Vp4uSession -----------------------------
(***************************************************************************)
(* The table of calls vp4uwrap.cpp hands to the game, and the threads they *)
(* start and join: one preview worker, one analysis worker, and with the   *)
(* D4xx and MediaPipe the inference thread the analysis worker owns.       *)
(*                                                                         *)
(* The game calls from one thread. The workers reach the source and the    *)
(* pose engine through globals without a lock: what keeps them valid is    *)
(* only the order of the steps of Shutdown, OpenRealSense and the joins.   *)
(* The game opens the source before it starts a worker, the order the      *)
(* messages "runtime 3/5" to "5/5" number and tests/harness.cpp follows.   *)
(***************************************************************************)
EXTENDS Naturals

Workers == {"preview", "analysis"}
Threads == Workers \union {"inference"}
Backends == {"native", "spike", "d4xx", "webcam"}

VARIABLES
    backend,
    initialized,   \* g_initialized
    held,          \* the source pointers that are set: "sensor", "spike"
    engine,        \* g_poseOk, and the engine behind it
    call,          \* how far the game's call is
    stop,          \* Worker::stop
    thread,        \* where a thread is
    kind,          \* of the analysis loop: hardware, d4xx or plain
    uses,          \* what a thread is using
    started,       \* started, and not asked to stop since (history)
    listener,      \* the game's log callback is registered
    logging,       \* the thread that holds g_logMtx in vlog
    hearing        \* it runs the game's log callback

sourceVars == <<held, engine>>
threadVars == <<stop, thread, kind, uses, started>>
logVars == <<listener, logging, hearing>>
vars == <<backend, initialized, sourceVars, call, threadVars, logVars>>

Init ==
    /\ backend \in Backends
    /\ initialized = FALSE
    /\ held = {}
    /\ engine = FALSE
    /\ call = "none"
    /\ stop = [w \in Workers |-> FALSE]
    /\ thread = [t \in Threads |-> "none"]
    /\ kind = "plain"
    /\ uses = [t \in Threads |-> {}]
    /\ started = [w \in Workers |-> FALSE]
    /\ listener = FALSE
    /\ logging = "nobody"
    /\ hearing = FALSE

\* hardware_skeleton_active
Hardware == IF backend = "native" THEN "sensor" \in held ELSE "spike" \in held

-----------------------------------------------------------------------------
(* The logger.                                                             *)

Register ==
    /\ call = "none" /\ logging = "nobody"
    /\ listener' = TRUE
    /\ UNCHANGED <<backend, initialized, sourceVars, call, threadVars, logging, hearing>>

Unregister ==
    /\ call = "none" /\ logging = "nobody" /\ listener
    /\ listener' = FALSE
    /\ UNCHANGED <<backend, initialized, sourceVars, call, threadVars, logging, hearing>>

\* vlog: the callbacks run under g_logMtx.
TakeLog(t, from, to) ==
    /\ thread[t] = from /\ logging = "nobody"
    /\ logging' = t
    /\ hearing' = listener
    /\ thread' = [thread EXCEPT ![t] = to]

EndLog == logging' = "nobody" /\ hearing' = FALSE

-----------------------------------------------------------------------------
(* The source and the pose engine.                                         *)

Initialize ==
    /\ call = "none" /\ logging = "nobody"
    /\ initialized' = TRUE
    /\ UNCHANGED <<backend, sourceVars, call, threadVars, logVars>>

\* Up to acquire. A native source that is alive is acquired again; the webcam's index
\* is checked first.
OpenRealSense ==
    /\ call = "none" /\ logging = "nobody"
    /\ initialized
    /\ \A w \in Workers : thread[w] = "none"
    /\ \/ /\ backend = "native" => "sensor" \notin held
          /\ call' = "none"
          /\ held' = IF backend = "webcam" THEN held ELSE held \ {"sensor"}
       \/ /\ call' = IF backend = "native" THEN "none" ELSE "ready"
          /\ held' = held \union {"sensor"}
    /\ UNCHANGED <<backend, initialized, engine, threadVars, logVars>>

\* wait_until_ready, and its timeout.
SensorReady ==
    /\ call = "ready"
    /\ \/ call' = "none" /\ held' = held \ {"sensor"}
       \/ call' = (IF backend = "spike" THEN "spike" ELSE "none") /\ UNCHANGED held
    /\ UNCHANGED <<backend, initialized, engine, threadVars, logVars>>

\* Variant: the sensor stays open.
KeepSensor ==
    /\ call = "spike"
    /\ call' = "none"
    /\ \/ held' = held \union {"spike"}
       \/ held' = held \ {"spike"}
    /\ UNCHANGED <<backend, initialized, engine, threadVars, logVars>>

\* SpikeSource::acquire; where it fails the sensor is let go.
OpenSpike ==
    /\ call = "spike"
    /\ call' = "none"
    /\ \/ held' = held \union {"spike"}
       \/ held' = {}
    /\ UNCHANGED <<backend, initialized, engine, threadVars, logVars>>

InitVisionPose ==
    /\ call = "none" /\ logging = "nobody"
    /\ backend \in {"d4xx", "webcam"}
    /\ engine' \in {engine, TRUE}
    /\ UNCHANGED <<backend, initialized, held, call, threadVars, logVars>>

-----------------------------------------------------------------------------
(* Starting, stopping and shutting down.                                   *)

\* Variant: the thread is joined without being asked.
NotAsked(w) == /\ stop' = stop
               /\ started' = [started EXCEPT ![w] = FALSE]

\* Worker::join sets stop, and waits.
Asked(w) == /\ stop' = [stop EXCEPT ![w] = TRUE]
            /\ started' = [started EXCEPT ![w] = FALSE]

\* The game calls Start, Stop or Shutdown: the first statement is a join.
Stopping(w, step) ==
    /\ call = "none"
    /\ call' = step
    /\ Asked(w)
    /\ UNCHANGED <<backend, initialized, sourceVars, thread, kind, uses, logVars>>

StartPreview == Stopping("preview", "startPreview")
StopPreview == Stopping("preview", "stopPreview")
StartAnalysis == Stopping("analysis", "startAnalysis")
StopAnalysis == Stopping("analysis", "stopAnalysis")
Shutdown == logging = "nobody" /\ Stopping("preview", "joinPreview")

\* th.join() returns when the thread has ended.
Joined(w) == thread[w] \in {"none", "ended"}

\* Variant: the flag of the last stop stays up.
LaunchStopped(w) ==
    /\ stop' = stop
    /\ thread' = [thread EXCEPT ![w] = "new"]
    /\ started' = [started EXCEPT ![w] = TRUE]

Launch(w) ==
    /\ stop' = [stop EXCEPT ![w] = FALSE]
    /\ thread' = [thread EXCEPT ![w] = "new"]
    /\ started' = [started EXCEPT ![w] = TRUE]

FinishStart(w, step) ==
    /\ call = step /\ Joined(w)
    /\ call' = "none"
    /\ Launch(w)
    /\ UNCHANGED <<backend, initialized, sourceVars, kind, uses, logVars>>

\* Variant: the thread is left to end by itself.
Detach(w, step) ==
    /\ call = step
    /\ call' = "none"
    /\ UNCHANGED <<backend, initialized, sourceVars, threadVars, logVars>>

FinishStop(w, step) ==
    /\ call = step /\ Joined(w)
    /\ call' = "none"
    /\ thread' = [thread EXCEPT ![w] = "none"]
    /\ UNCHANGED <<backend, initialized, sourceVars, stop, kind, uses, started, logVars>>

ShutdownPreview ==
    /\ call = "joinPreview" /\ Joined("preview")
    /\ call' = "joinAnalysis"
    /\ thread' = [thread EXCEPT !["preview"] = "none"]
    /\ Asked("analysis")
    /\ UNCHANGED <<backend, initialized, sourceVars, kind, uses, logVars>>

ShutdownAnalysis ==
    /\ call = "joinAnalysis" /\ Joined("analysis")
    /\ call' = "reset"
    /\ thread' = [thread EXCEPT !["analysis"] = "none"]
    /\ UNCHANGED <<backend, initialized, sourceVars, stop, kind, uses, started, logVars>>

\* The pointers are reset one after the other, then the engine is shut down.
ResetSources ==
    /\ call = "reset" /\ logging = "nobody"
    /\ \/ /\ held # {}
          /\ held' = IF "spike" \in held THEN held \ {"spike"} ELSE {}
          /\ UNCHANGED <<call, engine, initialized>>
       \/ /\ held = {}
          /\ engine' = FALSE
          /\ initialized' = FALSE
          /\ call' = "none"
          /\ UNCHANGED held
    /\ UNCHANGED <<backend, threadVars, logVars>>

FinishCall ==
    \/ SensorReady \/ OpenSpike
    \/ FinishStart("preview", "startPreview") \/ FinishStart("analysis", "startAnalysis")
    \/ FinishStop("preview", "stopPreview") \/ FinishStop("analysis", "stopAnalysis")
    \/ ShutdownPreview \/ ShutdownAnalysis \/ ResetSources

-----------------------------------------------------------------------------
(* preview_loop, analysis_loop and d4xx_analysis_loop.                     *)

game == <<backend, initialized, sourceVars, call, listener>>

\* analysis_loop chooses its kind once, and says so.
Hello(w) ==
    /\ TakeLog(w, "new", "hello")
    /\ kind' = IF w = "preview" THEN kind
               ELSE IF Hardware THEN "hardware"
               ELSE IF backend \in {"d4xx", "spike"} /\ "sensor" \in held THEN "d4xx"
               ELSE "plain"
    /\ UNCHANGED <<game, stop, uses, started>>

\* d4xx_analysis_loop starts the inference thread, which refers to its frame.
Enter(w) ==
    /\ thread[w] = "hello"
    /\ EndLog
    /\ IF w = "analysis" /\ kind = "d4xx"
       THEN thread' = [thread EXCEPT ![w] = "top", !["inference"] = "top"]
       ELSE thread' = [thread EXCEPT ![w] = "top"]
    /\ UNCHANGED <<game, stop, kind, uses, started>>

\* What a turn of a loop reaches through the globals.
Touches(t) ==
    IF t = "preview" THEN (IF backend = "spike" THEN {} ELSE held)
    ELSE IF t = "inference" THEN
        (IF engine /\ "sensor" \in held THEN {"engine", "sensor"} ELSE {})
    ELSE IF kind = "hardware" THEN (IF "spike" \in held THEN {"spike"} ELSE held)
    ELSE IF kind = "plain" THEN held \union (IF engine THEN {"engine"} ELSE {})
    ELSE {}

Stopped(t) == stop[IF t = "inference" THEN "analysis" ELSE t]

\* Variant: the inference thread is left running.
LeaveLoop(t) == IF t = "inference" THEN "ended" ELSE "bye"

AfterLoop(t) == IF t = "inference" THEN "ended"
                ELSE IF t = "analysis" /\ kind = "d4xx" THEN "join"
                ELSE "bye"

\* while (!stop)
Turn(t) ==
    /\ thread[t] = "top"
    /\ IF Stopped(t)
       THEN thread' = [thread EXCEPT ![t] = AfterLoop(t)] /\ UNCHANGED uses
       ELSE /\ thread' = [thread EXCEPT ![t] = "use"]
            /\ uses' = [uses EXCEPT ![t] = Touches(t)]
    /\ UNCHANGED <<game, stop, kind, started, logging, hearing>>

\* A native source without a skeleton sends the analysis back to its loop test.
EndUse(t) ==
    /\ thread[t] = "use"
    /\ uses' = [uses EXCEPT ![t] = {}]
    /\ \/ thread' = [thread EXCEPT ![t] = IF t = "inference" THEN "sleep" ELSE "callback"]
       \/ /\ t = "analysis" /\ kind = "hardware" /\ backend = "native"
          /\ thread' = [thread EXCEPT ![t] = "top"]
    /\ UNCHANGED <<game, stop, kind, started, logging, hearing>>

CallbackReturns(w) ==
    /\ thread[w] = "callback"
    /\ thread' = [thread EXCEPT ![w] = "sleep"]
    /\ UNCHANGED <<game, stop, kind, uses, started, logging, hearing>>

\* sleep_worker_until, which looks at stop every 4 ms.
Wake(t) ==
    /\ thread[t] = "sleep"
    /\ thread' = [thread EXCEPT ![t] = "top"]
    /\ UNCHANGED <<game, stop, kind, uses, started, logging, hearing>>

JoinInference ==
    /\ thread["analysis"] = "join" /\ thread["inference"] = "ended"
    /\ thread' = [thread EXCEPT !["analysis"] = "bye", !["inference"] = "none"]
    /\ UNCHANGED <<game, stop, kind, uses, started, logging, hearing>>

Bye(w) ==
    \/ TakeLog(w, "bye", "said") /\ UNCHANGED <<game, stop, kind, uses, started>>
    \/ /\ thread[w] = "said"
       /\ EndLog
       /\ thread' = [thread EXCEPT ![w] = "ended"]
       /\ UNCHANGED <<game, stop, kind, uses, started>>

Run(t) ==
    \/ Turn(t) \/ EndUse(t) \/ Wake(t)
    \/ t \in Workers /\ (Hello(t) \/ Enter(t) \/ CallbackReturns(t) \/ Bye(t))
    \/ t = "analysis" /\ JoinInference

-----------------------------------------------------------------------------
GameCalls ==
    \/ Register \/ Unregister \/ Initialize \/ OpenRealSense \/ InitVisionPose
    \/ StartPreview \/ StopPreview \/ StartAnalysis \/ StopAnalysis \/ Shutdown

Next == GameCalls \/ FinishCall \/ \E t \in Threads : Run(t)

\* The threads run, the game's callbacks return, g_logMtx is granted to whoever waits
\* for it long enough, and the game's thread carries on with a call it has begun.
Fairness ==
    /\ WF_vars(FinishCall)
    /\ \A t \in Threads : SF_vars(Run(t))

Spec == Init /\ [][Next]_vars /\ Fairness

-----------------------------------------------------------------------------
TypeOK ==
    /\ backend \in Backends
    /\ {initialized, engine, listener, hearing} \subseteq BOOLEAN
    /\ held \subseteq {"sensor", "spike"}
    /\ call \in {"none", "ready", "spike", "startPreview", "stopPreview", "startAnalysis",
                 "stopAnalysis", "joinPreview", "joinAnalysis", "reset"}
    /\ stop \in [Workers -> BOOLEAN]
    /\ started \in [Workers -> BOOLEAN]
    /\ thread \in [Threads -> {"none", "new", "hello", "top", "use", "callback", "sleep",
                               "join", "bye", "said", "ended"}]
    /\ kind \in {"hardware", "d4xx", "plain"}
    /\ uses \in [Threads -> SUBSET {"sensor", "spike", "engine"}]
    /\ logging \in Threads \union {"nobody"}

\* SpikeSource keeps its D4xxSource alive.
Alive == held \union (IF "spike" \in held THEN {"sensor"} ELSE {})
              \union (IF engine THEN {"engine"} ELSE {})

(***************************************************************************)
(* No thread is in a source or in the pose engine when it is destroyed,    *)
(* nor in a stack frame that has been left: the inference thread refers to *)
(* the frame of the analysis worker.                                       *)
(***************************************************************************)
SourceOutlivesReaders ==
    /\ \A t \in Threads : uses[t] \subseteq Alive
    /\ thread["inference"] \in {"top", "use", "sleep"} =>
          thread["analysis"] \in {"top", "use", "callback", "sleep", "join"}

(***************************************************************************)
(* Once a Stop or a Shutdown has returned, the game is not called back     *)
(* until it starts the worker again, and its log callback is not running   *)
(* once Unregister has returned.                                           *)
(***************************************************************************)
SilentAfterStop ==
    /\ call = "none" => \A w \in Workers : started[w] \/ thread[w] = "none"
    /\ hearing => listener

(***************************************************************************)
(* An OpenRealSense that fails leaves nothing open that was not open       *)
(* before: a camera that is not released cannot be opened again.           *)
(***************************************************************************)
FailedOpenReleases ==
    call = "none" /\ "sensor" \in held /\ backend = "spike" => "spike" \in held

(***************************************************************************)
(* Every call of the game returns, whatever its workers are doing.         *)
(***************************************************************************)
CallsReturn == call # "none" ~> call = "none"

(***************************************************************************)
(* A worker that was started keeps calling the game back until it is       *)
(* stopped, unless it waits for a sensor that tracks nobody.               *)
(***************************************************************************)
StartedDelivers ==
    \A w \in Workers :
        started[w] ~> \/ ~started[w]
                      \/ thread[w] = "callback"
                      \/ w = "analysis" /\ kind = "hardware" /\ backend = "native"

=============================================================================
