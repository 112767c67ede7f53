--------------------------- MODULE SpikeLifecycle ---------------------------
(***************************************************************************)
(* The life of one SPiKE worker process: IpcHost::launch with its startup  *)
(* handshake, SpikeSource's thread, ~SpikeSource, IpcHost::stop and        *)
(* close_handles on the host side; main and run of worker.py on the other. *)
(* Either process may die between two steps, the worker may hang in the    *)
(* model or in an inference, and the cleanup job may be unavailable.       *)
(*                                                                         *)
(* Only what the two sides see of each other is kept: worker_state, the    *)
(* error text, shutdown_requested, the process handle and the job.  The    *)
(* frames and poses they exchange meanwhile are in SpikeChannel.           *)
(* Terminating a process, or closing the last handle of its job, is taken  *)
(* to end it at once.                                                      *)
(***************************************************************************)

VARIABLES
    host,       \* step of the thread that owns the IpcHost
    thread,     \* the thread of SpikeSource: none, running or ended
    late,       \* the deadline of the current wait has passed
    job,        \* the cleanup job: none, empty, or holding the worker
    stop,       \* SpikeSource::Impl::stop
    report,     \* what launch or the log says of the worker: see Reports
    opened,     \* history: launch succeeded
    worker,     \* step of the worker process
    hung,       \* it is stuck in the model or an inference
    killed,     \* history: it was terminated from outside
    state,      \* control.worker_state
    text,       \* control.error_message is set
    shutdown    \* control.shutdown_requested

hostVars   == <<host, thread, late, job, stop, report, opened>>
sharedVars == <<state, text, shutdown>>
vars == <<hostVars, worker, hung, killed, sharedVars>>

HostSteps == {"objects", "create", "assign", "resume", "poll", "check", "open",
              "join", "ask", "await", "kill", "close", "gone", "crashed"}
WorkerSteps == {"none", "suspended", "attach", "watch", "loading", "loop",
                "wait", "work", "stopping", "stopped", "report", "fault",
                "exiting", "exited"}
States == {"empty", "starting", "loading", "ready", "running", "faulted",
           "stopping", "stopped"}
Reports == {"nothing", "setup", "timeout", "fault", "blank", "exited"}

HostAlive   == host # "crashed"
Running     == worker \notin {"none", "exited"}
\* The mapping and the events exist while the host has handles to them.
ObjectsExist == host \notin {"objects", "gone", "crashed"}
\* The worker's main has returned or is about to.
Leaving     == worker \in {"stopping", "stopped", "report", "fault", "exiting",
                           "exited"}

Init ==
    /\ host = "objects"
    /\ thread = "none"
    /\ late = FALSE
    /\ job = "none"
    /\ stop = FALSE
    /\ report = "nothing"
    /\ opened = FALSE
    /\ worker = "none"
    /\ hung = FALSE
    /\ killed = FALSE
    /\ state = "empty"
    /\ text = FALSE
    /\ shutdown = FALSE

\* The process ends now.
Kill ==
    /\ worker' = IF Running THEN "exited" ELSE worker
    /\ killed' = (killed \/ Running)
    /\ UNCHANGED hung

\* Closing the job ends the process it holds.
CloseJob ==
    /\ job' = "none"
    /\ IF job = "holds" THEN Kill ELSE UNCHANGED <<worker, hung, killed>>

\* initialize returns false: close_handles drops every handle, and the
\* destructor's stop then finds nothing to stop.
FailLaunch(why) ==
    /\ report' = why
    /\ host' = "gone"
    /\ CloseJob

-----------------------------------------------------------------------------
(* IpcHost::initialize.                                                    *)

\* The mapping, the events and, where the system allows it, the job.
CreateObjects ==
    /\ host = "objects"
    /\ host' = "create"
    /\ state' = "starting"
    /\ job' \in {"none", "empty"}
    /\ UNCHANGED <<thread, late, stop, report, opened, worker, hung, killed,
                   text, shutdown>>

SetupFails ==
    /\ host \in {"objects", "create"}
    /\ FailLaunch("setup")
    /\ UNCHANGED <<thread, late, stop, opened, sharedVars>>

CreateWorker ==
    /\ host = "create"
    /\ host' = "assign"
    /\ worker' = "suspended"
    /\ UNCHANGED <<thread, late, job, stop, report, opened, hung, killed,
                   sharedVars>>

\* A job the worker cannot join is closed again.
AssignJob ==
    /\ host = "assign"
    /\ host' = "resume"
    /\ job' \in (IF job = "none" THEN {"none"} ELSE {"holds", "none"})
    /\ UNCHANGED <<thread, late, stop, report, opened, worker, hung, killed,
                   sharedVars>>

ResumeWorker ==
    /\ host = "resume"
    /\ host' = "poll"
    /\ worker' = "attach"
    /\ UNCHANGED <<thread, late, job, stop, report, opened, hung, killed,
                   sharedVars>>

\* The startup or shutdown timeout runs out.
Deadline ==
    /\ host \in {"poll", "check", "await"}
    /\ ~late
    /\ late' = TRUE
    /\ UNCHANGED <<host, thread, job, stop, report, opened, worker, hung,
                   killed, sharedVars>>

StartupTimeout ==
    /\ host = "poll"
    /\ late
    /\ FailLaunch("timeout")
    /\ UNCHANGED <<thread, late, stop, opened, sharedVars>>

WorkerIsReady ==
    /\ host = "poll"
    /\ ~late
    /\ state \in {"ready", "running"}
    /\ host' = "open"
    /\ thread' = "running"
    /\ opened' = TRUE
    /\ UNCHANGED <<late, job, stop, report, worker, hung, killed, sharedVars>>

\* worker_error, or a fixed text when the worker left none.
Faulted == IF text THEN "fault" ELSE "blank"

WorkerHasFaulted ==
    /\ host = "poll"
    /\ ~late
    /\ state = "faulted"
    /\ FailLaunch(Faulted)
    /\ UNCHANGED <<thread, late, stop, opened, sharedVars>>

NoNews ==
    /\ host = "poll"
    /\ ~late
    /\ state \notin {"ready", "running", "faulted"}
    /\ host' = "check"
    /\ UNCHANGED <<thread, late, job, stop, report, opened, worker, hung,
                   killed, sharedVars>>

WorkerIsGone ==
    /\ host = "check"
    /\ ~Running
    /\ FailLaunch("exited")
    /\ UNCHANGED <<thread, late, stop, opened, sharedVars>>

\* Another 50 ms, or the output event.
PollAgain ==
    /\ host = "check"
    /\ Running
    /\ host' = "poll"
    /\ UNCHANGED <<thread, late, job, stop, report, opened, worker, hung,
                   killed, sharedVars>>

-----------------------------------------------------------------------------
(* SpikeSource's thread and destructor; IpcHost::stop.                     *)

ThreadSeesFault ==
    /\ thread = "running"
    /\ HostAlive
    /\ state = "faulted"
    /\ thread' = "ended"
    /\ report' = Faulted
    /\ UNCHANGED <<host, late, job, stop, opened, worker, hung, killed,
                   sharedVars>>

ThreadStops ==
    /\ thread = "running"
    /\ HostAlive
    /\ stop
    /\ thread' = "ended"
    /\ UNCHANGED <<host, late, job, stop, report, opened, worker, hung, killed,
                   sharedVars>>

\* The owner drops the source: Shutdown, or OpenRealSense once more.
DropSource ==
    /\ host = "open"
    /\ host' = "join"
    /\ stop' = TRUE
    /\ UNCHANGED <<thread, late, job, report, opened, worker, hung, killed,
                   sharedVars>>

ThreadJoined ==
    /\ host = "join"
    /\ thread = "ended"
    /\ host' = "ask"
    /\ UNCHANGED <<thread, late, job, stop, report, opened, worker, hung,
                   killed, sharedVars>>

AskWorker ==
    /\ host = "ask"
    /\ shutdown' = TRUE
    /\ host' = "await"
    /\ late' = FALSE
    /\ UNCHANGED <<thread, job, stop, report, opened, worker, hung, killed,
                   state, text>>

WorkerHasExited ==
    /\ host = "await"
    /\ ~Running
    /\ host' = "close"
    /\ UNCHANGED <<thread, late, job, stop, report, opened, worker, hung,
                   killed, sharedVars>>

\* Variant: the wait ends early only if there is a job to close.
ShutdownTimeoutWithJob ==
    /\ host = "await"
    /\ late
    /\ Running
    /\ job = "holds"
    /\ host' = "kill"
    /\ UNCHANGED <<thread, late, job, stop, report, opened, worker, hung,
                   killed, sharedVars>>

ShutdownTimeout ==
    /\ host = "await"
    /\ late
    /\ Running
    /\ host' = "kill"
    /\ UNCHANGED <<thread, late, job, stop, report, opened, worker, hung,
                   killed, sharedVars>>

\* Variant: no TerminateProcess when there is no job.
ForceWorkerByJob ==
    /\ host = "kill"
    /\ host' = "close"
    /\ CloseJob
    /\ UNCHANGED <<thread, late, stop, report, opened, sharedVars>>

ForceWorker ==
    /\ host = "kill"
    /\ host' = "close"
    /\ IF job = "none" THEN Kill /\ UNCHANGED job ELSE CloseJob
    /\ UNCHANGED <<thread, late, stop, report, opened, sharedVars>>

CloseHandles ==
    /\ host = "close"
    /\ host' = "gone"
    /\ CloseJob
    /\ UNCHANGED <<thread, late, stop, report, opened, sharedVars>>

\* The game process dies; the system closes its handles.
HostCrash ==
    /\ host \notin {"objects", "crashed"}
    /\ host' = "crashed"
    /\ CloseJob
    /\ UNCHANGED <<thread, late, stop, report, opened, sharedVars>>

-----------------------------------------------------------------------------
(* The worker process.                                                     *)

At(step) == worker = step /\ ~hung
Step(from, to) ==
    /\ At(from)
    /\ worker' = to
    /\ UNCHANGED <<hostVars, hung, killed>>

\* IpcChannel(...): the named objects are there and the header fits.
WorkerAttach ==
    /\ ObjectsExist
    /\ Step("attach", "watch")
    /\ UNCHANGED sharedVars

\* They are gone, or of another version: an error with no channel to report it.
WorkerAttachFails == Step("attach", "exited") /\ UNCHANGED sharedVars

\* monitor_parent, set_state(LOADING_MODEL).
WorkerLoad ==
    /\ HostAlive
    /\ Step("watch", "loading")
    /\ state' = "loading"
    /\ UNCHANGED <<text, shutdown>>

WorkerReady ==
    /\ Step("loading", "loop")
    /\ state' = "ready"
    /\ UNCHANGED <<text, shutdown>>

\* Variant: the parent is not watched.
KeepGoingAlone == ~shutdown

KeepGoing == HostAlive /\ ~shutdown

WorkerTurn ==
    /\ KeepGoing
    /\ Step("loop", "wait")
    /\ UNCHANGED sharedVars

\* shutdown_requested is read again after the wait, the parent is not.
WorkerGetsInput ==
    /\ ~shutdown
    /\ Step("wait", "work")
    /\ UNCHANGED sharedVars

\* The first pose moves READY to RUNNING.
WorkerWork ==
    /\ Step("work", "loop")
    /\ state' \in {state, "running"}
    /\ UNCHANGED <<text, shutdown>>

WorkerLeaves ==
    /\ \/ ~KeepGoing /\ Step("loop", "stopping")
       \/ shutdown /\ Step("wait", "stopping")
    /\ UNCHANGED sharedVars

WorkerStopping ==
    /\ Step("stopping", "stopped")
    /\ state' = "stopping"
    /\ UNCHANGED <<text, shutdown>>

WorkerStopped ==
    /\ Step("stopped", "exiting")
    /\ state' = "stopped"
    /\ UNCHANGED <<text, shutdown>>

\* No parent to watch.
WorkerUnwatched == ~HostAlive /\ Step("watch", "report") /\ UNCHANGED sharedVars

\* Variant: input is missed only after the first pose.
WorkerStarvesLater ==
    /\ host = "gone"
    /\ state = "running"
    /\ Step("work", "report")
    /\ UNCHANGED sharedVars

\* A camera that never delivered ends the worker after ten seconds.  A worker
\* whose launch was given up never gets a frame.
WorkerStarves ==
    /\ host = "gone"
    /\ Step("work", "report")
    /\ UNCHANGED sharedVars

\* Any other exception in run.
WorkerRaises ==
    /\ \/ Step("watch", "report")
       \/ Step("loading", "report")
       \/ Step("work", "report")
    /\ UNCHANGED sharedVars

\* Variant: the state first.
WorkerStoresTextLast ==
    /\ Step("report", "fault")
    /\ state' = "faulted"
    /\ UNCHANGED <<text, shutdown>>

\* report_fault stores the text and then the state.
WorkerStoresText ==
    /\ Step("report", "fault")
    /\ text' = TRUE
    /\ UNCHANGED <<state, shutdown>>

WorkerSetsFault ==
    /\ Step("fault", "exiting")
    /\ state' = "faulted"
    /\ UNCHANGED <<text, shutdown>>

WorkerExits == Step("exiting", "exited") /\ UNCHANGED sharedVars

WorkerHangs ==
    /\ worker \in {"loading", "work"}
    /\ ~hung
    /\ hung' = TRUE
    /\ UNCHANGED <<hostVars, worker, killed, sharedVars>>

WorkerCrash ==
    /\ Running
    /\ worker # "suspended"
    /\ worker' = "exited"
    /\ UNCHANGED <<hostVars, hung, killed, sharedVars>>

-----------------------------------------------------------------------------
Launch ==
    \/ CreateObjects \/ CreateWorker \/ AssignJob \/ ResumeWorker
    \/ StartupTimeout \/ WorkerIsReady \/ WorkerHasFaulted \/ NoNews
    \/ WorkerIsGone \/ PollAgain

Destroy ==
    \/ ThreadJoined \/ AskWorker \/ WorkerHasExited \/ ShutdownTimeout
    \/ ForceWorker \/ CloseHandles

Thread == ThreadSeesFault \/ ThreadStops

WorkerRuns ==
    \/ WorkerAttach \/ WorkerLoad \/ WorkerReady \/ WorkerTurn
    \/ WorkerGetsInput \/ WorkerWork \/ WorkerLeaves \/ WorkerStopping
    \/ WorkerStopped \/ WorkerUnwatched \/ WorkerStoresText \/ WorkerSetsFault
    \/ WorkerExits

Next ==
    \/ Launch \/ Deadline \/ SetupFails \/ Thread \/ DropSource \/ Destroy
    \/ HostCrash
    \/ WorkerRuns \/ WorkerAttachFails \/ WorkerStarves \/ WorkerRaises
    \/ WorkerHangs \/ WorkerCrash

Spec == Init /\ [][Next]_vars

\* Threads that can run do, clocks advance.  Nothing forces the owner to drop
\* the source, or anything to fail; a worker with no objects to attach to does.
FairSpec ==
    /\ Spec
    /\ WF_vars(Launch)
    /\ WF_vars(Deadline)
    /\ WF_vars(Thread)
    /\ WF_vars(Destroy)
    /\ WF_vars(WorkerRuns)
    /\ WF_vars(~ObjectsExist /\ WorkerAttachFails)
    /\ SF_vars(WorkerStarves)

-----------------------------------------------------------------------------
TypeOK ==
    /\ host \in HostSteps
    /\ thread \in {"none", "running", "ended"}
    /\ job \in {"none", "empty", "holds"}
    /\ report \in Reports
    /\ worker \in WorkerSteps
    /\ state \in States
    /\ late \in BOOLEAN /\ stop \in BOOLEAN /\ opened \in BOOLEAN
    /\ hung \in BOOLEAN /\ killed \in BOOLEAN
    /\ text \in BOOLEAN /\ shutdown \in BOOLEAN
    /\ thread = "none" <=> ~opened
    /\ job = "empty" => host \in {"create", "assign"}
    /\ hung => worker \in {"loading", "work", "exited"}

\* A source that was opened and dropped leaves no process, whatever the worker
\* was doing and with or without a job; and a worker the host accepted is killed
\* only after it was asked to stop and had its time, or because the game died.
StoppedWithSource ==
    /\ host = "gone" /\ opened => ~Running
    /\ opened /\ killed => shutdown \/ ~HostAlive

\* A fault is never seen before its text.
FaultHasText == report # "blank"

\* Launching takes no longer than the startup timeout, dropping no longer than
\* the shutdown timeout, even with a worker that hangs.
WaitsEnd ==
    /\ host = "poll" ~> host \in {"open", "join", "gone", "crashed"}
    /\ host = "join" ~> host \in {"gone", "crashed"}

\* When the game dies, the worker ends: by the job, or because it watches its
\* parent.  Outside the job nothing reaches one that hangs or was not resumed.
HostDeathStopsWorker ==
    ~HostAlive ~> ~Running \/ hung \/ worker = "suspended"

\* A worker whose launch was given up ends by itself.
AbandonedWorkerEnds == host = "gone" ~> ~Running \/ hung

\* What the documents say and the code does not quite do: that the DLL stops
\* the worker it starts, also when the launch fails ...
NoOrphan == host = "gone" => ~Running \/ Leaving

\* ... and that it reports the worker's fault, rather than a bare exit code.
FaultIsReported == report = "exited" => state # "faulted"
=============================================================================
