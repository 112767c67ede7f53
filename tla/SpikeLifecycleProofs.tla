------------------------ MODULE SpikeLifecycleProofs ------------------------
(***************************************************************************)
(* Proofs about SpikeLifecycle: whenever the processes die or the worker   *)
(* hangs, and with or without a cleanup job.                               *)
(***************************************************************************)
EXTENDS SpikeLifecycle, TLAPS

\* A launch that goes on: no worker before CreateProcess, a suspended one until
\* it is resumed, and none that was killed.
LaunchInv ==
    /\ host \in {"objects", "create"} => worker = "none"
    /\ host \in {"assign", "resume"} => worker = "suspended"
    /\ host \in {"objects", "create", "assign", "resume", "poll", "check"} =>
          ~opened /\ ~killed

\* A shutdown that goes on: the worker was asked, and is gone before the handles are.
ShutdownInv ==
    /\ host \in {"await", "kill", "close"} => shutdown
    /\ host = "close" => ~Running
    /\ StoppedWithSource

\* The text is there before the worker calls itself faulted.
TextInv ==
    /\ worker = "fault" \/ state = "faulted" => text
    /\ FaultHasText

LifeInv == TypeOK /\ LaunchInv /\ ShutdownInv /\ TextInv

-----------------------------------------------------------------------------

USE DEF hostVars, sharedVars, HostAlive, Running

LEMMA InitLife == Init => LifeInv
<1> SUFFICES ASSUME Init PROVE LifeInv
  OBVIOUS
<1>1. /\ late \in BOOLEAN /\ stop \in BOOLEAN /\ opened \in BOOLEAN
      /\ hung \in BOOLEAN /\ killed \in BOOLEAN
      /\ text \in BOOLEAN /\ shutdown \in BOOLEAN
  BY Zenon DEF Init
<1>2. TypeOK
  BY <1>1 DEF Init, TypeOK, HostSteps, WorkerSteps, States, Reports
<1>3. ~opened /\ ~killed
  BY Zenon DEF Init
<1> QED BY <1>2, <1>3 DEF Init, LifeInv, LaunchInv, ShutdownInv, TextInv,
        StoppedWithSource, FaultHasText

\* The steps of a launch that goes on or succeeds.
LaunchSucceeds ==
    \/ CreateObjects \/ CreateWorker \/ AssignJob \/ ResumeWorker \/ Deadline
    \/ WorkerIsReady \/ NoNews \/ PollAgain

\* Those that give it up.
LaunchFails ==
    SetupFails \/ StartupTimeout \/ WorkerHasFaulted \/ WorkerIsGone

LEMMA LaunchKeepsLife == LifeInv /\ LaunchSucceeds => LifeInv'
<1> SUFFICES ASSUME LifeInv, LaunchSucceeds PROVE LifeInv'
  OBVIOUS
<1> USE DEF LifeInv, TypeOK, LaunchInv, ShutdownInv, TextInv, StoppedWithSource,
            FaultHasText, HostSteps, WorkerSteps, States
<1>1. CASE CreateObjects
  BY <1>1 DEF CreateObjects
<1>2. CASE CreateWorker
  BY <1>2 DEF CreateWorker
<1>3. CASE AssignJob
  BY <1>3 DEF AssignJob
<1>4. CASE ResumeWorker
  BY <1>4 DEF ResumeWorker
<1>5. CASE Deadline
  BY <1>5 DEF Deadline
<1>6. CASE WorkerIsReady
  BY <1>6 DEF WorkerIsReady
<1>7. CASE NoNews
  BY <1>7 DEF NoNews
<1>8. CASE PollAgain
  BY <1>8 DEF PollAgain
<1> QED BY <1>1, <1>2, <1>3, <1>4, <1>5, <1>6, <1>7, <1>8 DEF LaunchSucceeds

\* A process that is killed, or whose job is closed, does not run, or was not in the job.
LEMMA CloseJobEffect ==
    ASSUME TypeOK, CloseJob
    PROVE  /\ job' = "none" /\ hung' = hung /\ killed' \in BOOLEAN
           /\ worker' \in {worker, "exited"}
           /\ worker' = worker => killed' = killed
           /\ job = "holds" => worker' \in {"none", "exited"}
BY DEF CloseJob, Kill, TypeOK

LEMMA FailureKeepsLife == LifeInv /\ LaunchFails => LifeInv'
<1> SUFFICES ASSUME LifeInv, LaunchFails PROVE LifeInv'
  OBVIOUS
<1>1. PICK why \in Reports \ {"blank"} : FailLaunch(why)
  BY DEF LaunchFails, SetupFails, StartupTimeout, WorkerHasFaulted, WorkerIsGone, Faulted,
     Reports, LifeInv, TextInv
<1>2. UNCHANGED <<thread, late, stop, opened, state, text, shutdown>> /\ ~opened
  BY DEF LaunchFails, SetupFails, StartupTimeout, WorkerHasFaulted, WorkerIsGone, LifeInv,
     LaunchInv
<1>3. CloseJob /\ host' = "gone" /\ report' = why
  BY <1>1 DEF FailLaunch
<1> QED BY <1>2, <1>3, CloseJobEffect
        DEF LifeInv, TypeOK, LaunchInv, ShutdownInv, TextInv, StoppedWithSource,
            FaultHasText, HostSteps, WorkerSteps

LEMMA DestroyKeepsLife ==
    LifeInv /\ (Thread \/ DropSource \/ Destroy \/ HostCrash) => LifeInv'
<1> SUFFICES ASSUME LifeInv, Thread \/ DropSource \/ Destroy \/ HostCrash PROVE LifeInv'
  OBVIOUS
<1> USE DEF LifeInv, TypeOK, LaunchInv, ShutdownInv, TextInv, StoppedWithSource,
            FaultHasText, HostSteps, WorkerSteps
<1>1. CASE ThreadSeesFault
  BY <1>1 DEF ThreadSeesFault, Faulted, Reports
<1>2. CASE ThreadStops
  BY <1>2 DEF ThreadStops
<1>3. CASE DropSource
  BY <1>3 DEF DropSource
<1>4. CASE ThreadJoined
  BY <1>4 DEF ThreadJoined
<1>5. CASE AskWorker
  <2>1. TypeOK' /\ LaunchInv'
    <3>1. /\ host = "ask" /\ host' = "await"
          /\ UNCHANGED <<thread, job, stop, report, opened, worker, hung, killed, state, text>>
      BY <1>5 DEF AskWorker
    <3>2. shutdown' \in BOOLEAN /\ late' \in BOOLEAN
      BY <1>5, Zenon DEF AskWorker
    <3>3. TypeOK'
      BY <3>1, <3>2
    <3>4. LaunchInv'
      BY <3>1
    <3> QED BY <3>3, <3>4
  <2>2. ShutdownInv' /\ TextInv'
    BY <1>5 DEF AskWorker
  <2> QED BY <2>1, <2>2
<1>6. CASE WorkerHasExited
  BY <1>6 DEF WorkerHasExited
<1>7. CASE ShutdownTimeout
  BY <1>7 DEF ShutdownTimeout
<1>8. CASE ForceWorker
  <2>1. CASE job = "none"
    BY <1>8, <2>1 DEF ForceWorker, Kill
  <2>2. CASE job = "holds"
    BY <1>8, <2>2, CloseJobEffect DEF ForceWorker
  <2> QED BY <1>8, <2>1, <2>2 DEF ForceWorker
<1>9. CASE CloseHandles
  BY <1>9, CloseJobEffect DEF CloseHandles
<1>10. CASE HostCrash
  BY <1>10, CloseJobEffect DEF HostCrash
<1> QED BY <1>1, <1>2, <1>3, <1>4, <1>5, <1>6, <1>7, <1>8, <1>9, <1>10 DEF Thread, Destroy

\* The steps of the worker: the host's side stays, and a worker that runs goes on or ends.
WorkerMoves ==
    /\ UNCHANGED <<hostVars, killed, shutdown>>
    /\ UNCHANGED worker \/ (Running /\ worker # "suspended"
                            /\ worker' \in WorkerSteps \ {"none", "suspended"})
    /\ hung' \in BOOLEAN
    /\ hung' => worker' \in {"loading", "work", "exited"}
    /\ state' \in States /\ text' \in BOOLEAN
    /\ text => text'
    /\ worker' = "fault" => text'
    /\ state' = "faulted" => text'

LEMMA WorkerStepMoves ==
    ASSUME LifeInv, WorkerRuns \/ WorkerAttachFails \/ WorkerStarves \/ WorkerRaises
    PROVE  WorkerMoves
<1> USE DEF LifeInv, TypeOK, TextInv, Step, At, WorkerMoves, WorkerSteps, States
<1>1. CASE WorkerAttach \/ WorkerLoad \/ WorkerReady \/ WorkerTurn \/ WorkerGetsInput
  BY <1>1 DEF WorkerAttach, WorkerLoad, WorkerReady, WorkerTurn, WorkerGetsInput
<1>2. CASE WorkerWork \/ WorkerLeaves \/ WorkerStopping \/ WorkerStopped
  BY <1>2 DEF WorkerWork, WorkerLeaves, WorkerStopping, WorkerStopped
<1>3. CASE WorkerUnwatched \/ WorkerSetsFault \/ WorkerExits
  BY <1>3 DEF WorkerUnwatched, WorkerSetsFault, WorkerExits
<1>4. CASE WorkerStoresText
  <2>1. text' /\ text' \in BOOLEAN
    BY <1>4, Zenon DEF WorkerStoresText
  <2> QED BY <1>4, <2>1 DEF WorkerStoresText
<1>5. CASE WorkerAttachFails \/ WorkerStarves \/ WorkerRaises
  BY <1>5 DEF WorkerAttachFails, WorkerStarves, WorkerRaises
<1> QED BY <1>1, <1>2, <1>3, <1>4, <1>5 DEF WorkerRuns

LEMMA WorkerKeepsLife ==
    LifeInv /\ (WorkerRuns \/ WorkerAttachFails \/ WorkerStarves \/ WorkerRaises
                \/ WorkerHangs \/ WorkerCrash) => LifeInv'
<1>1. LifeInv /\ (WorkerHangs \/ WorkerCrash) => WorkerMoves
  BY DEF WorkerHangs, WorkerCrash, LifeInv, TypeOK, TextInv, WorkerMoves, WorkerSteps
<1>2. LifeInv /\ WorkerMoves => LifeInv'
  BY DEF WorkerMoves, LifeInv, TypeOK, LaunchInv, ShutdownInv, TextInv, StoppedWithSource,
     FaultHasText, WorkerSteps
<1> QED BY <1>1, <1>2, WorkerStepMoves

LEMMA NextLife == LifeInv /\ [Next]_vars => LifeInv'
<1>1. LifeInv /\ UNCHANGED vars => LifeInv'
  BY DEF vars, LifeInv, TypeOK, LaunchInv, ShutdownInv, TextInv, StoppedWithSource,
     FaultHasText
<1> QED BY <1>1, LaunchKeepsLife, FailureKeepsLife, DestroyKeepsLife, WorkerKeepsLife
        DEF Next, Launch, LaunchSucceeds, LaunchFails

LEMMA LifeInvariant == Spec => []LifeInv
BY InitLife, NextLife, PTL DEF Spec

-----------------------------------------------------------------------------

\* Every variable keeps its type.
THEOREM TypeCorrect == Spec => []TypeOK
<1>1. LifeInv => TypeOK
  BY DEF LifeInv
<1> QED BY <1>1, LifeInvariant, PTL

\* A source that was opened and dropped leaves no process, and a worker the host
\* accepted is killed only after it was asked to stop, or because the game died.
THEOREM WorkerStopsWithSource == Spec => []StoppedWithSource
<1>1. LifeInv => StoppedWithSource
  BY DEF LifeInv, ShutdownInv
<1> QED BY <1>1, LifeInvariant, PTL

\* Neither the launch nor the log ever shows a fault without its text.
THEOREM FaultsHaveText == Spec => []FaultHasText
<1>1. LifeInv => FaultHasText
  BY DEF LifeInv, TextInv
<1> QED BY <1>1, LifeInvariant, PTL

=============================================================================
