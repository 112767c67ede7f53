# Verification of dance-around-anygear

dance-around-anygear replaces the body-tracking DLL of a dance game
(`libvp4u.dll`) by one that takes bodies from other cameras: Intel D4xx depth
cameras with the SPiKE model in a worker process, a webcam, a Kinect or SteamVR
trackers. This directory holds TLA+ models of the parts of that program that are
hard to test, the TLC configurations that check them, and TLAPS proofs.

Paths below are relative to the repository root; `WK` is
`runtime/spike/anygear_spike/worker.py`, `PROTO` is `protocol.py` beside it,
`IPC` is `src/d4xx/spike_ipc.cpp`, `VP` is `src/vp4u/vp4uwrap.cpp`, `KN` is
`src/vp4u/kinect.cpp`, `BR` is `src/plugin/d4xx_native_bridge.cpp`.
`PROJECT.json` lists components, runs, theorems, the source lines of every
definition, and the hazards each property is aimed at.

## 1. Inventory

### The system's parts

| part | state it keeps | operations | talks to |
| --- | --- | --- | --- |
| **Shared memory** between game and worker (`IPC`, `PROTO`, `spike_ipc_protocol.h`) | a control block (worker state, shutdown flag, error text), a depth slot per camera, a pose slot, two auto-reset events | `publish_depth`, `wait_for_pose`, `worker_state`; `read_depth`, `wait_input`, `publish_pose`, `set_state`, `report_fault` | both processes, through single memory accesses and events |
| **Worker lifecycle** (`IpcHost`, `SpikeSource`, `main` of `WK`) | process and job handles, the source's thread and stop flag | `launch`, startup poll, `stop`, `close_handles`; attach, load, loop, report, exit | control block, operating system |
| **Worker loop** (`run` of `WK`, `temporal.py`) | per camera: background samples, cursor, clip, candidate, prediction; output count and times | calibrate, isolate, check freshness, select, infer, publish | reads depth slots, writes the pose slot |
| **Preprocessing, model, fusion** (`depth.py`, `model_runtime.py`, `fusion.py`) | none between calls (but the joints the worker hands back) | numeric functions on arrays | worker loop |
| **Image pool** (`VP` 640-760, 1680-1700) | blocks with reference counts, a free list, an allocation count, the cap | `make_image_desc`, `AddRefImageDesc`, `ReleaseImageDesc`, reload | analysis and preview threads, any thread of the game |
| **D4xx capture** (`src/vp4u/d4xx.cpp`) | per camera: pipeline, `active`, newest frameset and its number; the depth put aside for a pose | start, capture loop, stall detection, reconnect by serial, latest-frame readers | librealsense, `SpikeSource`, analysis loop |
| **Analysis loops** (`VP` 1240-1660) | the latest and the previous pose and their times, whether the last attempt succeeded, misses counted | read a source, hold, extrapolate, call the game | every source, image pool, the game |
| **Session** (`VP` 912-1240, 1700-2041) | worker threads and stop flags, sources, pose engine | `OpenRealSense`, `Initialize`, `Shutdown`, `InitVisionPoseRealtime`, `Start/Stop...` of preview and analysis | every source, the game |
| **Logger, export table** (`VP` 34-100, 640, 2041) | callback registry under a mutex | register, unregister, log | the game, every thread |
| **Configuration** (`VP` 330-580) | `g_cfg`, `g_cfgPath` | `LoadConfig`, `ReloadConfig`, and from `Initialize` | two files, the environment; read by every thread |
| **Plugin entry, loader redirection** (`src/plugin/backend_loader.cpp`) | hooks, the redirected handle | hook `LoadLibrary`, validate a backend | the game's loader |
| **Native D4xx bridge** (`BR`) | state of the takeover, original functions, patched imports and exports, hooks, a map of virtual color frames | observe the loader, take the wrapper over, load it, alias its names; answer librealsense calls for a virtual color stream | Spice's loader, the game's modules, the game's own wrapper, librealsense |
| **Kinect** (`KN`), **SteamVR** (`steamvr*.cpp`) | a worker thread; selected person, joint filter, newest skeleton and its number | select, smooth, publish; `wait_for_skeleton` | the vendor's runtime, analysis loop |
| **Webcam** (`webcam.cpp`) | a capture thread and its newest frame | open, read newest, close | analysis loop |
| **Pose mapping and prediction** (`spike_pose.cpp`, `body_prediction.cpp`) | one previous pose | geometry | analysis loop |
| **Viewer, teacher data, training, Spice patches, build scripts** | - | maintainers' tools | - |

### How they interact

One depth frame takes this way: librealsense hands it to the D4xx **capture**
thread, which keeps only the newest of each camera. The **SpikeSource** thread of
the game process copies it into the camera's slot of the **shared memory** and
sets the input event. The **worker loop** wakes, takes the newest frame of every
camera, isolates the player, extends or breaks the camera's clip, runs at most
one inference, fuses the newest prediction of every camera, and publishes a pose
in the pose slot, setting the output event. The SpikeSource thread takes the
pose; the **analysis loop**, a third thread, resamples it, holds a lost body for a
while, and calls the game back with a body and an image from the **image pool**,
which the game releases on a thread of its own.

Nothing on the way is a queue: every hand-over is a latest-value mailbox, so
what counts is that values are whole, in order, recent, and that a reader who
sleeps is woken.

### What is hard here

- *Concurrency.* Two processes on one mapping with no lock; a compiler and CPU
  that may reorder payload accesses; one auto-reset event shared by two
  cameras; blocks whose last reference is dropped by any thread; plain
  configuration fields read while they are rewritten.
- *Failure.* Either process may die or hang between any two steps; the job that
  ties their lives together may be missing; a camera may stop, or its frames
  may have gaps; a `malloc` may fail.
- *Timing.* The worker decides about freshness with capture times, its own clock
  read at several moments of a turn, and sequence numbers, which must agree.
- *Ordering.* Fault text before fault state, event after data, shutdown request
  before the kill; the original functions before the redirection that hides
  them; callbacks and readers before what they use is let go.
- *History.* Five backends bridge missing detections in four ways; a
  configuration is stored in layers, again and again.

### What makes each part correct

- Shared memory: no torn snapshot, no older value after a newer one, no lost
  wakeup, delivery when publications pause, no wedging by a dead peer.
- Lifecycle: launching and dropping take bounded time; a dropped source leaves no
  process; a worker that obeys is not killed; a fault reaches the log with its
  text; neither side survives the other's death for long.
- Worker loop: a clip is one uninterrupted sight of the player; nothing survives
  a loss; a published view is recent; the primary camera does not starve; the
  speed of joints is computed over the right interval.
- Image pool: no use after free and no double recycle; no leak; bounded memory;
  a refused image means that the game is behind.
- Capture: readers see a camera's newest frame or nothing, and numbers that go on
  through reconnects; a packet of a camera that fell silent goes in bounded time
  whatever the other cameras do; a pose is measured in the depth of its image; a
  camera on the bus comes back; the source can be closed.
- Analysis: a body that is held is told from one that is seen, it ends after its
  hold, its motion is that of one sight; the performer is one person.
- Session: no thread is in a source or in the pose engine when it goes; nothing
  calls the game back after a stop; every call returns; a failed open keeps
  nothing; a started worker delivers.
- Configuration: fields end within bounds, and with the value of the layer they
  belong to.
- Bridge: a virtual image is of the frame it is asked for, wherever all imports it takes
  were replaced; calls end in the wrapper, not in the bridge; once it is taken over,
  nobody has the table that the bridge was to adapt.

## 2. Plan

Order, most important behaviour first. All of it exists, with runs and proofs.

1. `LatestValue` (abstract) and `SpikeChannel`, with `SpikeChannelProofs`.
2. `SpikeLifecycle`.
3. `ImageLoan` (abstract) and `ImagePool`, with `ImagePoolProofs`.
4. `SpikeWorker`.
5. `LatestFrame` (abstract) and `D4xxCapture`, with `D4xxCaptureProofs`.
6. `SkeletonSource`, composed with the analysis loops in `BodyHold`.
7. `Vp4uSession`.
8. `BridgeFrames`, composed with the takeover in `NativeBridge`.
9. `HostConfig`.
10. Proofs of every component's safety, in modules of their own; those of `HostConfig`
    are in `Vp4uSessionProofs`, since the exports of `VP` drive both.

Two things of the first plan were dropped. A composition of the two mailboxes with the
worker, for a bound on the age of a body from end to end, would chain the bounds that
`OldPacketsGo`, `StaleDepthStaysOut` and `HeldBodyStaysRecent` prove for its parts, which
meet only in the mailboxes between them. The webcam's capture thread has the pattern of
`LatestFrame` for one camera, and nothing else to check.

Theorems worth having: type correctness and safety of each component for every
value of its constants; that the channel, the capture and the pool
implement their abstract specifications; the bounds on the age of a depth packet, of a
view, of a published pose and of a body that is held.

## 3. Modules

Operators are named after the code's functions and variables where it has them.
A comment starting with *Variant* marks a definition that nothing uses: the form
the definition after it would take after a plausible slip. Each property is known to
fail when one of them takes its place (`PROJECT.json`, "mutants").

### SpikeChannel

| TLA+ | code |
| --- | --- |
| `sequence`, `payload` | the sequence word and the rest of `DepthFrame` / `PoseFrame` |
| `HostBeginDepth`, `Store`, `EndWrite`, `HostSignal` | `publish_depth`: word odd, stores, word even, `SetEvent` |
| `HostSkipCamera`, `HostWantPose` | the round of `SpikeSource::Impl::run` over the cameras, then `wait_for_pose` |
| `Look`, `CopyPart`, `Accept`, `Reject`, `LookInVain` | one try of `wait_for_pose` and of `read_depth` |
| `HostGiveUp`, `HostAwake`, `HostCheckState` | the wait on the output event, and the look at the worker's state |
| `WorkerWake`, `WorkerPublish`, `WorkerSignal`, `WorkerAnnounce`, `WorkerSkip` | `wait_input`, and the worker's turn as far as the channel sees it |
| `RequestStop`, `RequestShutdown`, `WorkerFault`, `WorkerExit`, `WorkerCrash` | `~SpikeSource`, `IpcHost::stop`, `report_fault`, the end of `run`, the process dying |

The grain is one access to a sequence word, one store or load of a *part* of a
payload, one event operation. Parts are stored and copied in **any** order,
which is what a compiler may make of `memcpy` and of plain stores; the
interlocked accesses to the sequence word and `MemoryBarrier` keep *their* order.
A payload is modelled by the stamp of the publication each part belongs to,
hence a mixture is visible. Image contents are left out.

`LatestValue` is what the channel promises: per slot the newest value published,
which a reader takes whole. `ImplementsMailbox` says that `SpikeChannel`
implements it under the mapping `newest` -> stamp of the last publication
completed, `delivered` -> the last snapshot accepted.

### SpikeLifecycle

`host` is the step of the thread that owns the `IpcHost` (`initialize`: create
objects, create process suspended, assign to job, resume, poll; `~SpikeSource`:
join, `stop`; `close_handles`), `thread` is the source's thread, `worker` the
step of the worker's `main`. `Deadline` is the passing of the time limit of the
current wait. `HostCrash`, `WorkerCrash` and `WorkerHangs` may happen in every
step in which they can. The job exists or not, and takes the worker or not, by
nondeterministic choice. Frames and poses do not appear: `SpikeChannel` has them.
A turn of the worker's loop is three steps here (`WorkerTurn`,
`WorkerGetsInput`, `WorkerWork`), because the two places that look at
`shutdown_requested`, and the one that looks at the parent, matter.

### ImagePool

One process per thread. `make_image_desc` is `Reuse` or `FindNone`, `Drop` or
`Reserve`, `Malloc` or `MallocFails`, `HandOver`; `ReleaseImageDesc` is
`Release` (the decrement) and, for the last reference, `Recycle` or `Free` and
`Uncount`. Each is one atomic operation or one critical section of the code, so
the cap is tested and raised in two steps, as in the code's compare-exchange loop
it is tested and raised for a value that may have changed. `ReloadParse` and
`ReloadClamp` are the two stores of `image_pool_max` by `config_apply_json` and
`config_load_file`. Pixels are left out.

`ImageLoan` is what the game relies on: images that are lent with one reference, shared,
and given back. Who has a block can be read off the pool: what is in memory, and
neither in the free list nor in a thread's hands, is lent (`Lent`). The mapping is `lent` ->
its reference count, `extent` -> its size; the model's `held`, the references that
the game knows of, has no part in it.

### SpikeWorker

| TLA+ | code |
| --- | --- |
| `Read` | `read_depth` of both cameras, `last_frame_monotonic_ns`, the never-started check |
| `CalibrationEnds`, `CalibrationStalls`, `CalibrationGoesOn` | background calibration (`WK` 440-520) |
| `Sort`, `Isolate` | which cameras are processed; continuity, isolation, bridging, clip (`WK` 540-655) |
| `CheckInput`, `Ready`, `NeedsInference`, `SampleIsDue`, `Select` | freshness, `select_inference_indices`, `source_sample_is_due` |
| `NobodyReady`, `NothingDue`, `StartInference` | the three ways on from there |
| `Publish` | predictions filed, `CameraValid`, `fuse_views` as far as it matters, the pose |
| `Tick` | time passing, at the places of a turn that take time |

A frame is its sequence number and capture time. Whether the player is found in
it, and whether the fused joints are plausible, is open. What the host published
since the worker last looked is chosen when the worker looks (`Newer`);
`SpikeChannel` is the reason why a read is one whole frame newer than the
cursor. History variables, which no guard reads: `joints_time`, `lost_at`,
`reused`, and the fields `at` and `first`. Left out: telemetry, the log, the
heartbeat, the generation count of poses (`SpikeChannel` has it), leaving the loop
(`SpikeLifecycle` has it).

### D4xxCapture

| TLA+ | code |
| --- | --- |
| `step`, `at` | where `open`, `capture_loop` or `close` is, and the camera it serves |
| `active`, `silent`, `delay` | `DeviceStream::active`, the time since `last_complete_frame`, the time until `next_reconnect` |
| `sequence`, `frame`, `age` | `DeviceStream::sequence`, the frameset held, the time since its `host_time_ns` |
| `OpenDevice`, `Opened`, `OpenFails` | `open`, and `acquire` dropping a source that did not open |
| `PollFrameset`, `PollIncomplete`, `PollNothing`, `PollFails`, `Checked` | a camera's turn: poll, align, `capture_frame`, the stall timeout |
| `ClearFrames`, `ClearPending`, `Stopped` | `make_device_unavailable`: the parts of `invalidate_device_frames` that readers see apart, and stopping the pipeline |
| `StillWaiting`, `Reconnect`, `Reconnected`, `ReconnectFails` | `next_reconnect` and `reconnect_device` |
| `DropSource`, `Close` | `~D4xxSource` |
| `ReadDepth` | `get_depth_frame`, as `SpikeSource`'s thread calls it |
| `WantImage`, `CopyImages`, `KeepDepth`, `Infer...` | `get_pose_frame_bgr8`, then the model |
| `MeasureKept`, `NothingKept`, `MeasureCurrent`, `MeasureNothing` | `apply_depth_to_pose` up to the depth it works with |
| `Unplug`, `Plug`, `Freeze` | the bus and librealsense (external) |

The source serves one kind of reader at a time (`use`): the SPiKE backend's
thread, or the inference thread of the MediaPipe backend. Time passes in ticks in
which the thread sleeps (`WakeLater`) or is held up by librealsense (`Block`); a
round of polls takes no tick. A frameset is its number. `measured` is a history
variable. `LatestFrame` is what readers may rely on; the mapping is `newest` ->
`sequence`, `offered` -> the frame of an active camera, `taken` -> `cursor`.

### SkeletonSource and BodyHold

`SkeletonSource` has the state behind the mutex of a native source. Its actions
are whole handlers, because each has one step under the mutex, but for the tick of a
publication, which the code stores after it has released the mutex (`KN` 869-870, `SV`
306): a reader in between sees the tick of the publication before.

| TLA+ | code |
| --- | --- |
| `selected`, `selectedAge` | `activeTrackingId`, the time since `activeTrackingTick` |
| `filter`, `filterAge`, `smoothed` | the joint filter's person and age; whether the skeleton published was made with what it remembers |
| `skeleton`, `skeletonAge`, `unread` | the newest publication, its age, and whether the reader's number differs |
| `SkeletonFrame` (`Select`, `Locked`, `Filtered`, `Publish`) | `on_skeleton_frame` of `KN` with `select_skeleton`, `stabilize_skeleton`, `reset_joint_filter` |
| `StampSkeleton` (`stamped`) | `skelTick`, `skeleton_tick` |
| `TrackerFrame` | a poll of the SteamVR worker |
| `ReadSkeleton`, `SkipSkeleton` | `wait_for_skeleton` |

The score by which the Kinect's best person is chosen is an open choice; joints
and bones are only whose they are. `last` and `lastAge` are history variables.

`BodyHold` is what the loops of `VP` make of it. `backend` is chosen once.

| TLA+ | code |
| --- | --- |
| `TakeFrame`, `InferPose`, `StorePose` | the inference thread of `d4xx_analysis_loop` |
| `ReadNow`, `Deliver` | its output thread: the clock, then the latest pose under the mutex |
| `SpikeSample` (`FileSample`), `SpikeMiss` | a turn of `analysis_loop` with SPiKE: the samples it extrapolates from, and the body it repeats, marks or withdraws |
| `NativeDetect`, `NativeMiss`, `NativeSkip` | a turn with the Kinect or SteamVR |
| `WebcamDetect`, `WebcamMiss` | a turn with a webcam, which counts frames instead of time |

All moments are kept as ages, up to a cap that lies above every limit they are
compared with. `Word` stands for 2^64: `SinceValid` is the unsigned difference the
code computes. Joints, placement on the stage and the extrapolation itself are
left out: a body is tracked, inferred or none. `broken` is a history variable.
The thread of a native source is composed with the loop only for its own
backends; for SPiKE, the samples that arrive and their age are chosen freely.

### Vp4uSession

`call` is how far the call of the game has come, `thread` where each thread is.
A game call up to its first wait is an action (`StartAnalysis`, `Shutdown`, ...);
what follows a wait is one more (`FinishStart`, `FinishStop`, `ShutdownPreview`,
`ResetSources`, ...). The three threads share `Turn`, `EndUse`, `Wake`; `uses` is
what a turn has read from the globals and is working with. `logging` is the
owner of `g_logMtx`, which is held while the game's log callback runs. `kind` is
the loop that `analysis_loop` chose when it began.

Assumed of the game: it calls from one thread, opens the source before it starts
a worker (the order its messages number "runtime 3/5" to "5/5" and
`tests/harness.cpp` 2-4 follows), and its callbacks return without calling a
Stop, Shutdown or the logger. Section 7 says what happens otherwise.
Abstracted: `native` stands for the Kinect and SteamVR; only the log lines at a
loop's start and end take the mutex, and the lines of a call are a wait for it.

### BridgeFrames and NativeBridge

`BridgeFrames` is the map from the address of an infrared frame to its pixels:
`FindBuffer` and `FindNoBuffer` are the lookup, `Convert` the work under no
lock, `Insert` the `emplace`, `EraseBuffer` and `ReleaseFrame` the release, which
is two steps. `Arrive` and `AddRef` are librealsense and the wrapper (external).
An image is the number of the frame it was made of.

`imports` is the set of the wrapper's imports that lead to the bridge. Of the ten
that are replaced the model tells three apart: `"data"` and `"release"` are
`rs2_get_frame_data`, with what describes the data, and `rs2_release_frame`; `"streams"`
are the ones before both, with which a camera is set up. They are replaced in the order of `bridge_bindings`, one page at a
time, so `Replaced` has what a failure can leave behind. An import that is not replaced
leads to librealsense (`GetDirectly`, `ReleaseDirectly`).

`NativeBridge` is the takeover: `LoadModule` and `Map` are the loader, which calls
`loader_notification` before the module is used, hence `TakeOver` and `Reject` are
part of `Map`. `Attach`, `Prepare`, `Preload`, `NotPatched`, `RegisterAliases`,
`HookLoaded`, `AliasFails` are `DllMain` and `spice_sdk_entry_point`, `Destroy` is
`destroy_callback`, also after an entry that failed. `LoadVp4u` and `GetTable` are
what a module of the game does; `LoadAgain` is a hooked load of a module that is there
already, `Resolved` what `get_proc_address_hook` makes of a name, `Adapted` what
`adapt_vp4u_api_table` makes of the table, which depends on `RealtimeOnly`. `bound` and
`export` say *where a pointer leads*: to the wrapper or to the bridge. The wrapper's
threads work (`Frame`) as soon as the game has its table, whatever has become of the
takeover: the game uses a wrapper the bridge has rejected, too.

Assumed: the wrapper stays mapped until the bridge is destroyed, and nobody calls
it then; librealsense answers queries about a live frame. Left out: the
functions that describe virtual streams and profiles, which have no state, the
configuration file but for `RealtimeOnly`, and diagnostic dumps.

### HostConfig

A configuration field stands for all those the code treats alike, a value for
the layer it comes from, or for "out of bounds". `ApplyJson`, `ApplyPlacement`,
`PaceKinect`, `ApplyEnvironment` and `Clamp` are the parts of `config_load_file` in
their order; `InitializeEnvironment` is `Initialize` when a file was loaded
before. What the environment and the files say is chosen freely for each load,
the environment once. `loaded` is a history variable.

## 4. Runs

Twelve runs; those marked V are expected to find a violation, and each belongs
to a finding of section 7.

| run | instance | shows |
| --- | --- | --- |
| `channel_safety` | 2 cameras, payload of 2 words, 2 tries per depth read, 2 frames, 1 pose | whole snapshots, no lost wakeup, the refinement, with which values are in order |
| `channel_liveness` | 1 camera, 1 try per read, 2 frames, 2 poses, fair | newest frame and pose arrive; a dead worker does not wedge the host; the destructor ends the worker |
| `lifecycle` | complete: the model is finite as it is, fair | a worker is asked before it is killed and gone when its source is; a fault has its text; launching, dropping and both kinds of abandonment end |
| `pool` | 2 producers, 1 game thread, 4 blocks, 2 sizes, caps 1 to 3 | ownership, no leak, clamp, the refinement |
| `worker` | 2 cameras, 3 configurations, clock to 4 or 5 ticks | unbroken clips, nothing survives a loss, schedule, recent views and poses |
| `worker_elapsed` V | primary mode, clips of 2 | the wrong interval for the joints' speed |
| `capture` | 2 cameras, 1 required, 2 frames each, timeouts of 1 tick, fair | old packets go; a pose is measured in its own depth unless the camera was torn down; newest frame or nothing; cameras come back; closing ends |
| `hold` | 5 backends, 2 people, limits of 1 to 4 ticks, fair | tracked means seen; what is held was seen recently; motion is of one sight; who has left disappears; the performer is one person |
| `hold_fresh` V | same | a pose stored between two statements counts as infinitely old |
| `session` | complete: the model is finite as it is, fair | sources outlive readers; silence after a stop; failed opens release; calls return; workers deliver |
| `bridge` | 3 modules of which 2 are hooked, 2 threads, 1 address, 2 frames at it, 2 references, with and without `RealtimeOnly`; threads and hooked modules interchangeable | images are of their frame; calls end in the wrapper; nobody keeps the full table |
| `config` | complete: the model is finite as it is | bounds and layers |

### Bounds, and why they are enough

- *Channel.* Tearing needs a copy of two parts around two writes of one slot: 2
  frames and 2 parts. Lost wakeups need two cameras on one event. Two cameras
  with two tries show a read that fails once and then works; one try makes
  *every* overlap a failed read, which is what liveness must survive. The
  proofs hold for every value of these constants.
- *Lifecycle.* No bounds: one launch of one worker. A second launch creates new
  objects with new names, so runs of it do not meet.
- *Pool.* Three producers' worth of interleavings come from two producers and
  the releasing thread; 4 blocks exceed the largest cap, so that going beyond it
  is possible. `Keep` is below the cap, so that both a recycle and a
  free occur. The proofs hold for every value.
- *Worker.* One tick stands for 100 ms, so that the hold (100 ms), the longest
  gap (125 ms), the input age (150 ms) and the shortest interval are one tick
  each, and the clock is read at up to five different ticks. Clips of two frames
  have one inner boundary, which is where `ClipIsUnbroken` can fail. Calibrated
  mode with two processed cameras has the largest state space, hence clips of
  one frame there. The bound of `ViewsAreRecent` is
  tight: with one tick less TLC finds a violation. `MaximumPredictionAge` is not
  reached in these instances.

- *Capture.* Two cameras are the fewest of which one can hold up the other. The
  stall timeout, the reconnect delay and the longest call into librealsense are
  one tick each, so that each can be the one that comes first; two frames of
  each camera are one before and one after a failure. The bound of `NoOldPacket`,
  `OldestPacket`, is reached: with one tick less TLC finds a violation. The proofs
  hold for any number of cameras and frames, and any timeouts.
- *Hold.* A tick stands for at most the smallest limit. The hold (2) exceeds the
  time after which a body is called inferred (1), as 250 ms does 100 ms; gaps and
  ages reach one tick beyond their limits; the Kinect's lock (2), filter (3) and
  stream (4) limits are in the order of the code's 400, 1000 and 2000 ms. The two
  statements of `ReadNow` and `Deliver`, and the completion of an inference and
  its store, may lie a tick apart. A third person adds nothing: properties compare
  the performer with one other.
- *Bridge.* Two frames at one address are an old and a new one; two threads are
  one that converts and one that releases; with one reference each the last one
  is always the first. Addresses do not meet, hence one. A module that is
  hooked and one that is not are the two kinds there are; of the first there are two,
  because one may load the other (`LoadAgain`). Threads and hooked modules differ in
  nothing but their names, and the properties are invariants, so symmetry is sound.
- *Session, configuration.* No bounds: every sequence of calls is covered.

`CHECK_DEADLOCK FALSE` stands where the system may stop: the channel's models end
with both sides gone or at the bounds on stamps, the lifecycle ends with both
processes gone, the worker ends by an error or at the bound of the clock, and the capture ends
when the source is closed, the bridge when it is destroyed. The others never
stop, and their runs check deadlock.

### Fairness

- `SpikeChannel!FairSpec`: weak fairness of the host thread's and of the worker's
  steps (both are threads the system schedules; waits are bounded by 20 and
  25 ms, so a step is always possible), and of `RequestShutdown`, which the
  destructor reaches once it has begun. Nothing is assumed about publications,
  stopping, faults or crashes.
- `SpikeLifecycle!FairSpec`: weak fairness of launch, destruction, the source's
  thread and the worker's steps (unless hung), and of deadlines, because clocks
  advance. A worker without objects to attach to fails to attach. Strong fairness
  of `WorkerStarves`: after ten seconds without a first frame the loop raises, but
  it does so at one place of a turn. Nothing forces the owner to drop the source,
  or anything to fail.

- `D4xxCapture!FairSpec`: weak fairness of the capture thread; strong fairness of
  `WakeLater`, because the thread sleeps between rounds that bring nothing, so
  time passes; strong fairness of `Reconnected` per camera: restarting a camera
  that is on the bus, tried over and over, works at some time. Nothing is assumed
  about frames or the bus, nor that the owner drops the source. A call into
  librealsense takes at most `MaxBlock`; one that never returns would hang the
  program's thread, and no property excepts it.

- `BodyHold!Fairness`: weak fairness of time, of the output thread, of the store
  of what an inference found, and of the frames of a native source and their ticks;
  strong fairness of `NativeTurn`, because a publication wakes the loop that waits for
  it, and of `unread /\ StampSource`: again and again the tick is stored before the loop
  has read the publication, because a thread is not suspended each time between the end of a
  lock and its next statement. Nothing is assumed about an inference that was begun.
- `Vp4uSession!Fairness`: weak fairness of the game's thread within a call; strong
  fairness of each thread's steps, which says that threads are scheduled, that
  the game's callbacks return, and that `g_logMtx` is granted to whoever waits
  for it long enough. Nothing makes the game call.

Conclusions about the future stay conditional where the code's are:
`PoseReachesHost` excepts a worker that died while writing a pose,
`HostDeathStopsWorker` one that hangs or was never resumed outside a job.

## 5. Proofs

For every value of the constants that satisfies the named assumptions, which TLC
evaluates in the runs:

| module | assumption | says |
| --- | --- | --- |
| `SpikeChannelProofs` | `ChannelAssumption` | there is a camera and a try per read; the stamp is part of a payload |
| `SpikeLifecycleProofs` | none | |
| `SpikeWorkerProofs` | `WorkerAssumption` | the two modes; a clip has a frame; limits are natural numbers; an inference interval is not zero, and at least the time after which a sample is due |
| `ImagePoolProofs` | `PoolAssumption` | finitely many blocks and threads; caps are natural numbers in order |
| `D4xxCaptureProofs` | `CaptureAssumption` | there is a camera; limits are natural numbers |
| `BodyHoldProofs` | `HoldAssumption`, `SourceAssumption` | limits are natural numbers; the word exceeds all ages |
| `Vp4uSessionProofs`, for `Vp4uSession` and `HostConfig` | none | |
| `NativeBridgeProofs` | `FrameBounds`, `ModuleAssumption` | there is an address, a use and a reference; hooked modules are modules |

| theorem | statement |
| --- | --- |
| **channel** `TypeCorrect` | `Spec => [](TypeOK /\ Places)` |
| `SnapshotsAreWhole` | `Spec => []NoTornSnapshot` |
| `DeliveryIsInOrder` | `Spec => DeliveryInOrder` |
| `ChannelIsInductive`, `NoWakeupIsLost` | `Spec => []IInv`, `Spec => []NoLostWakeup` |
| `ChannelImplementsMailbox` | `Spec => ImplementsMailbox` |
| **lifecycle** `TypeCorrect` | `Spec => []TypeOK` |
| `WorkerStopsWithSource` | `Spec => []StoppedWithSource` |
| `FaultsHaveText` | `Spec => []FaultHasText` |
| **worker** `LoopIsInductive`, `TypeCorrect` | `Spec => []IInv`, `Spec => []TypeOK` |
| `ClipsAreUnbroken` | `Spec => []ClipIsUnbroken` |
| `LossesAreForgotten` | `Spec => []NothingSurvivesALoss` |
| `PrimaryComesBack` | `Spec => []PrimaryIsRefreshed` |
| `ViewsStayRecent` | `PrimaryIsKnown` implies `Spec => ViewsAreRecent` |
| `StaleDepthStaysOut` | `PrimaryIsKnown` implies `Spec => StaleDepthIsDropped` |
| **pool** `TypeCorrect` | `Spec => []TypeOK` |
| `OwnedImagesAreSafe` | `Spec => []OwnedIsSafe` |
| `NoBlockIsLost` | `Spec => []EveryBlockHasAPlace` |
| `PoolIsBounded` | files within the clamp imply `Spec => []PoolWithinClamp` |
| `PoolImplementsLoan` | `Spec => ImplementsLoan` |
| `RefusalMeansBacklog` | one frame size and no cap of zero imply `Spec => DropMeansBacklog` |
| **capture** `TypeCorrect` | `Spec => []TypeOK` |
| `OldPacketsGo` | `Spec => []NoOldPacket` |
| `DepthOfThePose` | `Spec => PoseHasItsDepth` |
| `CaptureImplementsLatestFrame` | `Spec => ImplementsLatestFrame` |
| **hold** `TypeCorrect` | `Spec => []TypeOK` |
| `MotionStaysContinuous` | `Spec => []MotionIsContinuous` |
| `TrackedBodyWasSeen` | `Spec => TrackedWasSeen` |
| `HeldBodyStaysRecent` | `Spec => HeldBodyIsRecent` |
| `OnlyOvertakenPosesAreLost` | `Spec => DeliveredUnlessOvertaken` |
| `PerformerStaysOnePerson` | `Spec => PerformerIsOnePerson` |
| **session** `TypeCorrect` | `Spec => []TypeOK` |
| `SourcesOutliveReaders` | `Spec => []SourceOutlivesReaders` |
| `StopIsSilent` | `Spec => []SilentAfterStop` |
| `FailedOpensRelease` | `Spec => []FailedOpenReleases` |
| **configuration** `ConfigSettles` | `ConfigSpec => []SettledInBounds` |
| `LayersStayInOrder` | `ConfigSpec => []LayersInOrder` |
| **bridge** `TypeCorrect` | `Spec => []TypeOK` |
| `NoImageIsStale` | `Spec => []NoStaleImage` |
| `BridgeForwards` | `Spec => []ForwardsToWrapper` |
| `FullTableIsGone` | `Spec => []NobodyHasFullTable` |

TLC, given the inductive invariants as invariants of the runs' instances, finds no
violation of them either.

**Channel.** `NoTornSnapshot` alone is not inductive: the snapshot is whole
because the copy was, and the copy is whole because an even word that did not
change surrounded it. `ChannelInv` adds `SlotInv` (an even word vouches for the
whole payload; a word is odd only while its writer is storing or after the worker
died there), `CopyInv` (*while the word still is the one read first*, everything
copied so far belongs to the newest publication) and `DeliveredInv` (what the
reader has is whole, at least its cursor, at most the newest). Most steps leave
the slot alone (`CalmSlot`) or the copy (`KeptCopyInv`); the rest have a lemma
each. The reader's word can be equal after the writer went round only if the
word did not move, because words only grow (`Grows`); the wrap of the
64-bit count is not modelled. The refinement uses
`AcceptTakesNewest`: a copy that is accepted is the newest publication, whole, at
the very step of the comparison.

`NoLostWakeup` speaks of sides that sleep. `WorkerWakeInv` and `HostWakeInv` say the
same of all steps of a turn: whatever is newer than the reader's cursor is covered
by an event that is set, by a writer on its way to setting it, or by a reader that
has still to come to that slot in the scan it is in. For a read that is under way
they add that the event is pending as soon as the word is no longer the one
read first, so that a read may fail after it consumed the event.

**Lifecycle.** `LaunchInv`: as long as the launch goes on, no worker was accepted and
none was killed. `ShutdownInv`: a host in the stop sequence has set the flag, and
closes its handles only when the worker is gone. `TextInv` ties the text to the
worker's step that stores it, one before the state.

**Worker.** `HoldsInv` says of each camera what a clip is: it ends with the newest
candidate; a frame follows the one before within the hold and the longest gap,
because the two may add up but never more; everything in it, and the prediction's
first frame, is newer than the frame at which the player was last lost. That is
inductive only with `FramesInv`: a frame that waits to be isolated is newer than
all the camera holds, but for the last sample of its background, which is read
again while the other camera calibrates; and with `RecentInv`: a camera that is processed was
bridged no longer than the hold. `ReuseInv` is about the schedule: after
an inference that was the secondary's, the count of outputs is not at the
secondary's turn again, or the prediction it would refresh is gone.

`AgeInv` bounds the age of a view: a player in sight was found, or bridged, when the newest
frame was isolated. A hold that is looked at only when a frame arrives, and an input age
that is looked at only when the turn decides, add up to the bound. This fails for
a camera whose player is in sight and which stops being processed. Trying to prove it
without a condition showed that this can happen, and TLC then produced the
behaviour (`MCSpikeWorkerSwitch.cfg`, section 7). `PrimaryIsKnown` therefore names when it
cannot: every configuration has two processed cameras, or background frames to take
(both serials are known before they are complete), or a primary camera that the
serials do not change. The default configuration has background frames.

`PoseInv` carries that bound from the decision to the pose, past an inference that takes
any time. When the turn decides, candidates are from the past, so the bound against the
clock is one against every candidate (`CandidatesArePast`), of which the newest gives the
pose its time; and nothing that a fresh camera holds changes until then (`PosesStay`).

**Pool.** `PlaceInv`: every block is with the game, in the free list, or in the
hands of exactly one thread, by the program counter. That makes the last
release unique. `CountInv` adds `CountExact`: the count is the number of blocks
in memory plus that of threads between count and block, from which the count
is a natural number and the bound follows. `PoolIsBounded`
names its condition, files that do not ask for more than the clamp, as an
assumption in its statement; section 7 says what happens with others.

The refinement needs no more than `PlaceInv`: what nobody in the pool has is exactly what
the game has references to (`LentIsOwned`), so `HandOver` lends, `AddRef` shares, `Release`
gives back, and every other step stutters, `Malloc` and `Free` because the block whose
size they change is not lent. `RefusalMeansBacklog` says when the comment at the refusal
("callback consumer backlogged") is right. Both of its conditions are needed: without
the first TLC finds the behaviour of section 7; and a cap of zero, which a reload may
store for a moment, refuses images while no block exists at all.

**Capture.** `CaptureInv` has, besides types, five parts. `FrameInv`: a frame held
is the newest, and outlives its camera's `active` only until `ClearFrames`; the
refinement follows from it alone, each tear-down and `Close` being a `Lose`.
`PoseInv`: the image is among the frames published; while the model runs the depth put
aside is the image's own or gone, and once it is gone the camera shows nothing or
something newer. The last part is why the order of a tear-down matters: the frames are
cleared before the depth is dropped (`CaptureDrops`), or a reader could measure in what
is about to be cleared. `HeldInv`: the thread that infers holds the source, so `Close`
meets none. `RoundInv` says where the thread
may be held up. `AgeInv` is the argument of `OldPacketsGo`: a packet is as old as
its camera is silent, was younger than the timeout when the thread last looked at
the camera, and the thread has been `Away` since then for the cameras it served
in between, plus the sleep. `NextDeviceAway` shows that going on never makes
`Away` smaller for another camera, and `AwayIsBounded` that it is at most one
blocking call per other camera and one tick.

**Hold.** `PerformerInv`: the selection and the filter are of the person published
last, and their ages are the time since a frame tracked that person, each cut off
at its own limit (`AtMost`); so a selection can be given up only when the lock is over.
`SamplesInv` relates the two samples of SPiKE: both, one or none are there, in
order, and every branch that withdraws the body also forgets them.
`TrackedWasSeen` is about the turn itself: its cases are the branches of the
two loops, and the unsigned difference `SinceValid` can wrap only towards "not
tracked". `HeldBodyIsRecent` is the other end of a hold, for all five backends, and
`OnlyOvertakenPosesAreLost` draws the line around the finding `hold_fresh`: a pose within
its hold is delivered if, and only if, it was not stored after the clock was read
(`SinceValidValue` computes the difference in both cases).

**Session.** The code has no lock around the sources; what protects them is the order
of joins. `CallInv`: while a call changes the sources, there is no worker.
`ReaderInv`: the inference thread exists only within the loop of an analysis worker
that will join it, and only a thread in a turn uses anything. `StopInv`: a worker
that was asked to stop is being waited for. `LogInv` has the mutex. `OpenInv`: a
camera without its SPiKE worker belongs to a call that goes on.

**Configuration.** Neither property is inductive, since both look only at the end of a
load. `ProgressInv` says for each step of a load which layers the fields show already;
`SettledInv` keeps what the last load left until the next one begins. `Initialize` is the
case to look at: it stores the environment again and bounds nothing afterwards, which is
right because the environment's values were checked when they were read (`LayerInv`).

**Bridge.** For `NoStaleImage` it is not enough that a buffer is of the frame at its
address: some thread must *keep* that frame, which means that it has a reference
beyond the one it has announced to drop (`Keeps`), since it will erase the buffer
before it drops another. All of this holds where every frame that is converted is also
erased (`Covered`). `UntouchedInv` is what makes it true at the moment of the takeover,
which may meet threads that already work: no buffer and no conversion is older than the
replaced import. `TakeoverInv` and `TableInv` say which of the pointers have
moved in each state of the takeover.

**Only model-checked.** Everything under fairness, because liveness and `ENABLED`
are beyond the prover: `DepthReachesWorker`, `PoseReachesHost`,
`ShutdownStopsWorker`, `WaitsEnd`, `HostDeathStopsWorker`, `AbandonedWorkerEnds`,
`Recovers`, `CloseEnds`, `LostBodyIsWithdrawn`, `CallsReturn`, `StartedDelivers`.
Every other property of a run that passes has a theorem. The type invariants and
`DeliveryInOrder`, which `ImplementsMailbox` contains, are theorems and in no run.

## 6. Not modelled

- The numerics of depth, model, fusion, pose mapping and prediction, the placement
  on the stage, the Kinect's joint filter and the geometry of SteamVR's roles:
  functions on arrays and poses. Their results are open choices.
- Weak memory between plain accesses *across* a barrier, and the wrap of sequence
  words.
- More than one launch of the worker, and more than two cameras in
  `SpikeWorker` (the code has two).
- The history of joints that `apply_depth_to_pose` smooths with, sensor options,
  and the handles of librealsense, which only the capture thread sees.
- The Kinect's color and depth streams, and how the threads of the Kinect, SteamVR
  and the webcam start and end, beyond that `Vp4uSession` keeps them alive. The webcam
  is a capture thread with a newest frame, the pattern of `LatestFrame` for one
  camera without reconnect.
- `backend_loader.cpp`: it checks a file by hash and by its exports, and redirects
  loads of one name by the means `NativeBridge` has; no state follows.
- The bridge's functions that describe virtual streams, its configuration file but for
  `RealtimeOnly`, and its dumps.
- Data races on single configuration fields, which `HostConfig` reads between
  calls only, and callbacks of the game that call back into the library.
- The maintainers' tools, patches and build files, which do not run with the game.

## 7. Findings

Lines and quotations of the first two, which have runs, are in `PROJECT.json`.

- `worker_elapsed`: line 587 of `WK` uses the name `previous_time_ns`, which holds
  the time of the last plausible joints, for a local of the frame loop. The
  interval the joints' speed is computed over is therefore the time since the last
  depth frame.
- `hold_fresh`: the output thread of `d4xx_analysis_loop` reads the clock
  (`VP` 1348) before it takes the mutex (1354). A pose that the inference thread
  stores in between may carry a later time; the unsigned difference (1359, 1378)
  wraps, exceeds every hold, and the game gets no body in that turn.

Further counterexamples, each with a configuration that shows it (`tlc -config
<cfg> <module>` reports the property violated):

| configuration | property | what it shows |
| --- | --- | --- |
| `MCSpikeWorkerBlocked.cfg` | `DuePrimaryIsServed` | line 763 of `WK` files a prediction under the newest frame although its clip ends with the newest *candidate*; while a miss is bridged the secondary camera asks for the same inference again, is selected, is refused as not due, and a due clip of the primary camera gets no inference in that turn |
| `MCSpikeWorkerSwitch.cfg` | `StaleDepthIsDropped` | with `BackgroundCalibrationFrames` 0 (`config.py` 112-114), in primary mode, camera 0 is processed until both serials are known (`WK` 534-546). If `PrimarySerial` then names the other camera, nothing lets go of what the first one holds: 551-562 only move its cursor, 666-678 forget stale input, and it streams on. 776-783 count its old prediction as valid from then on, and `fuse_views` falls back to it when the new primary camera has no valid view (`fusion.py` 225), so an old pose is published. `docs/research/d430-spike-roadmap.md` 40: "Stale depth retained as current: never; invalid after 150 ms" |
| `MCImagePoolResize.cfg` | `DropMeansBacklog` | blocks of an old frame size in the free list count against the cap and fit nothing |
| `D4xxCapturePairing.cfg` | `DepthIsItsOwn` | when the camera is torn down while the model runs, the depth put aside for the pose is dropped, and the pose is measured in what the camera has when the model is done, possibly a frame of its next connection |
| `NativeBridgePartly.cfg` | `DataAreOfTheirFrame` | when `VirtualProtect` fails between the replacement of `rs2_get_frame_data` and that of `rs2_release_frame` (`BR` 939, 954, 1012-1019), the wrapper is reported as incompatible and the plugin fails to start, but the game goes on using the wrapper. Its frames are converted and kept in `g_frame_buffers` (870-880), and no release erases them (909): the map grows with every frame address, and a frame at an address used before gets the image of the frame that was there (`FindBuffer`) |
| `SpikeLifecycleOrphan.cfg` | `NoOrphan` | a launch that times out without a job leaves the worker to itself |
| `SpikeLifecycleReport.cfg` | `FaultIsReported` | a worker that faults and exits between the poll's look at the state and its look at the process is reported as a bare exit |

Observed while modelling, and not shown by a run of its own:

- During calibration a camera that has its background leaves its cursor where it
  is (`WK` 446-447), so its last frame counts as new input in every turn and a
  camera that dies then is not reported as stalled. The stale input is dropped
  when calibration ends.
- `docs/backends/realsense-d4xx-spike.md` 196-199 and
  `docs/development/debugging.md` 196-198 describe a clip rule of 75 ms without
  skipped frames; the code allows 125 ms and skips.
- In primary mode the secondary camera is never processed, also not when the primary
  delivers nothing (the document's line 83 calls it a "capture fallback").
- In calibrated mode the time of a pose may lie before that of the pose before,
  when the camera with the newer candidate loses its input.
- With `secondary_every_n` at 1 the secondary camera can take every inference, so
  that the primary camera is never refreshed; `PrimaryIsRefreshed` therefore is
  about larger values.
- The host reads the worker's state but not its heartbeat: a crash or hang after
  the startup shows only as poses that stop.
- A reload stores the file's `image_pool_max` in the configuration (`VP` 466) and
  clamps it later (`VP` 560), while producers read it: until then they may allocate
  beyond the clamp (`docs/development/debugging.md` 182).
- `get_pose_frame_bgr8` does not look at the frame's number, so the inference
  thread infers the same frame again until the next one comes, or until the
  camera is given up as stalled.
- `SpikeSource` starts its numbers of poses anew; a second `OpenRealSense` replaces
  the source while an analysis loop may remember the numbers of the first one.
- A Kinect or SteamVR that stops streaming leaves the loop waiting (`VP` 1477)
  without calling the game back, so its last body stays tracked;
  `docs/development/debugging.md` 187 speaks of "not-tracked instead of emitting
  unbounded stale data". `LostBodyIsWithdrawn` assumes that the source streams.
- While a reload is under way the other threads see the file's own size and rates
  until they are bounded (`VP` 466, 552-635), although the size is meant to be
  "one fixed pixel grid" (571). `SettledInBounds` is about the time between calls.
- The bridge erases a virtual image with any reference that is released, not with
  the last (`BR` 910): a thread that keeps another one loses the data it was given.
- With `RealtimeOnly` off `adapt_vp4u_api_table` leaves the table as it is (`BR` 1277), and
  the game has all of it; the log (1560) and the build information (1571) still say
  realtime only. `NobodyHasFullTable` is about the setting that is on.
- A loop that reads a publication of the Kinect or SteamVR before its tick is stored
  judges it by the tick before. After a pause of more than two seconds it takes the
  first new skeleton as too old and skips it (`KN` 865-870, 1048); the next one is read.
- A Kinect that fails to open its streams is shut down twice, by `init` and again
  by `shutdown` (`KN` 409-428, 473).
- A second `OpenRealSense` that fails lets go of the D4xx source but not of
  `g_spike`, which keeps the first one alive (`VP` 1824).
- A callback of the game that calls a Stop or Shutdown makes its thread join
  itself (`VP` 1965, 1717); one that logs or registers locks `g_logMtx` twice
  (`VP` 62).
