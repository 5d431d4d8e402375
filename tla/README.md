# Verification of the Galaxy S II device tree: camera, radio and audio

This directory is a TLA+ development about the native code of this device tree:
modules that model it, TLC configurations that check them on small instances,
and theorems that TLAPS proves for every value of the constants.  The code has
no design documents; its comments are the only statements of intent, and they
are what the models are held against.

## The system

| component | state | operations | talks to |
|---|---|---|---|
| **Camera3 device** (`camera3/Camera3.cpp`) | the session (`closing_`, `flushing_`, `sessionGeneration_`), `previewQueue_`, `inFlightPreview_`, `pendingJpeg_`, `stillQueued_`, `previewAbort_`, worker tasks, FIMC1 queue, result queue, scratch buffer, torch | `configure_streams`, `process_capture_request`, `flush`, `close`, `set_torch_mode`; worker, FIMC1 and result threads; callbacks of the backend | framework (calls and `process_capture_result`), backend (calls under `backendOpsMutex_`, callbacks on its threads) |
| **Camera backend** (`camera3/exynos_camera.c`) | `preview_enabled`, `recording_enabled`, `recording_buffers_held`, `picture_enabled`, node 0 and node 2 buffers, the preview, picture and autofocus threads | start and stop of preview, recording, picture, autofocus; parameters; requeue of a recording buffer | V4L2 nodes (`exynos_v4l2.c`), Camera3 |
| parameters, EXIF (`exynos_param.c`, `exynos_exif.c`) | a key-value list; none | get and set; build a segment | backend, Camera3 |
| V4L2 wrappers (`exynos_v4l2.c`), metadata (`Metadata.cpp`) | file descriptors; tables | one ioctl each; none | kernel driver; framework |
| **RIL shim** (`shims/libsecril-shim/secril-shim.cpp`) | network-recovery state and generation, identity requests, radio and registration caches, `vendorRilReady` | requests, completions, unsolicited responses, timed callbacks, delayed vendor initialisation | libril, libsec-ril |
| **SAP shim** (`sec-sap.cpp`, `sap-functions.cpp`, `secril-sap.cpp`) | `g_connectionState`, a token per vendor request | the SIM access profile requests, each one or two vendor requests | libril's SAP socket, libsec-ril |
| **Audio HAL** (`tinyalsa_audio/`, without `mixer.c`) | device, stream and RIL locks, `standby`, the PCM handles, mixer routes | open and close of streams, write, read, standby, routes, mode, volumes | ALSA, libsecril-client |
| **Mixer** (`tinyalsa_audio/mixer.c`, `configs/tinyalsa-audio.xml`) | the devices of three directions, which one is current and whether it is on | read the configuration, state, device, volume, mute | ALSA controls |
| **Codec HAL** (`yamaha-mc1n2-audio/`) | routes, hwdep handle | start, route, stop | kernel driver |
| **GPS shim** (`shims/libgps-shim/gps.c`) | the framework's callbacks, the position reported last | hooking of the vendor's tables, filtered positions | vendor GPS library |
| **Java RIL** (`ril/telephony/.../SamsungExynos4RIL.java`) | the requests outstanding, the proactive command kept for the SIM toolkit | responses, unsolicited messages, requests refused here | framework, rild |

What is hard about each of them:

- *Camera3*: seven threads share the frames of a session.  A frame moves through
  a queue, a set, a still, the FIMC1 queue and the result queue, hand over hand
  and under three mutexes, while `flush()` and `close()` take the session apart;
  each hand-over waits outside its lock (fences, polls, copies) and looks at the
  session again after it.  The framework must get each buffer back exactly once.
- *Backend*: the preview thread is stopped by a flag and a bounded wait; it may
  outlive the stop.  FIMC1 works on node-2 buffers asynchronously while node 2 is
  stopped and its memory released.  Picture and preview share node 0.
- *RIL shim*: timers and requests of the network recovery outlive the state that
  started them; generations decide what is stale.  The vendor library calls back
  under its own lock, so follow-up requests have to leave the callback.
- *SAP shim*: one variable stands for a connection that two two-step exchanges
  change.
- *Audio HAL*: three nested locks, with early returns between lock and unlock.
- *Mixer*: three directions write the same controls; each knows only its own
  device, and what it sets it has to take back.
- *Torch, autofocus, stills*: threads of their own that outlive the call that
  started or stopped them.
- *GPS shim*: a filter that may repeat an old position, but not for ever.

The hazards, each at its line with the properties that cover it, are in
`PROJECT.json`.

## The modules

`None`, `Buffers`, `Threads` and the like are CONSTANTS with named assumptions;
one action is one handler, one step of a thread or one section under a lock.
The scheduler may interleave threads anywhere the code holds no common lock.

| module | what it is |
|---|---|
| `RecordingBuffers` | node-2 recording buffers: preview thread, FIMC1 worker and whoever starts or stops the preview |
| `FrameContract` | the abstract specification: what a camera device owes the framework for each request |
| `CaptureSession` | requests inside `NativeCamera3Device`, from `process_capture_request()` to `process_capture_result()`, with `flush()` and `close()` |
| `StreamSetup` | `configure_streams()`, and how a session gets its sensor mode, its sizes and FIMC2 |
| `CameraSettings` | the settings of a request on their way to the sensor, autofocus scans, what a still takes with it |
| `ExifLayout` | the APP1 segment of a still, offset by offset (no state) |
| `CaptureNodes` | nodes 0 and 2, call by call and operation by operation, with the picture threads |
| `TorchMode` | the torch, against opening and closing a camera |
| `NetworkRecovery` | the RIL shim's automatic network selection |
| `RilRequests` | Android's requests to the RIL shim, the device identity in two stages, late initialisation, cached registrations |
| `SapSession` | the SIM access profile: SAP thread, timed callbacks, vendor completions |
| `JavaRil` | the framework's end: serials, responses, proactive commands |
| `AudioRouting` | streams, routes and phone calls in the audio HAL, with the codec and the modem's client |
| `MixerRoutes` | the mixer: its configuration, tag by tag, and the controls the three directions set |
| `GpsShim` | the positions of the vendor's GPS library on their way to the framework |

`RecordingBuffersProofs`, `AudioRoutingProofs` and `CaptureSessionProofs` hold the
theorems about the module in their name, the second of them also those about
`MixerRoutes`; `CaptureOrderProofs` goes on where the last of them ends.  `CameraProofs` has those about `StreamSetup`, `CameraSettings` and
`TorchMode`; `StillProofs` has those about the picture threads of `CaptureNodes`, and
`NodesProofs`, which extends it, the one about the nodes.  `PhoneProofs` has those
about `RilRequests`, `NetworkRecovery`, `SapSession`, `JavaRil` and `GpsShim`.
`MCRecordingBuffers`, `MCCaptureSession` and `MCAudioRouting` choose the
instances of their module.  `MCCamera` runs `StreamSetup`, `CameraSettings`,
`CaptureNodes` and `TorchMode` side by side, `MCPhone` does so with `RilRequests`,
`SapSession`, `JavaRil`, `MixerRoutes` and `GpsShim`: their variables are
disjoint, the variable `part` says which of them a behaviour runs, and so their
states add up instead of multiplying.  Nothing interacts across the parts there;
each part already contains the actors of the code that share its state.
`NetworkRecovery` is checked by its own cfg.

### RecordingBuffers

The V4L2 driver owns some buffers of node 2 (`driver`); the preview thread
takes one out beside each preview frame and calls back into Camera3 with it;
`queueVideoBlit` may keep it for the FIMC1 worker, which gives it back through
`exynos_camera_backend_requeue_recording_buffer`.  `recording_buffers_held`
counts what is out, and `preview_stop` waits for it to drop to zero before node 2
goes down.

| state | code |
|---|---|
| `preview_enabled`, `preview_thread_running`, `recording_enabled`, `recording_buffers_held`, ... | fields of `struct exynos_camera` |
| `preview_mutex` | the mutex; held by one thread for a whole frame, so that thread's place is `stage` and its buffer `index` |
| `node0_on`, `node2_on`, `driver` | streaming nodes, and the buffers the driver may fill |
| `videoBlitQueue`, `videoBlitActive`, the blit's place | `videoBlitQueue_`, `videoBlitActive_`, `videoBlitLoop` |
| `stopper` | where the caller of start, stop or `recording_start` is |

A preview thread runs `ThreadTest`, `ThreadEnter`, `ThreadLock`, then the frame:
`PollPreview`, `ArmRecording`, `PollRecording`, `HoldRecording`,
`FrameCallback` (Camera3 takes the buffer, or not), `RequeueRecording` or
`DropRecording`, `RequeuePreview`.  Every `ioctl` and `poll` may fail.
`StopBegin` ... `StopFinish` is `preview_stop`, whose waits may give up
(the thread then outlives it, hence two `Threads`), and `PictureRefused` is the
path where the wrapper believes a preview is stopped that is not (`forgotten` is the
history of it).

### CaptureSession and FrameContract

A frame is the number of its request.  `previewQueue`, `inFlightPreview`,
`pendingJpeg`, the FIMC1 queue and `resultQueue` are the containers of
Camera3.cpp; `owned[r]` is the set of buffers `FrameJob` r still has a pointer to,
`returned[r]` counts what the framework got, and `generation[r]` is the session
the frame was made in.  `pc` and `job` give the place and the frame of the seven
threads:

| thread | code | actions |
|---|---|---|
| framework | `processCaptureRequest` | `RejectRawRequest`, `AcceptRequest`, `UpdateBackendParameters`, `Reserve`, `Enqueue`, `PostRequest` |
| worker | `workerLoop`, `startPreviewWorker`, `takePictureWorker` | `PopTask`, `StartPreview`, `TakePicture`, `PictureStart`, ... |
| capture | the native preview thread | `NextNativeFrame`, `DequeuePreview`, `SourceFence`, `DequeueRecheck`, `CopyPreview`, ... |
| blit | `videoBlitLoop` | `BlitPop`, `BlitComplete`, `BlitRequeue` |
| result | `resultLoop` | `ResultPop`, `Deliver`, `ScheduleJpeg`, `PostTakePicture` |
| picture | the native picture thread, `handleJpeg` | `PictureThread`, `DataCallback`, `HandleJpeg`, `SendJpeg`, `RestartPreview`, ... |
| flusher | `flush`, `closeInternal` on a second framework thread | `Flush`, `Close`, `FlushDrainJpeg`, ..., `FlushResults`, `FlushEnd`, `CloseEnd` |

`failFrame` reads what it is about to fail and acts on it later; a thread in it
has `failing[t]` set, and `FailLook`, `FailReturn` and `FailStill` are its steps.
The faults of a scenario (`fence`, `start`, `preview`, `copy`, `take`, `picture`)
say which failures may happen, so that a run without faults shows what the
interleavings alone can do.

`FrameContract` knows requests, the buffers owed for each and the answers sent.
`Contract == INSTANCE FrameContract WITH ...` maps `owed` to the buffers asked
for and not yet returned, and `answer` to the metadata and errors sent;
`ContractSpec` (every step of the session is a step of the contract or a
stutter) is a property of the run `session`.

### NetworkRecovery

`voiceState`, `dataState`, `radioOn`, `simReady`, `selectionKnown`,
`selectionAutomatic`, `callActive`, `timerPending`, `requestInFlight`, `attempts`
and `generation` are the variables of the shim's recovery block.  `timers[g]` and
`requests[g]` count what is outside it: timed callbacks that libril still holds
and requests that libsec-ril.so still has, made in generation g.  Each update
(`UpdateRegistration`, `UpdateRadioState`, `SelectionReply`, `UpdateCallState`) is one section
under `networkRecoveryMutex`; `Schedule` and `Arm` are the two parts of
`scheduleNetworkRecovery`, `TimerFires`, `TimerDecides` and `SendRequest` the
timer, and `RequestComplete` the completion.  A radio state is read before the
mutex is taken (`Note`) and recorded later (`UpdateRadioState`), by libril's
thread or the vendor's.

### AudioRouting

Three threads: `"policy"`, on which the framework opens and closes streams, changes
the mode and routes the device, and the thread of each stream, `"out"` and `"in"`,
which writes or reads, goes to standby and routes its stream.  `audio_in.c` repeats
`audio_out.c`, so one set of actions stands for both; they differ in that only an
output route reaches the modem.

| state | code |
|---|---|
| `deviceLock`, `streamLock` | `tinyalsa_audio_device.lock` and the `lock` of each stream |
| `rilLeft` | `ril_interface->lock`: every user holds the device lock, so all that matters is whether a refused connection left it locked |
| `standby`, `pcm`, `device_current` | fields of a stream |
| `state`, `codecDevice` | `output_state`, `input_state`, `modem_state`, `output_device`, `input_device` of the codec |
| `path`, `route` | what the codec's driver was told last, and what a thread inside `route_start()` is about to tell it |
| `mode`, `ril`, `rilDevice`, `connected`, `modemPath` | the call, the modem's client, and the path the modem took |
| `raced`, `uneven`, `asked`, `untold` | history: `route_start()` overlapped or failed; a stream was left half-way; what the last routing wanted; a path the modem refused |

Each `route_start()` is two actions, the merge (`RouteStart`) and the ioctls
(`RouteDone`), since the codec has no lock of its own.  `set_parameters()` is
`SetParameters`, then `RouteNothing`, `RouteStream` or `RouteNone`, then
`RouteModem`; a route to no device unlocks the stream twice (`UnlockAgain`).  The
framework is assumed to close a stream only when its thread is idle.

### StreamSetup

One session after another: the framework calls `configure_streams()` (with a
`flush()` of its own inside), requests pass the gate of
`processCaptureRequest`, the worker starts the preview or takes a still.

| state | code |
|---|---|
| `configuring` | the step of `configureStreams` (`ConfigureBegin`, `FlushInvalidates`, `FlushStops`, `ConfigureResetsNodes`, `ConfigurePublishes`, `ConfigureParams`, `ConfigureSucceeds`, with its failures) |
| `streams`, `scratch`, `drain`, `configured`, `reconfiguring`, `setupGeneration` | the members of the same names |
| `request`, `frames`, `tasks`, `taskInHand` | a request between the gate and the queue, `previewQueue_`, `workerTasks_`, the task the worker has checked against the generation |
| `params`, `cached` | the parameter list's sizes and recording hint; what `params_apply` believes the driver has |
| `nativePreview`, `movieRuns`, `native_recording_stream`, `captureNodes` | the backend's preview, the movie stream that the first frame arms, the nodes |

The route's size (`oneShot` written, `route` consumed) and `photographed` follow the two rules that
the code's comments state about the driver: S_FMT on node 0 consumes the sensor's output
size, and inputs that showed a photo session must be selected again for a movie.

### CameraSettings

`list` is the backend's parameter list, `cachedControl` what `struct
exynos_camera` holds, `sensorControl` what the driver has.  A request is
`RequestSettings` (`updateBackendParameters`) and `ListWritten`
(`exynos_params_string_set`), its trigger is `handleAfTrigger`; the autofocus threads are
`scans`, with `afFlags` and `afState` for the backend's flags and the state the
results report; `photo` is the still: its snapshot when it is queued, the rotation
copied when it is taken, the attributes read when it is encoded.

`applying` is `params_apply`, which takes no lock: the holder of `backendOpsMutex_`
(`Locked`) and every scan may be inside at once.  It has five steps, cut where
another thread can get between: the test of `preview_params_set` (`ApplyTests`), its
setting and the read of the list (`ApplyReads`), the comparison with the cached control
(`ApplyCompares`), the `s_ctrl` (`ApplyControls`), the store into the cache
(`ApplyCaches`).  A handler reads, compares, writes and caches one control, and no
other handler touches it; what they share is the list and `preview_params_set`.
So each step is taken for all controls at once.  A string that the list replaces while a
scan reads it is freed; it is then taken for one that matches no name (`Torn`).

`shown` is history: the last settings written, the controls refused since, and those
that were *crossed*: two threads were inside, one of them to write the control, and
no apply of one thread alone has written it since.  `cancel` tells a cancel that saw its
thread end (`CancelEnds`) from one that gave up after its second (`CancelGivesUp`).

### CaptureNodes and ExifLayout

A call (`OpenBackend`, `StartPreview`, `Flush`, `TakePicture`, `ResetNodes`, `CloseBackend`) is the
sequence `todo` of operations it has still to do, so that two calls in two
threads interleave by operation; `NodeOperation` is one ioctl with its failure, and
the rest of the actions are the flags, mappings, locks, bounded waits and threads between
them.  `driver[n]` is the kernel's side of node n (external): it refuses a format
while the node streams, and so on.  `fds`, `preview_enabled`,
`picture_thread_running`, `picture_memory`, `recording_memory` ... are the fields
of `struct exynos_camera`; `mapped` says whose picture buffer is mapped, `picture[s]`
what thread s has allocated.  `mishaps` is history: what has gone wrong that
nobody cleans up after.  `ExifLayout` translates `exynos_exif_create()` directory
by directory; `WellFormed` says that nothing overlaps and that everything is
where the pointers say, and `StillIsWhole` asks for it of every still.

### TorchMode

`torchBackend` is `gTorchBackend`, `torchCall` what a `set_torch_mode()` under
`gTorchMutex` has still to report, `opening` where `openCamera()` or a close is, and
`reported` the status the framework was told last.  `raced` is history: a torch
call met an open.

### RilRequests, SapSession, JavaRil

In `RilRequests` a token is one request of Android: `rilAt` says whether libsec-ril
or a timed callback of libril has it, `rilAnswers` counts `OnRequestComplete`.
`identityStage` and `identityImei` are `IdentityRequest`; `RequestImeisv` is the timed
callback that leaves the vendor's lock between the two stages.  `vendorInit` is
`initializeVendorRil`'s thread, `cells`, `registrations` and the technologies
are the cached registration data.

`SapSession` has three threads: `sapThread` (`SapRequestFunc`), the timed
callbacks, and `sapVendor` (the completion).  A token's command is `sapCommand`, and
`sapAt` says who has it; the answer and the assignment of `g_connectionState`
that follows it are two steps.  `sapLink` is the modem's side.  `sapPatient` chooses
between a client that waits until the handler of an answer has returned and one
that asks again as soon as it has the answer.

In `JavaRil` a serial is a request; `outstanding` is `mRequestList`, and
`ProcessSolicited`, `ResponseUnreadable` and `UnexpectedResponse` are the outcomes of
`processSolicited`.  The SIM toolkit's thread (`CatRegister`, `CatFlush`, `CatClear`)
and the reader (`CatArrives`, `CatHandled`) share `mCatProCmdRegistrant` and
`mCatProCmdBuffer` without a lock.

### MixerRoutes and GpsShim

`config` is the parser between two tags, `mixer[d]` a `tinyalsa_mixer_io`,
`controls` the codec.  Each call of the mixer is made under the device lock and is
one action: `SetState`, `SetMixerDevice`, `SetVolume`, `SetMute`, `CloseMixer`,
`ReadTag`.  A card that does not open and a control that is refused are the faults.
A list of controls is set in one go: of several values for one control the last
stays.  The mixer undoes nothing but what a device's disable list tells it, so what
its controls are worth depends on the configuration.  What it has to promise is stated as
`ConfigsUndo`: a device of the output turns its own switches off and leaves what it
shares with the default device as that has it, and a device of the modem puts back
what any device of the output asks for.  TLC evaluates it for the two
configurations of `phone`; all of `configs/tinyalsa-audio.xml` keeps it.

`GpsShim` keeps `reportLocation`, the place, flags and time of the shim's static
location; `LocationUnfiltered`, `LocationMoved` and `LocationHeld` are the three
outcomes of the filter.  `measured` is history: the fixes since the last that was
not filtered.  `hooked` says which tables already have the shim's functions.
The code does not guard against hooking a table twice, after which the
shim would call itself; that a table is fetched once is an assumption.

## The runs

| run | expects | instance | shows |
|---|---|---|---|
| `recording` | pass | 2 buffers, 2 threads, queue of 2, 2 timeouts | FIMC1 reads only mapped memory that node 2 does not write; the held count is exact; every stop ends; what FIMC1 took comes back (the first until a refused still makes the wrapper forget a preview) |
| `session` | pass | four scenarios of up to three requests, queue of 1 | no buffer lost or returned twice; the still and the scratch buffer stay reserved; a flush returns all; a still keeps its place; the session implements `FrameContract` |
| `session_live` | pass | two scenarios | requests give their buffers back; calls return |
| `session_flush_twice` | violation | a still, a flush, failing fences and pictures | finding 1 |
| `session_flush_drops` | violation | a still and a flush | finding 2 |
| `session_two_stills` | violation | two overlapping stills | finding 3 |
| `camera` | pass | four parts, below | see below |
| `still_settings` | violation | as `camera` | finding 4 |
| `settings_exposure` | violation | as `camera` | finding 5 |
| `network_recovery` | pass | 2 attempts, 3 generations | one timer or request per generation; the marks tell the truth; nothing runs when it may not; a stuck modem is asked again |
| `phone` | pass | five parts, below | see below |
| `audio_routing` | pass | three sessions: both streams on failing drivers; playing to two devices, and recording, around calls | no thread frees another's lock; standby, PCM and codec agree; codec and modem follow the routing; calls return |

`camera` checks, part by part:

- *streams*: a configured session has its buffers and a backend that knows whether
  it records, whatever step of `configure_streams` failed
  (`ConfiguredIsComplete`); nothing captures across a change of the streams
  (`NothingRunsAcrossReconfigure`); a running preview has the right sensor mode
  and FIMC2 a route of its own size (`RouteIsReady`).
- *settings*: after a request every control is at the driver, the ones refused
  earlier too, but for those that a scan crossed (`SettingsReachSensor`); a scan
  whose cancel saw it end stays cancelled (`CancelStands`); a still has its own
  rotation (`RotationOfStill`).
- *nodes*: between calls no node streams and nothing is mapped (`NodesAreFree`); a
  picture thread reads its own, mapped, buffer (`PictureReadsItsOwn`); what it hands
  over is whole and it keeps nothing (`StillIsWhole`).
- *torch*: what the framework was told is true (`TorchStatusIsTrue`).

`phone` checks that Android's radio state and cells are current
(`AndroidIsCurrent`), an IMEI once read is not thrown away (`ImeiSurvives`), no SAP
token is answered twice and its parameters live exactly as long as they are needed
(`SapExchangesAreExact`), `g_connectionState` says what the modem says
(`SapStateTracksLink`), a result is sent once for each request
(`JavaAnsweredOnce`), the codec has the controls of the current devices on and no
others (`ControlsFollowRoutes`), no position is repeated that is older than a
minute or than a better fix (`HeldPositionIsFresh`), and every request to the RIL
shim and the SAP shim is answered (`EveryRilRequestAnswered`,
`SapEveryRequestAnswered`).

### Bounds, and why they are enough

*RecordingBuffers.*  Two buffers and a FIMC1 queue of two, as in the code, so that
all buffers can be out at once; a third preview thread would only repeat what the
second does, since `preview_mutex` lets one of them run a frame; of two timeouts one
is tolerated and one ends the preview (the code has three).  The code asks the driver
for at least three buffers: the safety properties are proved for any number, and the
run, which has no symmetry because it also checks liveness, would be too long with
three.

*CaptureSession.*  A session of three requests has a predecessor and a successor
for the frame under suspicion; a queue of one is full with the first recording
request, which is the boundary of interest (the code has two).  Two flushes let one flush meet the leftovers of another.
Each scenario isolates one family: a still among previews with two flushes and a
close and no failures; a still alone (the scratch buffer) with all failures; a
device without a preview stream; recording with all failures, a flush and a close.
Failures together with a flush are excluded from the still's scenario, because
finding 1 breaks the exact return of buffers there.

*NetworkRecovery.*  Two attempts have a first and a last one (the code has four); three
generations allow a stale timer, a stale request and a current chain together.
The generation is a 32-bit counter; `MaxGenerations` means that the environment
invalidates finitely often.

*AudioRouting.*  A route is to one of two output devices, or to none; one input device
is enough, because nothing depends on which.  The three sessions each leave something out
(both streams without a call, one stream with calls and drivers that do not fail),
because together they are 19 million states; a thread of a third stream would share
nothing more.  The run does not check for deadlock: after a refused
connection the next call to the modem's client waits for ever (`rilLeft`), and the
device with it.

*camera.*  Two configurations of six lists of streams (photos; a movie; one that no bridge can
feed; analysis; a JPEG alone, twice: with the rear's and the front's size) have a
session before and one after; with one flush, two requests and one failure each of its
steps can be interrupted.  Three settings (a scan begins, with torch and an exposure below zero; the
continuous mode, which a late scan takes back; a still in a scene mode, with a cancel)
with two scans let one scan outlive a cancel and meet the next, and a request's
`params_apply` fall anywhere beside a scan's; one mishap is a refused scene or focus
mode (`Refusable`) or a sensor that restarts, and the string of the scene may be
freed while it is read (`Freed`): the other controls go the same way.  The whole run has
1.03 million states.  On the nodes, four
calls are open, preview or picture, another of them and close, with two stills (the second
overlaps the first) and one failure at any of 13 kinds of operation.  The
torch has three calls against three opens with two faults.

*phone.*  Two requests of Android overlap; three SAP requests are a
connection, one inside it and its end, or two connections and an end, with two
failing allocations; three responses for two serials include a repeated one; one
proactive command is buffered or not.  The mixer has two configurations: the
shipped one with one or two controls for each device, and one with the volumes and
mutes that the parser knows and the shipped file does not use, and with an output
device that the modem lacks.  Its calls are not bounded, only its faults are.
GPS times, milliseconds in the code and seconds in the model, are 10, 40 and 71 s: the first two are within the filter's minute, the first and the last
are not.

### Fairness

`FairSpec` of `RecordingBuffers` and `CaptureSession` asks for weak fairness of
each thread, of FIMC1's transfers and of the callbacks that are under way: they
are ordinary threads, and the waits they do are bounded by the code (`poll` with a
timeout, a FIMC1 transfer of one frame).  Nobody is obliged to start, to stop, to flush,
to close or to send another request.  The mutex of a frame is taken by one thread
at a time and `preview_stop` gives up waiting after its deadline, so weak fairness is
enough.  In `NetworkRecovery` the shim's threads
go on and an armed timer fires in the end; neither the modem nor Android owes
anything, and the vendor may keep a request for ever.  `StuckIsRetried` therefore
says only that the conditions of a recovery do not last: a request goes out, or
something else is reported, or an allocation has failed.

In `AudioRouting` a thread inside a call goes on, and a mutex that is free again
and again is got in the end (strong fairness of each thread's calls: the mutexes
are pthread's, and nobody holds one for ever); no call has to be made.

In `MCPhone` libril's timed callbacks come (libril promises them), the SAP
thread and the vendor's completion thread finish what they have begun, and the
vendor library completes what it was given: without the last nobody could
promise an answer, since the shim has no timeout of its own.  A request to a
library that is not ready is answered at once and needs none of it.  `MCCamera` states no fairness.

## What is proved

TLAPS checks, for every value of the constants (any number of buffers, threads,
attempts, tokens, serials, devices, fixes):

- `RecordingBuffersProofs`: `TypeCorrect`, `HeldCorrect`, `SourceStaysMapped`,
  `SourceStaysUnwritten`.  None of the invariants is inductive alone.  The
  inductive one adds: `MutexInv` (who holds `preview_mutex` and where that
  thread is), `IndexInv` (a frame has an index exactly in the stages that need
  one), `BlitInv` (the FIMC1 worker's place against its flag and job), `CountInv`
  (`recording_buffers_held` is the number of buffers in the preview thread's hands,
  in the queue and in the worker's), `NodeInv` (node 2 streams while anything is
  out), `OwnerInv` (no buffer has two owners).  The last two hold until `forgotten`:
  see the first of the known disagreements below.
- `PhoneProofs`, `NetworkRecovery`: `TypeCorrect`, `OneChainAlways`, `MarksAreExactAlways`,
  `QuietWhenBlockedAlways`.  The marks describe the current generation only, so
  the invariant needs `FutureEmpty`: no timer and no request belongs to a
  generation that has not begun, hence a new generation starts with nothing
  under way, as its cleared marks say.
- `AudioRoutingProofs`: `StreamLocksAreOwn`, `PathStaysCurrent`,
  `StandbyStaysSilent`, `RoutingReachesModem`.  `AudioInv` adds to the first two: a route under way is the
  merge of the codec's variables (`CodecInv`), and a route holds the device lock from
  end to end, so that whoever unlocks a stream a second time is alone, and the
  device's own calls never route to no device (`LockInv`).  The third adds `Silent`,
  stream by stream: what each place of the stream's own thread implies for the PCM
  and the codec, since only that thread, or a route under its lock, ends or begins
  standby.  The fourth adds `ReachInv`: the modem's client against its
  path (`ModemInv`); the stream's device against the codec's, the one a route under
  way wants and the one asked for last (`DeviceInv`).  The run checks it session by
  session, the theorem holds for all of them together.
- `AudioRoutingProofs`, `MixerRoutes`: `RoutesAreFollowed`, for every configuration
  that keeps `ConfigsUndo`.  What the parser has after each tag is a recursive function
  of the file (`Reads`, which a least counterexample shows to be well defined), so that
  what it has built at the end is the mixer the promise is about (`ReadInv`).  A
  direction that does not run has no device (`HeldInv`).  `FollowInv` says that
  each switch follows the output's device, call or not, and that every other control
  that a device of the output asks for suits it, but for those that the modem's
  current and default devices write while a call lasts: they are what the
  end of the call has to put back, so the property without calls needs the
  sentence about calls.  Controls the inputs share and those refused are left out.
- `PhoneProofs`, `RilRequests`: `ImeiSurvivesAlways`, `RilOneAnswer`, `AndroidStaysCurrent`.
  For each token, the place of the request, its stage and its number of answers
  fit together: it has no answer exactly while somebody has it, and the IMEI is
  kept exactly in the second stage.  For the radio state, an announcement is
  pending whenever the modem and Android differ.
- `PhoneProofs`, `SapSession`: `SapTypes`, `SapExact`, `SapLinkTracked`.  Token by
  token, the invariant names the only combinations of command, place, threads,
  answers and parameters there are; a CONNECT's second command runs after its answer
  and is the one place where a token with an answer still has its parameters.  For
  the connection, the invariant follows the one exchange a patient client can have
  under way, step by step: what `g_connectionState` has been set to and what the
  modem has done by then.
- `PhoneProofs`, `JavaRil`: `JavaAnswered`.  Serials outstanding have been requested,
  and only a response that takes its serial off the list sends a result.
- `PhoneProofs`, `GpsShim`: `HeldStaysFresh`.  The place the shim keeps is always one
  of the fixes measured since the last unfiltered one, and every enabled entry of the
  filter's table times out after 60 s.
- `CameraProofs`, `StreamSetup`: `SetupTypes`, `ConfiguredComplete`, `NothingRuns`,
  `RouteReady`.  The argument turns on one implication: whatever captures, or may
  still start a capture (a queued frame or task, a request of this generation on its
  way, a task the worker has checked), belongs to a session that is configured or is
  just being torn down.  The flush inside `configure_streams()` empties all of that
  before the streams change.  The proof of `RouteReady` found a case that the run's two
  configurations cannot reach and that the property now excepts: a movie, a still in a
  session of a JPEG alone, a rejected configuration, and the same movie again leave
  FIMC2's size unwritten (`"rejected"` among its exceptions).
- `CameraProofs`, `CameraSettings`: `SettingsReach`, `CancelledStands`,
  `RotationIsOwn`, for any number of scans.  The cache is true of the sensor whenever a
  list is not forced, but for what the last forced list had refused, what was
  crossed, and what a thread has written and not yet cached.  Of two threads in
  `params_apply` both have met, and what a thread that has met may write is crossed
  before it writes (`MetIsMutual`, `MetAreCrossed`); so a thread that crosses a control
  cannot spoil one that is not excused, and a thread alone leaves cache and driver
  equal.  A thread that is alive keeps `auto_focus_started` set, as long as no scan
  overlapped another, and a cancel that stood has seen that flag go; between a still's
  settings and `picture_start()` only a scan may rewrite the list, and only its focus.
- `StillProofs`, `CaptureNodes`: `StillsAreWhole`, `PictureReads`.  An actor's `todo` is always
  what is left of one of a few programs (six of a picture thread, ten of the wrapper's
  call, with what is left of the stops within it), and `NodesInv` says what each place implies:
  `On`, which memories the thread has, whether the encoder is open, and that a thread which
  still reads has its own buffer mapped; `CallOn`, that a `picture_start()` has no other thread
  beside it until it starts its own (`Fresh`), and that the backend is freed only when no
  thread is left; `Running`, that a second thread means an overlap.  A stop that gave up (`"outlived"`) and an overlap
  (`"overlapped"`) are the exceptions the property names.  `StillsAreWhole` supposes of the
  attributes that each lays out well (`WellFormed`, which TLC checks for the run's); that
  nothing fails in closing the encoder and releasing memory is an assumption of the module (the code
  ignores their results).
- `NodesProofs`, `CaptureNodes`: `NodesGiveBack`.  A flag or a node means something only
  together with what its actor has still ahead: node 0 streams because the preview runs,
  or because a program under way still comes to its STREAMOFF, or because one of the
  failures has happened that nobody cleans up after.  `From` gives the operations that are
  ahead on each node, of the caller, the preview's thread and the picture threads.
  `OrderInv` says which operations come after which (`Ordered`, `LoopOrdered`,
  `ThreadOrdered`); this is checked once for each program, and what is left of one, or a
  stop put before it, inherits it.  `FreeInv` joins to that when a preview counts as started (`StartInv`),
  who still releases its memory and waits for its thread (`PreviewInv`), who ends
  a recording (`RecordingInv`), who still stops a node that streams (`StreamInv`), that a
  still's thread is the only one (`ThreadInv`) and who unmaps its buffer (`MapInv`).  TLC checked `FreeInv` on the instance of
  `camera` before it was proved.
- `CameraProofs`, `TorchMode`: `TorchIsTrue`.  What a call still owes the framework
  (`CallsOwe`) and, without a race, the exact backend (`AloneIsExact`).
- `CaptureSessionProofs`: `TypeCorrect`, `FramesAreHeld`, `ScratchIsGivenBack`, for any
  scenarios and any queue depth.  The argument follows a frame: `Place(p, r)` says
  that r is at p (twelve containers and hands, and the `failFrame` of each thread),
  and one lemma for each action (`<Action>Moves`) says which frame it moves from where
  to where, which it drops, and that it moves no other.  From those lemmas come
  `OnePlace` (a frame is at one place), `NoneTwice` (no container has it twice),
  `InFlightOK` (`inFlightPreview_` is what the preview thread and FIMC1 have) and
  `Held` (a frame with a buffer is somewhere).  They need `ControlInv` (which places
  each thread can be at with or without a frame), `LocksInv` (`backendOpsMutex_` and
  the two waits for the JPEG worker and its callbacks), `CallsInv` (what flush and
  close have done) and `JpegOnly`, `ScheduledStill`, `FailedEmpty` (what the frames at
  the later places still own).
- `CaptureOrderProofs` carries on from there, in five inductive invariants.
  - `StillsInOrder` (`SessionInv`).  The places before the shutter form a line
    (`Line`): who is further ahead has the smaller number, and each queue is increasing;
    a step moves the first of one place to the end of the next free one (`Ahead`), or
    puts a frame back where it came from (`DequeueRecheck`).
  - `RequestsAnsweredOnce`, `RealtimeBuffersKept` (`AnswerInv`): for every session, whatever
    fails.  A shutter or an error is in the result queue only for a frame that has had
    none, and a frame is where it can be answered exactly until it is; a preview or
    video buffer is never returned twice.
  - `FlushReturnsRealtime`, `FlushReturnsEverything` (`FlushInv`): what each stage of a flush has
    already emptied stays empty while the threads beside it go on, but for what a dequeue
    has dropped (finding 2).  The second, with the JPEG buffers, needs one still.
  - `ReservationsHold` (`StillInv`): which of a still's reservation, its `pendingJpeg_`, its task and its
    job exist together at each of its places.
  - `BuffersReturnOnce`, `ContractIsKept` (`ReturnInv`).  The take of a still is a token that
    goes from the post over the worker's hands to node 0 and is at one of them only; while
    the worker has a still it has not sent, nobody else can return it.  The refinement maps
    every step to a step of `FrameContract` or a stutter.  Both suppose `ReturnsOnce`: the
    session has no still, or one, and either no fence and no take fails or it is never
    flushed.  Without it there is finding 1, which breaks the contract.

`NothingLost` is proved for preview and video buffers in every scenario, and for JPEG
buffers in scenarios that ask for at most one (`OneStillIn`).  With overlapping stills
it is false: a second still that is rejected clears the reservation of the first
(finding 3), a third then reserves it and overwrites `pendingJpeg_`, and the first
one's frame is gone with its buffer.  So it is with `FlushReturnsEverything`, `ReservationsHold`,
`BuffersReturnOnce` and `ContractIsKept`.  The scenarios of the passing runs have at most one still and satisfy
every hypothesis of these theorems.

Only model-checked are the liveness properties: `EveryRequestReturns`, `CallsReturn` (of both
modules that have it), `StuckIsRetried`, `StopTerminates`, `OwnedIsGivenBack`,
`EveryRilRequestAnswered` and `SapEveryRequestAnswered`.  Fairness and ENABLED are out of
the prover's reach.

## Findings

1. `session_flush_twice` (Camera3.cpp:2563): `flush()` and the failure path of
   `takePictureWorker` both fail the same frame: its JPEG buffer is returned twice.
2. `session_flush_drops` (Camera3.cpp:2674): a frame whose fence is awaited when
   `flush()` begins is dropped by `dequeuePreview`: its buffers never come back.
3. `session_two_stills` (Camera3.cpp:2098): rejecting a second still clears the flag
   that wakes the preview thread for the first.
4. `still_settings` (Camera3.cpp:2546): a still gets the coordinates that later
   requests wrote, or those of an earlier request that its own could not remove.
5. `settings_exposure` (exynos_v4l2.c:683): `s_ctrl` returns the value, so that an
   exposure below zero looks refused, is not cached, and is not undone.

Known disagreements that have no run of their own:

- a refused `set_parameters()` makes the wrapper believe the preview is stopped; a
  preview that then fails to start takes the recording down beside a running
  preview thread (Camera3.cpp:2556; `forgotten`, which `FimcSourceMapped` and
  `NoOverwriteWhileReading` except);
- a frame without video overtakes one that waits for FIMC1, and the shutters
  change order (Camera3.cpp:2800; hence `ShutterOrderOfStills` and no more);
- `cancel_picture` before the picture thread has read `picture_enabled` leaves
  node 0 streaming (exynos_camera.c:2000; Camera3.cpp:2637 says the cancel stops it);
- a request with settings waits for `backendOpsMutex_` while a still is taken
  (Camera3.cpp:1020, against the comment at 951-952);
- a scan that puts the focus back to "auto" applies the list without
  `backendOpsMutex_` (exynos_camera.c:2045-2052): it may read "auto" for the scene, let a
  request write and cache NIGHT, and then write and cache NONE, so that the request's
  scene is not at the sensor; with its `s_ctrl` before the request's and its store into
  the cache after, cache and sensor disagree until the control is written again
  (`crossed`, which `SettingsReachSensor` excepts);
- `auto_focus_stop` waits for its thread for one second (exynos_camera.c:2172-2179) and
  returns with the thread alive; `handleAfTrigger` stores INACTIVE (Camera3.cpp:1275)
  and the thread's result follows it (`CancelGivesUp`, after which `CancelStands`
  promises nothing);
- a proactive command that comes between the test of the registrant and the
  store to the buffer stays there (SamsungExynos4RIL.java:477).

What the models had to except, and a reader of the code should know:

- *Capture nodes* (`mishaps`): an overlapping second still shares
  `picture_memory` with the first; a failed CAPTURE or STREAMOFF leaves a node
  streaming; `deinit` does not unmap a picture; a picture thread outlives the stop
  that gave up on it after 1 s; a poll of a picture that times out ends the
  thread without an error to the wrapper.
- *Settings* (`crossed`, `overlapped`): a control that two threads in `params_apply`
  crossed may be wrong at the sensor, in the cache or in both, until a thread alone
  writes it; a START that meets a thread that is still there lets that one's result
  come after the next cancel; so does a cancel that gave up.
- *Mixer*: `set_device` stops at the first direction that lacks the device, and the
  modem lacks `analog-dock-headset`, the output `bt-sco-headset`; a recording
  that outlives a call keeps the 19 that the end of the call wrote to
  "AD Analog Volume" where it had set 26; no control of
  the shipped file has an attribute, so that volumes and mutes change nothing; a
  mute takes the value of the enable list.
- *GPS*: the difference of two places is the absolute value of the sum of their
  three differences, so that opposite moves cancel; a clock that is set back holds a
  place longer; lines 161-167 are never reached; `shim_agps_init` keeps the vendor's
  callbacks from being initialised, so that no AGPS status arrives; an AGPS-RIL
  interface fetched before the AGPS one is stored in the wrong variable, which
  only a log line uses.

## What the models leave out

- *CaptureSession*: configuration and settings (they have their own modules);
  ImageAnalysis buffers, which go wherever a preview buffer goes; failures of
  `clone_camera_metadata`; the waits of `preview_stop` and `picture_stop` do not
  give up here (they do in `RecordingBuffers` and `CaptureNodes`); the paths of
  `handleJpeg` through `sendBufferError`, which have the effect of a successful send on
  everything modelled; `completeNativeFrame` 3338-3347, which no caller reaches.
- *RecordingBuffers*: a picture is seen only where it stops the preview or fails to; a
  driver that refuses a new format for a streaming node is an assumption about
  the kernel.
- *StreamSetup*: pixel formats beyond the three that are told apart, gralloc usage;
  the autofocus scans, whose `params_apply` may fall beside a session's (that is
  modelled in `CameraSettings`, for the controls).
- *CameraSettings*: the arithmetic of the crop, areas of focus and metering, the
  printing and parsing of parameter values; the front camera; the handlers of
  `params_apply` one by one (its steps are taken for all controls at once, and the
  focus with its `s_ctrl` calls in one); a second call of the scene's handler; a freed
  string that happens to spell a name, or one of the focus; two writers of the list at
  the same key.
- *CaptureNodes*: the decoder of the sensor's interleaved JPEG (it fills the
  picture or fails), dumps; the wrapper's calls come one at a time, as
  `backendOpsMutex_` has it.
- *NetworkRecovery*: delays, and `everRegistered`, which only chooses between two
  of them; the window between the shim's unlock and its call of `onRequest`,
  where two requests may overtake each other.
- *RilRequests*: layouts of SIM status, signal strength and capabilities, and the
  patch of the vendor library's memory.  *SapSession*: APDU bytes and protobuf.
  *JavaRil*: parcels are readable or not.
- *AudioRouting*: samples and resamplers, closing the device, a second input stream
  beside the first (both would use one `input_state`).
- *GpsShim*: satellites, NMEA, injected data and reference cells: forwarded, no state.

### Not modelled

Pixel conversion and scaling in `Camera3.cpp`, the static metadata, the codec's
device tables and the headers are data or arithmetic without a state;
nanopb and the SAP messages are vendored or generated; the small shims forward
single calls; the display's colour calibration reads and writes one file of sysfs;
scripts, overlays, policies and build files have no program logic.

## The plan

Done: the camera core, the rest of the camera HAL, the radio, the audio HAL with its mixer, the
GPS shim, and the proofs above.  What is left, in order of value:

1. **Composition**: `StreamSetup` and `CaptureNodes` share the backend's calls, and
   could be run as one instance with a single fault; `AudioRouting` and
   `MixerRoutes` likewise.
2. **Algorithms**: the zoom's crop (Camera3.cpp 200-255) and the interleaved JPEG's
   decoder against a reference definition over bounded inputs.
