---------------------------- MODULE StreamSetup ----------------------------
(***************************************************************************)
(* How a Camera3 session gets its sensor route: the framework configures   *)
(* the streams, requests write their settings to the native backend, the   *)
(* worker starts the preview and takes stills, and the first frame of a    *)
(* movie session arms FIMC2.                                               *)
(*                                                                         *)
(*   camera3/Camera3.cpp      configureStreams, ScopedReconfigure,         *)
(*                            updateBackendParameters, the gate and the    *)
(*                            tail of processCaptureRequest, flush,        *)
(*                            startPreviewWorker, takePictureWorker        *)
(*   camera3/exynos_camera.c  params_apply (size and sensor mode),         *)
(*                            preview_start/_stop, picture_start,          *)
(*                            recording_start, reset_capture_nodes         *)
(*                                                                         *)
(* Two rules of the driver, from the code's comments, are external: S_FMT  *)
(* on node 0 consumes V4L2_CID_CAMERA_SENSOR_OUTPUT_SIZE, which fixes the  *)
(* size FIMC2 can get, and inputs that showed a photo session have to be   *)
(* selected again before a movie.  Only the rear camera (id 0) records.    *)
(***************************************************************************)
EXTENDS Integers, Sequences, SequencesExt

CONSTANTS
  Configurations,  \* lists of streams the framework may ask for
  SetupFaults,     \* subset of {"drain","scratch","nodes","control","start","picture"}
  MaxConfigures, MaxFlushCalls, MaxSetupRequests, MaxSetupFaults

NoSize == <<0, 0>>     \* no stream, no size

VARIABLES
  configuring,          \* configureStreams(): its step and list; a flush() from outside too
  streams,              \* previewStream_, videoStream_, analysisStream_, jpegStream_
  scratch, drain,       \* scratchPreviewBuffers_, drainPreviewBuffer_
  configured, reconfiguring, flushRuns, setupGeneration, haveRequestSettings,
  request,              \* the request between the gate and the queue
  frames,               \* previewQueue_: frames, with or without a still
  tasks,                \* workerTasks_: tasks of this generation
  taskInHand,           \* the task the worker has checked
  wrapperStarted,       \* previewStarted_
  stillRuns,            \* the generation of a still's capture, or 0
  params,               \* the parameter list: video-size, recording-hint
  cached,               \* struct exynos_camera: recording_width/height, camera_sensor_mode
  preview_params_set,
  nativePreview,        \* preview_enabled
  movieRuns, native_recording_stream,
  captureNodes,         \* the capture nodes that are open and selected
  oneShot, route,       \* the size written and not consumed; the size S_FMT consumed
  photographed,         \* the inputs showed a photo session since they were selected
  spoiled,              \* what happened to this configuration (ghost)
  setupBudget           \* configures, flushes, requests and faults left (bound)

clientVars  == <<configuring, configured, reconfiguring, flushRuns, haveRequestSettings>>
bufferVars  == <<scratch, drain>>
workVars    == <<frames, tasks, taskInHand, wrapperStarted, stillRuns>>
paramVars   == <<params, cached, preview_params_set, oneShot>>
captureVars == <<nativePreview, movieRuns, route, photographed>>
setupVars == <<clientVars, streams, bufferVars, setupGeneration, request, workVars, paramVars,
               captureVars, native_recording_stream, captureNodes, spoiled, setupBudget>>

Spend(what) ==
  /\ setupBudget[what] > 0
  /\ setupBudget' = [setupBudget EXCEPT ![what] = @ - 1]
Fault(kind) == kind \in SetupFaults /\ Spend("faults")

-----------------------------------------------------------------------------
(* Reading a list of streams.                                               *)
PreviewSizes == {<<1920,1080>>, <<1280,720>>, <<800,480>>, <<720,480>>, <<640,480>>,
                 <<640,360>>, <<352,288>>, <<320,240>>, <<176,144>>}
JpegSizes == {<<3264,2448>>, <<3264,1968>>, <<2048,1536>>, <<2048,1232>>,
              <<1280,960>>, <<800,480>>, <<640,480>>}
NativeHd == {<<1280,720>>, <<1920,1080>>}
Fits(a, b) == a[1] <= b[1] /\ a[2] <= b[2]

NoStreams == [ok |-> TRUE, preview |-> NoSize, video |-> NoSize, analysis |-> NoSize,
jpeg |-> NoSize]
Refused(c) == [c EXCEPT !.ok = FALSE]
Put(c, role, size) == IF c[role] = NoSize THEN [c EXCEPT ![role] = size] ELSE Refused(c)

(* One stream of the list: format blob, flexible ("yuv") or opaque ("nv"),  *)
(* and for the last whether the encoder's usage flag is set.                *)
Sort(c, s) ==
  CASE ~c.ok -> c
    [] c.ok /\ s.format = "blob" ->
         IF s.size \in JpegSizes THEN Put(c, "jpeg", s.size) ELSE Refused(c)
    [] c.ok /\ s.format = "yuv" ->
         IF s.size \in PreviewSizes /\ Fits(s.size, <<640,480>>)
         THEN Put(c, "analysis", s.size) ELSE Refused(c)
    [] c.ok /\ s.format = "nv" ->
         IF s.size \notin PreviewSizes THEN Refused(c)
         ELSE Put(c, IF s.encoder \/ c.preview # NoSize THEN "video" ELSE "preview", s.size)
Classify(list) == FoldLeft(Sort, NoStreams, list)

Source(c) == CASE c.preview # NoSize -> c.preview
               [] c.preview = NoSize /\ c.analysis # NoSize -> c.analysis
               [] OTHER -> c.video
(* Two sizes need both capture nodes; analysis copies its source.           *)
BridgePossible(c) ==
  LET from == IF c.preview # NoSize THEN c.preview ELSE c.video IN
  /\ c.preview # NoSize /\ c.video # NoSize /\ c.preview # c.video
       => c.video \in NativeHd /\ Fits(c.preview, c.video)
  /\ c.analysis # NoSize => /\ from # NoSize
                          /\ \/ c.analysis = from
                             \/ from = <<1280,720>> /\ c.analysis = <<640,480>>
NeedsScratch(c) ==
  \/ c.video # NoSize /\ c.preview # NoSize /\ c.video # c.preview
  \/ c.analysis # NoSize
  \/ c.jpeg # NoSize /\ Source(c) # NoSize

NativeVideo(c) == IF c.video = <<1280,720>> THEN <<1072,800>> ELSE c.video
NativePreview(c) ==
  IF /\ c.video # NoSize /\ Source(c) = <<640,480>>
     /\ c.video[1] * 9 = c.video[2] * 16 /\ c.video # <<1280,720>>
  THEN <<640,360>> ELSE Source(c)

-----------------------------------------------------------------------------
PresetParams == [size |-> <<1280,720>>, movie |-> FALSE]   \* the preset's values
NotConfiguring == [step |-> "idle", list |-> << >>, reset |-> FALSE]
SetupInit ==
  /\ configuring = NotConfiguring
  /\ streams = NoStreams
  /\ scratch = FALSE /\ drain = FALSE
  /\ configured = FALSE /\ reconfiguring = FALSE /\ flushRuns = FALSE
  /\ haveRequestSettings = FALSE
  /\ setupGeneration = 1
  /\ request = [step |-> "none", generation |-> 0, settings |-> FALSE, still |-> FALSE]
  /\ frames = << >> /\ tasks = << >>
  /\ taskInHand = [task |-> "none", generation |-> 0]
  /\ wrapperStarted = FALSE /\ stillRuns = 0
  /\ params = PresetParams
  /\ cached = [size |-> <<1280,720>>, mode |-> "camera"]
  /\ preview_params_set = TRUE
  /\ oneShot = <<1280,720>>
  /\ nativePreview = FALSE /\ movieRuns = FALSE
  /\ native_recording_stream = FALSE
  /\ captureNodes = {0, 2} /\ route = NoSize /\ photographed = FALSE
  /\ spoiled = {}
  /\ setupBudget = [configures |-> MaxConfigures, flushes |-> MaxFlushCalls,
                    requests |-> MaxSetupRequests, faults |-> MaxSetupFaults]

-----------------------------------------------------------------------------
(* The parameter list and its way to the sensor.                            *)

(* What updateBackendParameters() writes into the list for these streams.   *)
SessionParams(c) ==
  [movie |-> c.video # NoSize,
   size |-> CASE c.video # NoSize -> NativeVideo(c)
              [] c.video = NoSize /\ Source(c) # NoSize -> NativePreview(c)
              [] OTHER -> params.size]

(* Mutant of Apply: the cached size is taken for the sensor's.              *)
ApplyWithoutForce(p) ==
  LET force == FALSE
      writes == {w \in {"size", "mode"} :
                   \/ w = "size" /\ (force \/ p.size # cached.size)
                   \/ w = "mode" /\ cached.mode # (IF p.movie THEN "movie" ELSE "camera")}
  IN \E refused \in SUBSET writes :
       /\ IF 0 \notin captureNodes THEN refused = writes /\ UNCHANGED setupBudget
          ELSE IF refused = {} THEN UNCHANGED setupBudget ELSE Fault("control")
       /\ params' = p
       /\ preview_params_set' = TRUE
       /\ cached' = [size |-> p.size,
                     mode |-> IF "mode" \in writes \ refused
                              THEN (IF p.movie THEN "movie" ELSE "camera") ELSE cached.mode]
       /\ oneShot' = IF "size" \in writes \ refused THEN p.size ELSE oneShot
       /\ spoiled' = spoiled \cup (IF refused = {} THEN {} ELSE {"control"})

(* params_apply(): preview_params_set forces the size once; a size is       *)
(* cached before the driver is asked, a sensor mode only when the driver    *)
(* took it.  A control is refused by a closed node or by a fault.           *)
Apply(p) ==
  LET force == ~preview_params_set
      writes == {w \in {"size", "mode"} :
                   \/ w = "size" /\ (force \/ p.size # cached.size)
                   \/ w = "mode" /\ cached.mode # (IF p.movie THEN "movie" ELSE "camera")}
  IN \E refused \in SUBSET writes :
       /\ IF 0 \notin captureNodes THEN refused = writes /\ UNCHANGED setupBudget
          ELSE IF refused = {} THEN UNCHANGED setupBudget ELSE Fault("control")
       /\ params' = p
       /\ preview_params_set' = TRUE
       /\ cached' = [size |-> p.size,
                     mode |-> IF "mode" \in writes \ refused
                              THEN (IF p.movie THEN "movie" ELSE "camera") ELSE cached.mode]
       /\ oneShot' = IF "size" \in writes \ refused THEN p.size ELSE oneShot
       /\ spoiled' = spoiled \cup (IF refused = {} THEN {} ELSE {"control"})

(* exynos_camera_preview_stop(), which returns early when nothing runs.     *)
OpsFree == taskInHand.task # "Capture"
PreviewStop ==
  /\ nativePreview' = FALSE
  /\ movieRuns' = FALSE
  /\ preview_params_set' = (preview_params_set /\ ~nativePreview)

-----------------------------------------------------------------------------
(* configure_streams() and flush().                                         *)
ConfigureBegin(list) ==
  /\ configuring.step = "idle" /\ Spend("configures")
  /\ configuring' = [step |-> "flush", list |-> list,
                     reset |-> configured /\ streams.video = NoSize]
  /\ reconfiguring' = TRUE /\ configured' = FALSE
  /\ UNCHANGED <<streams, bufferVars, flushRuns, haveRequestSettings, setupGeneration, request,
                 workVars, paramVars, captureVars, native_recording_stream, captureNodes,
                 spoiled>>

FlushRequested ==
  /\ configuring.step = "idle" /\ Spend("flushes")
  /\ configuring' = [step |-> "flush", list |-> << >>, reset |-> FALSE]
  /\ UNCHANGED <<streams, bufferVars, configured, reconfiguring, flushRuns, haveRequestSettings,
                 setupGeneration, request, workVars, paramVars, captureVars,
                 native_recording_stream, captureNodes, spoiled>>

(* flush() takes the queues under stateMutex_ and ends the generation.      *)
FlushInvalidates ==
  /\ configuring.step = "flush"
  /\ taskInHand.task \notin {"TakePicture", "Capture"}    \* jpegWorkerActive_
  /\ configuring' = [configuring EXCEPT !.step = "stop"]
  /\ flushRuns' = TRUE
  /\ setupGeneration' = setupGeneration + 1
  /\ frames' = << >> /\ tasks' = << >>
  /\ UNCHANGED <<streams, bufferVars, configured, reconfiguring, haveRequestSettings, request,
                 taskInHand, wrapperStarted, stillRuns, paramVars, captureVars,
                 native_recording_stream, captureNodes, spoiled, setupBudget>>

(* Under backendOpsMutex_ the still and the preview stop; a framework       *)
(* flush is over after that, configureStreams() releases its buffers.       *)
FlushStops ==
  /\ configuring.step = "stop"
  /\ PreviewStop
  /\ stillRuns' = 0 /\ wrapperStarted' = FALSE
  /\ flushRuns' = FALSE
  /\ IF reconfiguring
     THEN /\ configuring' = [configuring EXCEPT !.step = "check"]
          /\ scratch' = FALSE /\ drain' = FALSE
     ELSE /\ configuring' = [configuring EXCEPT !.step = "idle"]
          /\ UNCHANGED bufferVars
  /\ UNCHANGED <<streams, configured, reconfiguring, haveRequestSettings, setupGeneration,
                 request, frames, tasks, taskInHand, params, cached, oneShot, route,
                 photographed,
                 native_recording_stream, captureNodes, spoiled, setupBudget>>

(* ~ScopedReconfigure without succeed().                                    *)
ConfigureFails ==
  /\ configuring' = NotConfiguring
  /\ configured' = FALSE /\ reconfiguring' = FALSE
  /\ UNCHANGED <<flushRuns, haveRequestSettings>>

ConfigureUnsupported ==
  /\ configuring.step = "check" /\ ~Classify(configuring.list).ok
  /\ ConfigureFails
  /\ spoiled' = spoiled \cup {"rejected"}
  /\ UNCHANGED <<streams, bufferVars, setupGeneration, request, workVars, paramVars,
                 captureVars,
                 native_recording_stream, captureNodes, setupBudget>>

(* exynos_camera_backend_reset_capture_nodes(), for a movie after photos.   *)
NeedsReset == configuring.reset /\ Classify(configuring.list).video # NoSize
ConfigureResetsNodes ==
  /\ configuring.step = "check" /\ Classify(configuring.list).ok
  /\ IF NeedsReset
     THEN /\ captureNodes' = {0, 2} /\ photographed' = FALSE /\ oneShot' = NoSize
          /\ preview_params_set' = FALSE
          /\ cached' = [cached EXCEPT !.mode = "unknown"]
     ELSE UNCHANGED <<captureNodes, photographed, oneShot, preview_params_set, cached>>
  /\ configuring' = [configuring EXCEPT !.step = "publish"]
  /\ UNCHANGED <<streams, bufferVars, configured, reconfiguring, flushRuns, haveRequestSettings,
                 setupGeneration, request, workVars, params, nativePreview, movieRuns,
                 route, native_recording_stream, spoiled, setupBudget>>
ConfigureResetFails ==
  /\ configuring.step = "check" /\ Classify(configuring.list).ok /\ NeedsReset
  /\ Fault("nodes")
  /\ captureNodes' \in {{}, {0}}
  /\ ConfigureFails
  /\ spoiled' = spoiled \cup {"nodes"}
  /\ UNCHANGED <<streams, bufferVars, setupGeneration, request, workVars, paramVars,
                 captureVars,
                 native_recording_stream>>

ConfigureNoBridge ==
  /\ configuring.step = "publish" /\ ~BridgePossible(Classify(configuring.list))
  /\ ConfigureFails
  /\ spoiled' = spoiled \cup {"rejected"}
  /\ UNCHANGED <<streams, bufferVars, setupGeneration, request, workVars, paramVars,
                 captureVars,
                 native_recording_stream, captureNodes, setupBudget>>

(* The stream pointers change, then the drain and the scratch buffers are   *)
(* allocated; a request that passed the gate earlier sees the new pointers. *)
ConfigurePublishes ==
  LET c == Classify(configuring.list) IN
  /\ configuring.step = "publish" /\ BridgePossible(c)
  /\ streams' = c
  /\ drain' = (Source(c) # NoSize)
  /\ scratch' = NeedsScratch(c)
  /\ configuring' = [configuring EXCEPT !.step = "params"]
  /\ UNCHANGED <<configured, reconfiguring, flushRuns, haveRequestSettings, setupGeneration,
                 request, workVars, paramVars, captureVars, native_recording_stream,
                 captureNodes, spoiled, setupBudget>>
(* Mutant of ConfigureNoMemory: the drain buffer survives.                  *)
ConfigureNoMemoryKeepsDrain ==
  LET c == Classify(configuring.list) IN
  /\ configuring.step = "publish" /\ BridgePossible(c)
  /\ \/ Source(c) # NoSize /\ Fault("drain")
     \/ NeedsScratch(c) /\ Fault("scratch")
  /\ streams' = c
  /\ scratch' = FALSE /\ drain' = (Source(c) # NoSize)
  /\ ConfigureFails
  /\ spoiled' = spoiled \cup {"rejected"}
  /\ UNCHANGED <<setupGeneration, request, workVars, paramVars, captureVars,
                 native_recording_stream, captureNodes>>
ConfigureNoMemory ==
  LET c == Classify(configuring.list) IN
  /\ configuring.step = "publish" /\ BridgePossible(c)
  /\ \/ Source(c) # NoSize /\ Fault("drain")
     \/ NeedsScratch(c) /\ Fault("scratch")
  /\ streams' = c
  /\ scratch' = FALSE /\ drain' = FALSE
  /\ ConfigureFails
  /\ spoiled' = spoiled \cup {"rejected"}
  /\ UNCHANGED <<setupGeneration, request, workVars, paramVars, captureVars,
                 native_recording_stream, captureNodes>>

ConfigureParams ==
  /\ configuring.step = "params" /\ OpsFree
  /\ Apply(SessionParams(streams))
  /\ configuring' = [configuring EXCEPT !.step = "succeed"]
  /\ UNCHANGED <<streams, bufferVars, configured, reconfiguring, flushRuns, haveRequestSettings,
                 setupGeneration, request, workVars, captureVars, native_recording_stream,
                 captureNodes>>

ConfigureSucceeds ==
  /\ configuring.step = "succeed"
  /\ native_recording_stream' = (streams.video # NoSize)
  /\ haveRequestSettings' = FALSE
  /\ configured' = TRUE /\ reconfiguring' = FALSE
  /\ configuring' = NotConfiguring
  /\ UNCHANGED <<streams, bufferVars, flushRuns, setupGeneration, request, workVars, paramVars,
                 captureVars, captureNodes, spoiled, setupBudget>>

-----------------------------------------------------------------------------
(* processCaptureRequest(): three sections of stateMutex_ with the settings *)
(* applied between the first two; a request that meets a closed gate is     *)
(* given back and changes nothing.                                          *)
RequestGate(settings, wantsStill) ==
  /\ request.step = "none" /\ Spend("requests")
  /\ configured /\ ~reconfiguring /\ ~flushRuns
  /\ settings \/ haveRequestSettings
  /\ wantsStill => streams.jpeg # NoSize
  /\ ~wantsStill => Source(streams) # NoSize
  /\ request' = [step |-> "apply", generation |-> setupGeneration,
                 settings |-> settings, still |-> wantsStill]
  /\ UNCHANGED <<clientVars, streams, bufferVars, setupGeneration, workVars, paramVars,
                 captureVars, native_recording_stream, captureNodes, spoiled>>

RequestApply ==
  /\ request.step = "apply" /\ OpsFree
  /\ request' = [request EXCEPT !.step = "push"]
  /\ haveRequestSettings' = (haveRequestSettings \/ request.settings)
  /\ IF request.settings \/ request.still THEN Apply(SessionParams(streams))
     ELSE UNCHANGED <<params, cached, preview_params_set, oneShot, spoiled, setupBudget>>
  /\ UNCHANGED <<configuring, configured, reconfiguring, flushRuns, streams, bufferVars,
                 setupGeneration, workVars, captureVars, native_recording_stream, captureNodes>>

(* postTaskLocked(): one StartPreview is enough.                            *)
Posted(task) == IF task = "StartPreview" /\ \E i \in DOMAIN tasks : tasks[i] = task
                THEN tasks ELSE Append(tasks, task)

(* stillQueued_ refuses a second still.  A frame with a source waits for    *)
(* the preview, a still without one goes to the worker.                     *)
NoRequest == [step |-> "none", generation |-> 0, settings |-> FALSE, still |-> FALSE]
StillQueued ==
  \/ stillRuns # 0 \/ taskInHand.task \in {"TakePicture", "Capture"}
  \/ \E i \in DOMAIN frames : frames[i] = "still"
  \/ \E i \in DOMAIN tasks : tasks[i] = "TakePicture"
RequestPush ==
  LET current == ~flushRuns /\ request.generation = setupGeneration
      accepted == current /\ ~(request.still /\ StillQueued)
  IN
  /\ request.step = "push"
  /\ request' = NoRequest
  /\ CASE ~accepted -> UNCHANGED <<frames, tasks>>
       [] accepted /\ Source(streams) # NoSize ->
            /\ frames' = Append(frames, IF request.still THEN "still" ELSE "frame")
            /\ tasks' = Posted("StartPreview")
       [] accepted /\ Source(streams) = NoSize ->
            tasks' = Posted("TakePicture") /\ UNCHANGED frames
  /\ UNCHANGED <<clientVars, streams, bufferVars, setupGeneration, taskInHand, wrapperStarted,
                 stillRuns,
                 paramVars, captureVars, native_recording_stream, captureNodes, spoiled,
                 setupBudget>>

-----------------------------------------------------------------------------
(* The worker checks its task under stateMutex_ and works under             *)
(* backendOpsMutex_, where it checks the generation once more.              *)
NoTask == [task |-> "none", generation |-> 0]
WorkerChecks ==
  LET task == Head(tasks) IN
  /\ tasks # << >> /\ taskInHand.task = "none"
  /\ tasks' = Tail(tasks)
  /\ taskInHand' = IF /\ ~flushRuns
                  /\ task = "StartPreview" => /\ configured /\ ~wrapperStarted
                                              /\ frames # << >> /\ Source(streams) # NoSize
               THEN [task |-> task, generation |-> setupGeneration] ELSE NoTask
  /\ UNCHANGED <<clientVars, streams, bufferVars, setupGeneration, request, frames,
                 wrapperStarted, stillRuns, paramVars, captureVars, native_recording_stream,
                 captureNodes, spoiled, setupBudget>>

WorkerTooLate ==
  /\ taskInHand.task # "none" /\ taskInHand.generation # setupGeneration
  /\ taskInHand' = NoTask
  /\ UNCHANGED <<clientVars, streams, bufferVars, setupGeneration, request, frames,
                 tasks, wrapperStarted, stillRuns, paramVars, captureVars,
                 native_recording_stream, captureNodes, spoiled, setupBudget>>

(* Mutant of WorkerStartsPreview: no second look at the generation.         *)
WorkerStartsStale ==
  /\ taskInHand.task = "StartPreview"
  /\ ~nativePreview /\ 0 \in captureNodes
  /\ taskInHand' = NoTask
  /\ wrapperStarted' = TRUE /\ nativePreview' = TRUE
  /\ route' = oneShot /\ oneShot' = NoSize
  /\ photographed' = (photographed \/ ~native_recording_stream)
  /\ spoiled' = spoiled \cup (IF preview_params_set THEN {} ELSE {"unset"})
  /\ UNCHANGED <<clientVars, streams, bufferVars, setupGeneration, request, frames,
                 tasks, stillRuns, params, cached, preview_params_set, movieRuns,
                 native_recording_stream, captureNodes, setupBudget>>

(* exynos_camera_preview_start(): S_FMT uses up the size.                   *)
WorkerStartsPreview ==
  /\ taskInHand.task = "StartPreview" /\ taskInHand.generation = setupGeneration
  /\ ~nativePreview /\ 0 \in captureNodes
  /\ taskInHand' = NoTask
  /\ wrapperStarted' = TRUE /\ nativePreview' = TRUE
  /\ route' = oneShot /\ oneShot' = NoSize
  /\ photographed' = (photographed \/ ~native_recording_stream)
  /\ spoiled' = spoiled \cup (IF preview_params_set THEN {} ELSE {"unset"})
  /\ UNCHANGED <<clientVars, streams, bufferVars, setupGeneration, request, frames,
                 tasks, stillRuns, params, cached, preview_params_set, movieRuns,
                 native_recording_stream, captureNodes, setupBudget>>

(* Its error path, before or after S_FMT; preview_params_set stays.         *)
WorkerStartFails ==
  /\ taskInHand.task = "StartPreview" /\ taskInHand.generation = setupGeneration
  /\ ~nativePreview
  /\ IF 0 \in captureNodes THEN Fault("start") /\ oneShot' \in {oneShot, NoSize}
     ELSE UNCHANGED <<setupBudget, oneShot>>
  /\ taskInHand' = NoTask
  /\ movieRuns' = FALSE
  /\ spoiled' = spoiled \cup {"start"}
  /\ UNCHANGED <<clientVars, streams, bufferVars, setupGeneration, request, frames,
                 tasks, wrapperStarted, stillRuns, params, cached, preview_params_set,
                 nativePreview, route, photographed, native_recording_stream, captureNodes>>

(* A preview frame serves the queue's head; the first frame of a movie      *)
(* session starts FIMC2, and a frame with a still is followed by it.        *)
FrameServed ==
  /\ nativePreview /\ frames # << >>
  /\ frames' = Tail(frames)
  /\ movieRuns' = (movieRuns \/ (native_recording_stream /\ 2 \in captureNodes))
  /\ tasks' = IF Head(frames) = "still" THEN Posted("TakePicture") ELSE tasks
  /\ UNCHANGED <<clientVars, streams, bufferVars, setupGeneration, request, taskInHand,
                 wrapperStarted, stillRuns, paramVars, nativePreview, route, photographed,
                 native_recording_stream, captureNodes, spoiled, setupBudget>>

(* takePictureWorker() writes the still's own parameters first, in the same *)
(* section of backendOpsMutex_ (OpsFree).                                   *)
WorkerAppliesStill ==
  /\ taskInHand.task = "TakePicture" /\ taskInHand.generation = setupGeneration
  /\ taskInHand' = [taskInHand EXCEPT !.task = "Capture"]
  /\ Apply(SessionParams(streams))
  /\ UNCHANGED <<clientVars, streams, bufferVars, setupGeneration, request, frames,
                 tasks, wrapperStarted, stillRuns, captureVars, native_recording_stream,
                 captureNodes>>

(* exynos_camera_picture_start() stops the preview and sets node 0 to the   *)
(* capture format; when it fails the preview is to start again.             *)
WorkerTakesPicture ==
  /\ taskInHand.task = "Capture"
  /\ taskInHand' = NoTask
  /\ PreviewStop /\ wrapperStarted' = FALSE
  /\ oneShot' = NoSize /\ route' = NoSize
  /\ \/ 0 \in captureNodes /\ stillRuns' = setupGeneration /\ UNCHANGED <<tasks, setupBudget>>
     \/ /\ IF 0 \in captureNodes THEN Fault("picture") ELSE UNCHANGED setupBudget
        /\ tasks' = Posted("StartPreview") /\ UNCHANGED stillRuns
  /\ UNCHANGED <<clientVars, streams, bufferVars, setupGeneration, request, frames,
                 params, cached, photographed, native_recording_stream, captureNodes, spoiled>>

(* handleJpeg(): the preview starts again for the requests that wait.       *)
PictureArrives ==
  /\ stillRuns # 0
  /\ stillRuns' = 0
  /\ tasks' = IF stillRuns = setupGeneration /\ ~flushRuns /\ frames # << >>
                    THEN Posted("StartPreview") ELSE tasks
  /\ UNCHANGED <<clientVars, streams, bufferVars, setupGeneration, request, frames, taskInHand,
                 wrapperStarted, paramVars, captureVars, native_recording_stream, captureNodes,
                 spoiled,
                 setupBudget>>

SetupNext ==
  \/ \E list \in Configurations : ConfigureBegin(list)
  \/ FlushRequested \/ FlushInvalidates \/ FlushStops
  \/ ConfigureUnsupported \/ ConfigureResetsNodes \/ ConfigureResetFails
  \/ ConfigureNoBridge \/ ConfigurePublishes \/ ConfigureNoMemory
  \/ ConfigureParams \/ ConfigureSucceeds
  \/ \E settings, wantsStill \in BOOLEAN : RequestGate(settings, wantsStill)
  \/ RequestApply \/ RequestPush
  \/ WorkerChecks \/ WorkerTooLate \/ WorkerStartsPreview \/ WorkerStartFails
  \/ FrameServed \/ WorkerAppliesStill \/ WorkerTakesPicture \/ PictureArrives

SetupSpec == SetupInit /\ [][SetupNext]_setupVars

-----------------------------------------------------------------------------
SetupTypeOK ==
  /\ configuring.step \in {"idle", "flush", "stop", "check", "publish", "params", "succeed"}
  /\ {scratch, drain, configured, reconfiguring, flushRuns, haveRequestSettings, wrapperStarted,
      preview_params_set, nativePreview, movieRuns, native_recording_stream,
      photographed} \subseteq BOOLEAN
  /\ request.step \in {"none", "apply", "push"}
  /\ taskInHand.task \in {"none", "StartPreview", "TakePicture", "Capture"}
  /\ {frames[i] : i \in DOMAIN frames} \subseteq {"frame", "still"}
  /\ {tasks[i] : i \in DOMAIN tasks} \subseteq {"StartPreview", "TakePicture"}
  /\ cached.mode \in {"camera", "movie", "unknown"} /\ captureNodes \subseteq {0, 2}
  /\ {stillRuns, request.generation, taskInHand.generation} \subseteq 0..setupGeneration

(* Whatever step of configure_streams() fails, and whatever late request    *)
(* writes its settings meanwhile: a configured session has the buffers its  *)
(* streams need and a backend that knows whether it records; an             *)
(* unconfigured one keeps no buffer (ScopedReconfigure, 761-797).           *)
ConfiguredIsComplete ==
  configuring.step = "idle" =>
    IF configured
    THEN /\ drain = (Source(streams) # NoSize) /\ scratch = NeedsScratch(streams)
         /\ native_recording_stream = (streams.video # NoSize)
         /\ params.movie = (streams.video # NoSize)
    ELSE ~drain /\ ~scratch

(* Between the flush of configure_streams() and its success, and after a    *)
(* failure, nothing captures: no task of the worker, however late, starts   *)
(* the preview or a still across a change of the streams                    *)
(* (startPreviewWorker 2469-2482, takePictureWorker 2539-2541).             *)
NothingRunsAcrossReconfigure ==
  (\/ configuring.step \in {"check", "publish", "params", "succeed"}
   \/ configuring.step = "idle" /\ ~configured)
  => ~nativePreview /\ ~movieRuns /\ stillRuns = 0

(* A running preview has the sensor in its session's mode, and FIMC2 is     *)
(* armed on a route of its own size over freshly selected inputs, unless    *)
(* something of this happened before: a control was refused, preview_start  *)
(* failed or ran with nothing applied since the last stop, a configuration  *)
(* was rejected between a photo and a movie session, the nodes could not be  *)
(* reopened (configureStreams 511-652, params_apply 1285-1330).             *)
RouteIsReady ==
  /\ nativePreview /\ "control" \notin spoiled
       => cached.mode = IF streams.video # NoSize THEN "movie" ELSE "camera"
  /\ movieRuns /\ spoiled \cap {"control", "start", "unset", "rejected"} = {}
       => route = NativeVideo(streams)
  /\ movieRuns /\ spoiled \cap {"rejected", "nodes"} = {} => ~photographed

(* exynos_camera.c:2945-2950: "SENSOR_OUTPUT_SIZE must already have been    *)
(* consumed by FIMC0 S_FMT before preview starts."                          *)
RecordingKnowsItsSize == movieRuns => route = NativeVideo(streams)
=============================================================================
