-------------------------- MODULE CaptureSession --------------------------
(***************************************************************************)
(* The life of capture requests inside NativeCamera3Device, from            *)
(* process_capture_request() to process_capture_result():                   *)
(*                                                                         *)
(*   framework   processCaptureRequest                                     *)
(*   worker      workerLoop, startPreviewWorker, takePictureWorker          *)
(*   capture     the native preview thread in consumeNativeFrame            *)
(*   blit        videoBlitLoop                                             *)
(*   result      resultLoop                                                *)
(*   picture     exynos_camera_picture_thread, up to handleJpeg             *)
(*   flusher     flush and closeInternal, on another framework thread       *)
(*                                                                         *)
(* (camera3/Camera3.cpp; the picture and preview threads of                *)
(* camera3/exynos_camera.c as far as they decide when a frame moves).       *)
(*                                                                         *)
(* One action is one section under stateMutex_ or resultMutex_, or the code *)
(* between two of them.  An ImageAnalysis buffer goes everywhere a preview  *)
(* buffer goes and is left out.  RecordingBuffers models the recording node *)
(* and a preview thread that outlives its stop: the waits of preview_stop   *)
(* and picture_stop do not give up here.                                   *)
(***************************************************************************)
EXTENDS Integers, Sequences, FiniteSets, SequencesExt

CONSTANTS
  Scenarios,    \* the sessions to look at: what the framework asks for and
                \* what may go wrong, a set of records (see ScenarioAssumption)
  QueueDepth,   \* kVideoBlitQueueDepth
  None

Kinds      == {"preview", "video", "jpeg"}
FaultKinds == {"fence", "start", "preview", "copy", "take", "picture"}
Threads    == {"framework", "worker", "capture", "blit", "result", "picture", "flusher"}

(* Where a thread can be: in its loop, or between two sections of a call.    *)
Points == {"off", "idle", "exited",
           "parameters", "reserve", "enqueue", "post",
           "start", "startPreview", "take", "fence", "takePicture", "stopPreview", "finish",
           "finished", "clearStill", "restart",
           "loop", "dequeue", "recheck", "copy", "blit", "requeue", "deliver", "schedule",
           "started", "enabled", "expose", "encode", "callback", "check", "send",
           "join", "flush", "drainJpeg", "lock", "cancel", "waitPicture", "collect",
           "results", "resultIdle", "fail", "stopResult", "closed"}

(* outputs[r]: the buffers of the r-th request; settings: the requests that  *)
(* carry settings (the others repeat them); source: sourceStream_ # nullptr, *)
(* the session has a preview stream, without which a request can only ask    *)
(* for a JPEG; flushes: the number of flush() calls; close: whether the      *)
(* device may be closed; faults: the failures that may happen.              *)
ASSUME ScenarioAssumption ==
  /\ Scenarios # {} /\ IsFiniteSet(Scenarios)
  /\ \A s \in Scenarios :
       /\ s.outputs \in Seq((SUBSET Kinds) \ {{}})
       /\ s.settings \subseteq DOMAIN s.outputs
       /\ s.source \in BOOLEAN /\ s.close \in BOOLEAN
       /\ s.source \/ \A r \in DOMAIN s.outputs : s.outputs[r] = {"jpeg"}
       /\ s.flushes \in Nat /\ s.faults \subseteq FaultKinds

MaxRequests == Max({Len(s.outputs) : s \in Scenarios})
MaxFlushes  == Max({s.flushes : s \in Scenarios})
Requests    == 1..MaxRequests

ASSUME DepthAssumption == QueueDepth \in Nat \ {0}
(* What failFrame knows of its frame (has: the buffers it found present).    *)
Failures == [frame : Requests, step : {"look", "return", "still"}, has : SUBSET Kinds]
ASSUME NoneAssumption == None \notin Requests /\ None \notin Threads /\ None \notin Failures

VARIABLES
  scenario,   \* the session, chosen when the device is opened
  (* control: where each thread is, the frame in its hands, its failFrame() *)
  pc, job, failing,
  (* stateMutex_ *)
  sessionGeneration, closing, flushing, previewAbort, stillQueued,
  pendingJpeg, previewQueue, inFlightPreview, scratchInUse, workerTasks,
  jpegWorkerActive, jpegCallbacksActive,
  (* resultMutex_, videoBlitMutex_, backendOpsMutex_ and its owner's data *)
  resultQueue, videoBlitQueue, backendOps, previewStarted,
  (* worker: generation of its task and result of the backend call *)
  taskGeneration, rc,
  (* struct exynos_camera: preview_enabled, who streams on node 0, and *)
  (* whether callbacks.user still points to the device                *)
  preview_enabled, node0, callbacksUser,
  (* PendingFrame: generation, metadataReturned, requestErrorNotified and *)
  (* the buffers still present (owned)                                   *)
  generation, metadataReturned, requestErrorNotified, owned,
  (* what the framework has seen, and the number of its next request *)
  returned, shutters, next,
  (* flusher: what it will fail, whether it closes, and its calls so far *)
  todo, op, flushes,
  (* history: frames whose last reference was dropped with buffers in them *)
  abandoned

control  == <<pc, job, failing>>
session  == <<sessionGeneration, closing, flushing>>
still    == <<stillQueued, pendingJpeg, previewAbort>>
preview  == <<previewQueue, inFlightPreview, scratchInUse>>
jpegSync == <<jpegWorkerActive, jpegCallbacksActive>>
queues   == <<resultQueue, videoBlitQueue>>
worker   == <<taskGeneration, rc>>
backend  == <<preview_enabled, node0, callbacksUser>>
frame    == <<metadataReturned, requestErrorNotified, owned>>
seen     == <<returned, shutters>>
flusher  == <<todo, op, flushes>>
vars == <<scenario, control, session, still, preview, workerTasks, jpegSync, queues,
          backendOps, previewStarted, worker, backend, frame, generation, seen,
          next, flusher, abandoned>>

Outputs   == scenario.outputs
Settings  == scenario.settings
HasSource == scenario.source
Faults    == scenario.faults

Init ==
  /\ scenario \in Scenarios
  /\ pc = [t \in Threads |-> IF t = "capture" \/ t = "picture" THEN "off" ELSE "idle"]
  /\ job = [t \in Threads |-> None]
  /\ failing = [t \in Threads |-> None]
  /\ sessionGeneration = 0 /\ closing = FALSE /\ flushing = FALSE
  /\ previewAbort = FALSE /\ stillQueued = FALSE /\ pendingJpeg = None
  /\ previewQueue = << >> /\ inFlightPreview = {} /\ scratchInUse = None
  /\ workerTasks = << >> /\ jpegWorkerActive = FALSE /\ jpegCallbacksActive = 0
  /\ resultQueue = << >> /\ videoBlitQueue = << >>
  /\ backendOps = None /\ previewStarted = FALSE
  /\ taskGeneration = 0 /\ rc = "ok"
  /\ preview_enabled = FALSE /\ node0 = "off" /\ callbacksUser = TRUE
  /\ generation = [r \in Requests |-> 0]
  /\ metadataReturned = {} /\ requestErrorNotified = {}
  /\ owned = [r \in Requests |-> {}]
  /\ returned = [r \in Requests |-> [k \in Kinds |-> 0]]
  /\ shutters = << >> /\ next = 1
  /\ todo = << >> /\ op = "none" /\ flushes = 0
  /\ abandoned = {}

-----------------------------------------------------------------------------
(* Control *)

At(t, place) == pc[t] = place /\ failing[t] = None
Goto(t, place) == pc' = [pc EXCEPT ![t] = place]
GotoWith(t, place, r) ==
  Goto(t, place) /\ job' = [job EXCEPT ![t] = r]

Current(g) == g = sessionGeneration
InTransition == closing \/ flushing

(* process_capture_result(): the framework gets the buffers ks of frame r. *)
GiveBack(r, ks) ==
  returned' = [returned EXCEPT ![r] =
                 [k \in Kinds |-> IF k \in ks THEN @[k] + 1 ELSE @[k]]]

(* The HAL forgets the buffers ks of frame r (std::optional::reset).         *)
ResetNothing(r, ks) == UNCHANGED owned
Reset(r, ks) == owned' = [owned EXCEPT ![r] = @ \ ks]

(* postTaskLocked: one StartPreview per generation waits at a time. *)
PostTask(task, g) ==
  workerTasks' =
    IF task = "start" /\ Contains(workerTasks, [task |-> task, gen |-> g])
    THEN workerTasks
    ELSE Append(workerTasks, [task |-> task, gen |-> g])

-----------------------------------------------------------------------------
(* failFrame, called by thread t.  No lock is held while the request error  *)
(* is sent and the buffers that are found present are given back.           *)

StartFailingForgotten(t, r) == UNCHANGED failing
StartFailing(t, r) ==
  failing' = [failing EXCEPT ![t] = [frame |-> r, step |-> "look", has |-> {}]]

FailLookAgain(t) ==
  /\ failing[t] # None /\ failing[t].step = "look"
  /\ requestErrorNotified' = requestErrorNotified \cup {failing[t].frame}
  /\ failing' = [failing EXCEPT ![t].step = "return", ![t].has = owned[failing[t].frame]]
  /\ UNCHANGED <<scenario, pc, job, session, still, preview, workerTasks,
                 jpegSync, queues, backendOps, previewStarted, worker,
                 backend, metadataReturned, owned, generation, seen, next,
                 flusher, abandoned>>

FailLook(t) ==
  /\ failing[t] # None /\ failing[t].step = "look"
  /\ LET r == failing[t].frame IN
       /\ requestErrorNotified' =
            IF r \in metadataReturned THEN requestErrorNotified
            ELSE requestErrorNotified \cup {r}
       /\ failing' = [failing EXCEPT ![t].step = "return", ![t].has = owned[r]]
  /\ UNCHANGED <<scenario, pc, job, session, still, preview, workerTasks,
                 jpegSync, queues, backendOps, previewStarted, worker,
                 backend, metadataReturned, owned, generation, seen, next,
                 flusher, abandoned>>

FailReturn(t) ==
  /\ failing[t] # None /\ failing[t].step = "return"
  /\ LET r == failing[t].frame  has == failing[t].has IN
       /\ GiveBack(r, has)
       /\ Reset(r, has)
       /\ failing' = [failing EXCEPT ![t] =
                        IF "jpeg" \in has THEN [@ EXCEPT !.step = "still"] ELSE None]
  /\ UNCHANGED <<scenario, pc, job, session, still, preview, workerTasks,
                 jpegSync, queues, backendOps, previewStarted, worker,
                 backend, metadataReturned, requestErrorNotified,
                 generation, shutters, next, flusher, abandoned>>

(* A frame that had a JPEG buffer clears the still reservation, its own or   *)
(* another frame's.                                                        *)
FailStill(t) ==
  /\ failing[t] # None /\ failing[t].step = "still"
  /\ pendingJpeg' = IF pendingJpeg = failing[t].frame THEN None ELSE pendingJpeg
  /\ stillQueued' = FALSE
  /\ previewAbort' = (previewAbort /\ InTransition)
  /\ failing' = [failing EXCEPT ![t] = None]
  /\ UNCHANGED <<scenario, pc, job, session, preview, workerTasks, jpegSync,
                 queues, backendOps, previewStarted, worker, backend, frame,
                 generation, seen, next, flusher, abandoned>>

FailFrame(t) == FailLook(t) \/ FailReturn(t) \/ FailStill(t)
-----------------------------------------------------------------------------
(* framework: processCaptureRequest for the next request                   *)

NeedsOrderedUnlessJpeg(r) == Outputs[r] # {"jpeg"}
NeedsOrderedPreviewCapture(r) == HasSource \/ Outputs[r] # {"jpeg"}

Changed(r) == InTransition \/ ~Current(generation[r])

(* rejectRawRequest: the session is in transition, no frame is made.        *)
RejectRawRequest ==
  /\ At("framework", "idle") /\ next <= Len(Outputs) /\ op # "close" /\ InTransition
  /\ requestErrorNotified' = requestErrorNotified \cup {next}
  /\ GiveBack(next, Outputs[next])
  /\ next' = next + 1
  /\ UNCHANGED <<scenario, control, session, still, preview, workerTasks,
                 jpegSync, queues, backendOps, previewStarted, worker,
                 backend, metadataReturned, owned, generation, shutters,
                 flusher, abandoned>>

AcceptRequest ==
  /\ At("framework", "idle") /\ next <= Len(Outputs) /\ op # "close" /\ ~InTransition
  /\ generation' = [generation EXCEPT ![next] = sessionGeneration]
  /\ owned' = [owned EXCEPT ![next] = Outputs[next]]
  /\ next' = next + 1
  /\ GotoWith("framework",
              IF next \in Settings \/ "jpeg" \in Outputs[next] THEN "parameters" ELSE "reserve",
              next)
  /\ UNCHANGED <<scenario, failing, session, still, preview, workerTasks,
                 jpegSync, queues, backendOps, previewStarted, worker,
                 backend, metadataReturned, requestErrorNotified, seen,
                 flusher, abandoned>>

(* updateBackendParameters (and handleAfTrigger) hold backendOpsMutex_.      *)
UpdateBackendParameters ==
  /\ At("framework", "parameters") /\ backendOps = None
  /\ Goto("framework", "reserve")
  /\ UNCHANGED <<scenario, job, failing, session, still, preview,
                 workerTasks, jpegSync, queues, backendOps, previewStarted,
                 worker, backend, frame, generation, seen, next, flusher,
                 abandoned>>

ReserveWithoutNote ==
  /\ At("framework", "reserve")
  /\ ~Changed(job["framework"]) /\ ~stillQueued
  /\ Goto("framework", "enqueue")
  /\ UNCHANGED <<scenario, job, failing, session, still, preview,
                 workerTasks, jpegSync, queues, backendOps, previewStarted,
                 worker, backend, frame, generation, seen, next, flusher,
                 abandoned>>

(* An overlapping still request is rejected, the first one reserves.         *)
Reserve ==
  /\ At("framework", "reserve")
  /\ LET r == job["framework"]  jpeg == "jpeg" \in Outputs[r] IN
       IF Changed(r) \/ (jpeg /\ stillQueued)
       THEN /\ StartFailing("framework", r)
            /\ GotoWith("framework", "idle", None)
            /\ UNCHANGED stillQueued
       ELSE /\ stillQueued' = (stillQueued \/ jpeg)
            /\ Goto("framework", "enqueue")
            /\ UNCHANGED <<job, failing>>
  /\ UNCHANGED <<scenario, session, pendingJpeg, previewAbort, preview,
                 workerTasks, jpegSync, queues, backendOps, previewStarted,
                 worker, backend, frame, generation, seen, next, flusher,
                 abandoned>>

(* Without a preview source the shutter and the metadata are sent at once.   *)
Enqueue ==
  /\ At("framework", "enqueue")
  /\ LET r == job["framework"]  ordered == NeedsOrderedPreviewCapture(r) IN
       /\ shutters' = IF ordered THEN shutters ELSE Append(shutters, r)
       /\ metadataReturned' = IF ordered THEN metadataReturned ELSE metadataReturned \cup {r}
       /\ IF Changed(r)
          THEN /\ StartFailing("framework", r)
               /\ stillQueued' = (stillQueued /\ "jpeg" \notin Outputs[r])
               /\ GotoWith("framework", "idle", None)
               /\ UNCHANGED <<pendingJpeg, previewAbort, previewQueue>>
          ELSE /\ previewQueue' = IF ordered THEN Append(previewQueue, r) ELSE previewQueue
               /\ pendingJpeg' = IF ordered THEN pendingJpeg ELSE r
               /\ previewAbort' = (previewAbort \/ ~ordered)
               /\ Goto("framework", "post")
               /\ UNCHANGED <<job, failing, stillQueued>>
  /\ UNCHANGED <<scenario, session, inFlightPreview, scratchInUse,
                 workerTasks, jpegSync, queues, backendOps, previewStarted,
                 worker, backend, requestErrorNotified, owned, generation,
                 returned, next, flusher, abandoned>>

PostRequest ==
  /\ At("framework", "post")
  /\ LET r == job["framework"] IN
       PostTask(IF NeedsOrderedPreviewCapture(r) THEN "start" ELSE "take", generation[r])
  /\ GotoWith("framework", "idle", None)
  /\ UNCHANGED <<scenario, failing, session, still, preview, jpegSync,
                 queues, backendOps, previewStarted, worker, backend, frame,
                 generation, seen, next, flusher, abandoned>>

-----------------------------------------------------------------------------
(* worker: workerLoop, startPreviewWorker, takePictureWorker               *)

PopTask ==
  /\ At("worker", "idle") /\ workerTasks # << >>
  /\ LET command == Head(workerTasks) IN
       /\ Goto("worker", CASE command.task = "exit" -> "exited"
                           [] command.task # "exit" /\ ~Current(command.gen) -> "idle"
                           [] OTHER -> command.task)
       /\ taskGeneration' = command.gen
  /\ workerTasks' = Tail(workerTasks)
  /\ UNCHANGED <<scenario, job, failing, session, still, preview, jpegSync,
                 queues, backendOps, previewStarted, rc, backend, frame,
                 generation, seen, next, flusher, abandoned>>

StartPreviewCheck ==
  /\ At("worker", "start")
  /\ LET go == /\ Current(taskGeneration) /\ ~InTransition /\ previewQueue # << >>
               /\ ~previewStarted /\ HasSource IN
       /\ previewAbort' = (previewAbort /\ ~go)
       /\ Goto("worker", IF go THEN "startPreview" ELSE "idle")
  /\ UNCHANGED <<scenario, job, failing, session, stillQueued, pendingJpeg,
                 preview, workerTasks, jpegSync, queues, backendOps,
                 previewStarted, worker, backend, frame, generation, seen,
                 next, flusher, abandoned>>

(* exynos_camera_backend_start_preview creates the preview thread.  The      *)
(* driver refuses the format of a node that already streams.               *)
StartPreview ==
  /\ At("worker", "startPreview") /\ backendOps = None
  /\ \/ /\ Current(taskGeneration) /\ preview_enabled
        /\ previewStarted' = TRUE
        /\ Goto("worker", "idle")
        /\ UNCHANGED <<preview_enabled, node0>>
     \/ /\ Current(taskGeneration) /\ ~preview_enabled /\ node0 = "off"
        /\ previewStarted' = TRUE /\ preview_enabled' = TRUE /\ node0' = "preview"
        /\ pc' = [pc EXCEPT !["worker"] = "idle", !["capture"] = "loop"]
     \/ /\ \/ ~Current(taskGeneration)
           \/ ~preview_enabled /\ (node0 # "off" \/ "start" \in Faults)
        /\ Goto("worker", "idle")
        /\ UNCHANGED <<previewStarted, preview_enabled, node0>>
  /\ UNCHANGED <<scenario, job, failing, session, still, preview,
                 workerTasks, jpegSync, queues, backendOps, worker,
                 callbacksUser, frame, generation, seen, next, flusher,
                 abandoned>>

TakePictureCheck ==
  /\ At("worker", "take")
  /\ IF /\ Current(taskGeneration) /\ ~InTransition /\ pendingJpeg # None
        /\ generation[pendingJpeg] = taskGeneration /\ "jpeg" \in owned[pendingJpeg]
     THEN /\ jpegWorkerActive' = TRUE /\ previewAbort' = TRUE
          /\ GotoWith("worker", "fence", pendingJpeg)
     ELSE /\ GotoWith("worker", "idle", None)
          /\ UNCHANGED <<jpegWorkerActive, previewAbort>>
  /\ UNCHANGED <<scenario, failing, session, stillQueued, pendingJpeg,
                 preview, workerTasks, jpegCallbacksActive, queues,
                 backendOps, previewStarted, worker, backend, frame,
                 generation, seen, next, flusher, abandoned>>

(* waitAndCloseAcquireFence of the JPEG buffer; after a timeout the worker   *)
(* looks at the generation before it stops being active.                   *)
TakePictureFence ==
  /\ At("worker", "fence")
  /\ \/ /\ Goto("worker", "takePicture")
        /\ UNCHANGED rc
     \/ /\ "fence" \in Faults
        /\ rc' = IF Current(taskGeneration) THEN "fence" ELSE "stale"
        /\ Goto("worker", "finish")
  /\ UNCHANGED <<scenario, job, failing, session, still, preview,
                 workerTasks, jpegSync, queues, backendOps, previewStarted,
                 taskGeneration, backend, frame, generation, seen, next,
                 flusher, abandoned>>

(* set_parameters, then exynos_camera_picture_start, which stops the preview *)
(* first.  A stale generation or refused parameters leave the preview alone. *)
TakePicture ==
  /\ At("worker", "takePicture") /\ backendOps = None
  /\ \/ /\ ~Current(taskGeneration) \/ "take" \in Faults
        /\ rc' = "failed"
        /\ Goto("worker", "finish")
        /\ UNCHANGED <<backendOps, preview_enabled>>
     \/ /\ Current(taskGeneration)
        /\ backendOps' = "worker" /\ preview_enabled' = FALSE
        /\ Goto("worker", "stopPreview")
        /\ UNCHANGED rc
  /\ UNCHANGED <<scenario, job, failing, session, still, preview,
                 workerTasks, jpegSync, queues, previewStarted,
                 taskGeneration, node0, callbacksUser, frame, generation,
                 seen, next, flusher, abandoned>>

(* preview_stop returns when the callback has left and every recording       *)
(* buffer is back; it stops node 0 only if the preview had it.              *)
PreviewStopped ==
  pc["capture"] = "off" /\ videoBlitQueue = << >> /\ At("blit", "idle")
Node0AfterStop == IF node0 = "preview" THEN "off" ELSE node0

(* The rest of exynos_camera_picture_start.  A picture thread that has not   *)
(* ended is found only after STREAMON, and node 0 is left streaming.        *)
PictureStart ==
  /\ At("worker", "stopPreview") /\ PreviewStopped
  /\ backendOps' = None
  /\ LET free == Node0AfterStop = "off" IN
     \/ /\ free /\ pc["picture"] = "off"
        /\ node0' = "picture" /\ rc' = "ok"
        /\ pc' = [pc EXCEPT !["worker"] = "finish", !["picture"] = "started"]
     \/ /\ \/ "take" \in Faults /\ node0' \in {Node0AfterStop, "picture"}
           \/ ~free /\ node0' = Node0AfterStop
           \/ free /\ pc["picture"] # "off" /\ node0' = "picture"
        /\ rc' = "failed"
        /\ Goto("worker", "finish")
  /\ UNCHANGED <<scenario, job, failing, session, still, preview,
                 workerTasks, jpegSync, queues, previewStarted,
                 taskGeneration, preview_enabled, callbacksUser, frame,
                 generation, seen, next, flusher, abandoned>>

FinishWorker ==
  /\ At("worker", "finish")
  /\ jpegWorkerActive' = FALSE
  /\ Goto("worker", "finished")
  /\ UNCHANGED <<scenario, job, failing, session, still, preview,
                 workerTasks, jpegCallbacksActive, queues, backendOps,
                 previewStarted, worker, backend, frame, generation, seen,
                 next, flusher, abandoned>>

TakePictureFinished ==
  /\ At("worker", "finished")
  /\ previewStarted' = (previewStarted /\ rc \in {"fence", "stale"})
  /\ IF rc = "fence" \/ (rc = "failed" /\ Current(taskGeneration))
     THEN /\ StartFailing("worker", job["worker"])
          /\ Goto("worker", "clearStill")
          /\ UNCHANGED job
     ELSE /\ GotoWith("worker", "idle", None)
          /\ UNCHANGED failing
  /\ UNCHANGED <<scenario, session, still, preview, workerTasks, jpegSync,
                 queues, backendOps, worker, backend, frame, generation,
                 seen, next, flusher, abandoned>>

TakePictureClear ==
  /\ At("worker", "clearStill")
  /\ pendingJpeg' = IF pendingJpeg = job["worker"] THEN None ELSE pendingJpeg
  /\ stillQueued' = FALSE /\ previewAbort' = FALSE
  /\ GotoWith("worker", "restart", None)
  /\ UNCHANGED <<scenario, failing, session, preview, workerTasks, jpegSync,
                 queues, backendOps, previewStarted, worker, backend, frame,
                 generation, seen, next, flusher, abandoned>>

RestartAfterFailure ==
  /\ At("worker", "restart")
  /\ PostTask("start", taskGeneration)
  /\ Goto("worker", "idle")
  /\ UNCHANGED <<scenario, job, failing, session, still, preview, jpegSync,
                 queues, backendOps, previewStarted, worker, backend, frame,
                 generation, seen, next, flusher, abandoned>>
-----------------------------------------------------------------------------
(* capture: the preview thread, in consumeNativeFrame once per native frame *)

(* A failed poll or DQBUF ends the thread and leaves node 0 streaming.       *)
NextNativeFrame ==
  /\ At("capture", "loop")
  /\ \/ /\ Goto("capture", IF preview_enabled THEN "dequeue" ELSE "off")
        /\ UNCHANGED preview_enabled
     \/ /\ "preview" \in Faults
        /\ Goto("capture", "off") /\ preview_enabled' = FALSE
  /\ UNCHANGED <<scenario, job, failing, session, still, preview,
                 workerTasks, jpegSync, queues, backendOps, previewStarted,
                 worker, node0, callbacksUser, frame, generation, seen,
                 next, flusher, abandoned>>

(* The native frame goes to the drain buffer.                              *)
DrainPreview ==
  /\ At("capture", "dequeue") /\ (previewAbort \/ InTransition)
  /\ Goto("capture", "loop")
  /\ UNCHANGED <<scenario, job, failing, session, still, preview,
                 workerTasks, jpegSync, queues, backendOps, previewStarted,
                 worker, backend, frame, generation, seen, next, flusher,
                 abandoned>>

ReleaseScratchNot(r) == UNCHANGED scratchInUse
ReleaseScratch(r) == scratchInUse' = IF scratchInUse = r THEN None ELSE scratchInUse

(* dequeuePreview.  A request without a preview buffer needs the one scratch *)
(* buffer, and waits for it at the head of the queue.                       *)
DequeuePreview ==
  /\ At("capture", "dequeue") /\ ~previewAbort /\ ~InTransition /\ previewQueue # << >>
  /\ LET r == Head(previewQueue) IN
       /\ \/ "preview" \in owned[r] /\ UNCHANGED scratchInUse
          \/ "preview" \notin owned[r] /\ scratchInUse = None /\ scratchInUse' = r
       /\ previewQueue' = Tail(previewQueue)
       /\ inFlightPreview' = inFlightPreview \cup {r}
       /\ GotoWith("capture", "fence", r)
  /\ UNCHANGED <<scenario, failing, session, still, workerTasks, jpegSync,
                 queues, backendOps, previewStarted, worker, backend, frame,
                 generation, seen, next, flusher, abandoned>>

SourceFence ==
  /\ At("capture", "fence")
  /\ Goto("capture", "recheck")
  /\ UNCHANGED <<scenario, job, failing, session, still, preview,
                 workerTasks, jpegSync, queues, backendOps, previewStarted,
                 worker, backend, frame, generation, seen, next, flusher,
                 abandoned>>

(* The acquire fence of the framework's buffer times out (a scratch buffer   *)
(* has none).                                                              *)
SourceFenceTimeout ==
  /\ At("capture", "fence") /\ "fence" \in Faults
  /\ LET r == job["capture"]  hadJpeg == "jpeg" \in owned[r] IN
       /\ scratchInUse # r
       /\ inFlightPreview' = inFlightPreview \ {r}
       /\ stillQueued' = (stillQueued /\ ~hadJpeg)
       /\ previewAbort' = (previewAbort /\ ~hadJpeg)
       /\ StartFailing("capture", r)
       /\ GotoWith("capture", "dequeue", None)
  /\ UNCHANGED <<scenario, session, pendingJpeg, previewQueue, scratchInUse,
                 workerTasks, jpegSync, queues, backendOps, previewStarted,
                 worker, backend, frame, generation, seen, next, flusher,
                 abandoned>>

(* After the fence the state is read again.  A still capture puts the frame  *)
(* back; a flush finds it neither in the queue nor in flight: its last      *)
(* reference is dropped here, with the buffers in it.                      *)
DequeueRecheck ==
  /\ At("capture", "recheck")
  /\ LET r == job["capture"]
         present == r \in inFlightPreview
         requeued == present /\ previewAbort /\ ~InTransition /\ Current(generation[r]) IN
       IF ~present \/ previewAbort \/ InTransition
       THEN /\ inFlightPreview' = inFlightPreview \ {r}
            /\ ReleaseScratch(r)
            /\ previewQueue' = IF requeued THEN <<r>> \o previewQueue ELSE previewQueue
            /\ abandoned' = IF present /\ ~requeued THEN abandoned \cup {r} ELSE abandoned
            /\ GotoWith("capture", "loop", None)
       ELSE /\ Goto("capture", "copy")
            /\ UNCHANGED <<job, preview, abandoned>>
  /\ UNCHANGED <<scenario, failing, session, still, workerTasks, jpegSync,
                 queues, backendOps, previewStarted, worker, backend, frame,
                 generation, seen, next, flusher>>

(* completeNativeFrame, called by thread t for frame r: a stale frame fails, *)
(* the others are queued with everything but the JPEG.                     *)
Complete(t, r, error) ==
  /\ LET present == r \in inFlightPreview
         fails == present /\ (error \/ ~Current(generation[r])) IN
       /\ IF fails THEN StartFailing(t, r) ELSE UNCHANGED failing
       /\ resultQueue' = IF present /\ ~fails THEN Append(resultQueue, r) ELSE resultQueue
  /\ inFlightPreview' = inFlightPreview \ {r}
  /\ ReleaseScratch(r)

VideoBlitRoomOffByOne ==
  Len(videoBlitQueue) + (IF pc["blit"] = "idle" THEN 0 ELSE 1) <= QueueDepth
VideoBlitRoom ==
  Len(videoBlitQueue) + (IF pc["blit"] = "idle" THEN 0 ELSE 1) < QueueDepth

(* queueVideoBlit, when the request has a video buffer, the node delivered a *)
(* recording frame and the queue has room; else the frame completes here.  *)
CopyPreview ==
  /\ At("capture", "copy")
  /\ LET r == job["capture"] IN
     \/ /\ "video" \in owned[r] /\ VideoBlitRoom
        /\ videoBlitQueue' = Append(videoBlitQueue, r)
        /\ UNCHANGED <<failing, inFlightPreview, scratchInUse, resultQueue>>
     \/ \E error \in BOOLEAN :
          /\ error => "copy" \in Faults
          /\ Complete("capture", r, error)
          /\ UNCHANGED videoBlitQueue
  /\ GotoWith("capture", "loop", None)
  /\ UNCHANGED <<scenario, session, still, previewQueue, workerTasks,
                 jpegSync, backendOps, previewStarted, worker, backend,
                 frame, generation, seen, next, flusher, abandoned>>

-----------------------------------------------------------------------------
(* blit: videoBlitLoop.  The recording buffer is requeued after the frame    *)
(* is complete.                                                            *)

BlitPop ==
  /\ At("blit", "idle") /\ videoBlitQueue # << >>
  /\ GotoWith("blit", "blit", Head(videoBlitQueue))
  /\ videoBlitQueue' = Tail(videoBlitQueue)
  /\ UNCHANGED <<scenario, failing, session, still, preview, workerTasks,
                 jpegSync, resultQueue, backendOps, previewStarted, worker,
                 backend, frame, generation, seen, next, flusher,
                 abandoned>>

BlitComplete ==
  /\ At("blit", "blit")
  /\ Complete("blit", job["blit"], FALSE)
  /\ GotoWith("blit", "requeue", None)
  /\ UNCHANGED <<scenario, session, still, previewQueue, workerTasks,
                 jpegSync, videoBlitQueue, backendOps, previewStarted,
                 worker, backend, frame, generation, seen, next, flusher,
                 abandoned>>

BlitRequeue ==
  /\ At("blit", "requeue")
  /\ Goto("blit", "idle")
  /\ UNCHANGED <<scenario, job, failing, session, still, preview,
                 workerTasks, jpegSync, queues, backendOps, previewStarted,
                 worker, backend, frame, generation, seen, next, flusher,
                 abandoned>>

-----------------------------------------------------------------------------
(* result: resultLoop                                                      *)

ResultPop ==
  /\ At("result", "idle") /\ resultQueue # << >>
  /\ GotoWith("result", "deliver", Head(resultQueue))
  /\ resultQueue' = Tail(resultQueue)
  /\ UNCHANGED <<scenario, failing, session, still, preview, workerTasks,
                 jpegSync, videoBlitQueue, backendOps, previewStarted,
                 worker, backend, frame, generation, seen, next, flusher,
                 abandoned>>

(* The shutter, then one result with the metadata and every realtime buffer. *)
Deliver ==
  /\ At("result", "deliver")
  /\ LET r == job["result"] IN
       /\ shutters' = Append(shutters, r)
       /\ GiveBack(r, owned[r] \ {"jpeg"})
       /\ metadataReturned' = metadataReturned \cup {r}
       /\ Reset(r, Kinds \ {"jpeg"})
       /\ IF "jpeg" \in owned[r]
          THEN Goto("result", "schedule") /\ UNCHANGED job
          ELSE GotoWith("result", "idle", None)
  /\ UNCHANGED <<scenario, failing, session, still, preview, workerTasks,
                 jpegSync, queues, backendOps, previewStarted, worker,
                 backend, requestErrorNotified, generation, next, flusher,
                 abandoned>>

ScheduleJpeg ==
  /\ At("result", "schedule")
  /\ LET r == job["result"] IN
       IF Changed(r)
       THEN /\ StartFailing("result", r)
            /\ GotoWith("result", "idle", None)
            /\ UNCHANGED <<pendingJpeg, previewAbort>>
       ELSE /\ pendingJpeg' = r /\ previewAbort' = TRUE
            /\ Goto("result", "post")
            /\ UNCHANGED <<job, failing>>
  /\ UNCHANGED <<scenario, session, stillQueued, preview, workerTasks,
                 jpegSync, queues, backendOps, previewStarted, worker,
                 backend, frame, generation, seen, next, flusher,
                 abandoned>>

PostTakePicture ==
  /\ At("result", "post")
  /\ PostTask("take", generation[job["result"]])
  /\ GotoWith("result", "idle", None)
  /\ UNCHANGED <<scenario, failing, session, still, preview, jpegSync,
                 queues, backendOps, previewStarted, worker, backend, frame,
                 generation, seen, next, flusher, abandoned>>

-----------------------------------------------------------------------------
(* picture: exynos_camera_picture_thread, which reads picture_enabled, takes *)
(* picture_mutex and holds it from "expose" on, and handleJpeg             *)

PictureThread ==
  /\ \/ At("picture", "started") /\ Goto("picture", "enabled")
     \/ At("picture", "enabled") /\ Goto("picture", "expose")
  /\ UNCHANGED <<scenario, job, failing, session, still, preview,
                 workerTasks, jpegSync, queues, backendOps, previewStarted,
                 worker, backend, frame, generation, seen, next, flusher,
                 abandoned>>

(* The picture arrives and node 0 stops; a failed poll ends the thread with  *)
(* node 0 streaming and without a callback, as a failed encoding does with  *)
(* node 0 stopped.                                                         *)
PictureTaken ==
  /\ At("picture", "expose")
  /\ \/ node0' = "off" /\ Goto("picture", "encode")
     \/ "picture" \in Faults /\ node0' \in {node0, "off"} /\ Goto("picture", "off")
  /\ UNCHANGED <<scenario, job, failing, session, still, preview,
                 workerTasks, jpegSync, queues, backendOps, previewStarted,
                 worker, preview_enabled, callbacksUser, frame, generation,
                 seen, next, flusher, abandoned>>

(* The EXIF and the JPEG are put together; backendDataCallback returns when  *)
(* callbacks.user has been cleared.                                        *)
DataCallback ==
  /\ At("picture", "encode")
  /\ Goto("picture", IF callbacksUser THEN "callback" ELSE "off")
  /\ UNCHANGED <<scenario, job, failing, session, still, preview,
                 workerTasks, jpegSync, queues, backendOps, previewStarted,
                 worker, backend, frame, generation, seen, next, flusher,
                 abandoned>>

HandleJpeg ==
  /\ At("picture", "callback")
  /\ jpegCallbacksActive' = jpegCallbacksActive + 1
  /\ GotoWith("picture", "check", pendingJpeg)
  /\ pendingJpeg' = None /\ stillQueued' = FALSE
  /\ previewAbort' = (previewAbort /\ InTransition)
  /\ UNCHANGED <<scenario, failing, session, preview, workerTasks,
                 jpegWorkerActive, queues, backendOps, previewStarted,
                 worker, backend, frame, generation, seen, next, flusher,
                 abandoned>>

HandleJpegCheck ==
  /\ At("picture", "check")
  /\ LET r == job["picture"]
         pending == r # None /\ "jpeg" \in owned[r]
         stale == pending /\ Changed(r) IN
       /\ Goto("picture", IF pending /\ ~stale THEN "send" ELSE "finish")
       /\ IF stale THEN StartFailing("picture", r) ELSE UNCHANGED failing
  /\ UNCHANGED <<scenario, job, session, still, preview, workerTasks,
                 jpegSync, queues, backendOps, previewStarted, worker,
                 backend, frame, generation, seen, next, flusher,
                 abandoned>>

SendJpeg ==
  /\ At("picture", "send")
  /\ LET r == job["picture"] IN
       IF Current(generation[r])
       THEN /\ GiveBack(r, {"jpeg"})
            /\ metadataReturned' = metadataReturned \cup {r}
            /\ Reset(r, {"jpeg"})
            /\ UNCHANGED failing
       ELSE /\ StartFailing("picture", r)
            /\ UNCHANGED <<returned, metadataReturned, owned>>
  /\ Goto("picture", "restart")
  /\ UNCHANGED <<scenario, job, session, still, preview, workerTasks,
                 jpegSync, queues, backendOps, previewStarted, worker,
                 backend, requestErrorNotified, generation, shutters, next,
                 flusher, abandoned>>

RestartCheckNever ==
  /\ At("picture", "restart")
  /\ Goto("picture", "finish")
  /\ UNCHANGED <<scenario, job, failing, session, still, preview,
                 workerTasks, jpegSync, queues, backendOps, previewStarted,
                 worker, backend, frame, generation, seen, next, flusher,
                 abandoned>>

RestartCheck ==
  /\ At("picture", "restart")
  /\ Goto("picture", IF ~Changed(job["picture"]) /\ previewQueue # << >> THEN "post" ELSE "finish")
  /\ UNCHANGED <<scenario, job, failing, session, still, preview,
                 workerTasks, jpegSync, queues, backendOps, previewStarted,
                 worker, backend, frame, generation, seen, next, flusher,
                 abandoned>>

RestartPreview ==
  /\ At("picture", "post")
  /\ PostTask("start", generation[job["picture"]])
  /\ Goto("picture", "finish")
  /\ UNCHANGED <<scenario, job, failing, session, still, preview, jpegSync,
                 queues, backendOps, previewStarted, worker, backend, frame,
                 generation, seen, next, flusher, abandoned>>

FinishCallbackUncounted ==
  /\ At("picture", "finish")
  /\ GotoWith("picture", "off", None)
  /\ UNCHANGED <<scenario, failing, session, still, preview, workerTasks,
                 jpegSync, queues, backendOps, previewStarted, worker,
                 backend, frame, generation, seen, next, flusher,
                 abandoned>>

FinishCallback ==
  /\ At("picture", "finish")
  /\ jpegCallbacksActive' = jpegCallbacksActive - 1
  /\ GotoWith("picture", "off", None)
  /\ UNCHANGED <<scenario, failing, session, still, preview, workerTasks,
                 jpegWorkerActive, queues, backendOps, previewStarted,
                 worker, backend, frame, generation, seen, next, flusher,
                 abandoned>>
-----------------------------------------------------------------------------
(* flusher: flush and closeInternal                                        *)

(* The first section of flush(): from here on every other thread sees a     *)
(* session in transition and a new generation.                             *)
BeginFlush ==
  /\ flushing' = TRUE /\ previewAbort' = TRUE
  /\ sessionGeneration' = sessionGeneration + 1
  /\ Goto("flusher", "drainJpeg")
  /\ UNCHANGED <<scenario, job, failing, closing, stillQueued, pendingJpeg,
                 preview, jpegSync, queues, backendOps, previewStarted,
                 worker, frame, generation, seen, next, todo, abandoned>>

Flush ==
  /\ At("flusher", "idle") /\ flushes < scenario.flushes
  /\ BeginFlush
  /\ op' = "flush" /\ flushes' = flushes + 1
  /\ UNCHANGED <<scenario, workerTasks, backend>>

(* The framework closes the device when it has no call in it.               *)
Close ==
  /\ scenario.close /\ At("flusher", "idle") /\ At("framework", "idle")
  /\ closing' = TRUE /\ previewAbort' = TRUE
  /\ sessionGeneration' = sessionGeneration + 1
  /\ workerTasks' = <<[task |-> "exit", gen |-> sessionGeneration']>>
  /\ op' = "close"
  /\ Goto("flusher", "join")
  /\ UNCHANGED <<scenario, job, failing, flushing, stillQueued, pendingJpeg,
                 preview, jpegSync, queues, backendOps, previewStarted,
                 worker, backend, frame, generation, seen, next, todo,
                 flushes, abandoned>>

(* worker_.join(), then set_callbacks with no user under backendOpsMutex_.   *)
CloseJoin ==
  /\ At("flusher", "join") /\ At("worker", "exited") /\ backendOps = None
  /\ callbacksUser' = FALSE
  /\ Goto("flusher", "flush")
  /\ UNCHANGED <<scenario, job, failing, session, still, preview,
                 workerTasks, jpegSync, queues, backendOps, previewStarted,
                 worker, preview_enabled, node0, frame, generation, seen,
                 next, flusher, abandoned>>

CloseFlush ==
  /\ At("flusher", "flush")
  /\ BeginFlush
  /\ UNCHANGED <<scenario, workerTasks, backend, op, flushes>>

(* The tasks a flush leaves to the worker; only one exit is ever posted.     *)
Exits(tasks) ==
  LET exits == { command \in ToSet(tasks) : command.task = "exit" } IN
  IF exits = {} THEN << >> ELSE <<CHOOSE command \in exits : TRUE>>

FlushDrainJpeg ==
  /\ At("flusher", "drainJpeg") /\ ~jpegWorkerActive /\ jpegCallbacksActive = 0
  /\ todo' = previewQueue /\ previewQueue' = << >>
  /\ GotoWith("flusher", "lock", pendingJpeg)
  /\ pendingJpeg' = None
  /\ workerTasks' = Exits(workerTasks)
  /\ UNCHANGED <<scenario, failing, session, stillQueued, previewAbort,
                 inFlightPreview, scratchInUse, jpegSync, queues,
                 backendOps, previewStarted, worker, backend, frame,
                 generation, seen, next, op, flushes, abandoned>>

FlushLock ==
  /\ At("flusher", "lock") /\ backendOps = None
  /\ backendOps' = "flusher"
  /\ Goto("flusher", "cancel")
  /\ UNCHANGED <<scenario, job, failing, session, still, preview,
                 workerTasks, jpegSync, queues, previewStarted, worker,
                 backend, frame, generation, seen, next, flusher,
                 abandoned>>

(* exynos_camera_picture_stop clears picture_enabled under picture_mutex: a  *)
(* thread that did not read it yet ends without a picture, and node 0 stays *)
(* as it is.                                                               *)
CancelPicture ==
  /\ At("flusher", "cancel") /\ pc["picture"] \in {"off", "started", "enabled"}
  /\ pc' = [pc EXCEPT !["flusher"] = "waitPicture",
                      !["picture"] = IF @ = "started" THEN "off" ELSE @]
  /\ UNCHANGED <<scenario, job, failing, session, still, preview,
                 workerTasks, jpegSync, queues, backendOps, previewStarted,
                 worker, backend, frame, generation, seen, next, flusher,
                 abandoned>>

(* It waits for the end of the thread; then exynos_camera_preview_stop.      *)
PictureCancelled ==
  /\ At("flusher", "waitPicture") /\ pc["picture"] = "off"
  /\ preview_enabled' = FALSE
  /\ Goto("flusher", "stopPreview")
  /\ UNCHANGED <<scenario, job, failing, session, still, preview,
                 workerTasks, jpegSync, queues, backendOps, previewStarted,
                 worker, node0, callbacksUser, frame, generation, seen,
                 next, flusher, abandoned>>

FlushStopPreview ==
  /\ At("flusher", "stopPreview") /\ PreviewStopped
  /\ node0' = Node0AfterStop
  /\ backendOps' = None
  /\ Goto("flusher", "collect")
  /\ UNCHANGED <<scenario, job, failing, session, still, preview,
                 workerTasks, jpegSync, queues, previewStarted, worker,
                 preview_enabled, callbacksUser, frame, generation, seen,
                 next, flusher, abandoned>>

FlushCollect ==
  /\ At("flusher", "collect")
  /\ previewStarted' = FALSE
  /\ todo' = todo \o SetToSeq(inFlightPreview)
  /\ inFlightPreview' = {} /\ scratchInUse' = None
  /\ Goto("flusher", "results")
  /\ UNCHANGED <<scenario, job, failing, session, still, previewQueue,
                 workerTasks, jpegSync, queues, backendOps, worker, backend,
                 frame, generation, seen, next, op, flushes, abandoned>>

FlushResults ==
  /\ At("flusher", "results")
  /\ todo' = todo \o resultQueue /\ resultQueue' = << >>
  /\ Goto("flusher", "resultIdle")
  /\ UNCHANGED <<scenario, job, failing, session, still, preview,
                 workerTasks, jpegSync, videoBlitQueue, backendOps,
                 previewStarted, worker, backend, frame, generation, seen,
                 next, op, flushes, abandoned>>

FlushResultNotAwaited ==
  /\ At("flusher", "resultIdle")
  /\ todo' = IF job["flusher"] = None THEN todo ELSE Append(todo, job["flusher"])
  /\ GotoWith("flusher", "fail", None)
  /\ UNCHANGED <<scenario, failing, session, still, preview, workerTasks,
                 jpegSync, queues, backendOps, previewStarted, worker,
                 backend, frame, generation, seen, next, op, flushes,
                 abandoned>>

FlushResultIdle ==
  /\ At("flusher", "resultIdle") /\ At("result", "idle")
  /\ todo' = IF job["flusher"] = None THEN todo ELSE Append(todo, job["flusher"])
  /\ GotoWith("flusher", "fail", None)
  /\ UNCHANGED <<scenario, failing, session, still, preview, workerTasks,
                 jpegSync, queues, backendOps, previewStarted, worker,
                 backend, frame, generation, seen, next, op, flushes,
                 abandoned>>

FlushFail ==
  /\ At("flusher", "fail") /\ todo # << >>
  /\ StartFailing("flusher", Head(todo))
  /\ todo' = Tail(todo)
  /\ UNCHANGED <<scenario, pc, job, session, still, preview, workerTasks,
                 jpegSync, queues, backendOps, previewStarted, worker,
                 backend, frame, generation, seen, next, op, flushes,
                 abandoned>>

FlushEnd ==
  /\ At("flusher", "fail") /\ todo = << >>
  /\ stillQueued' = FALSE /\ flushing' = FALSE /\ previewAbort' = FALSE
  /\ Goto("flusher", IF op = "close" THEN "stopResult" ELSE "idle")
  /\ op' = IF op = "close" THEN op ELSE "none"
  /\ UNCHANGED <<scenario, job, failing, sessionGeneration, closing,
                 pendingJpeg, preview, workerTasks, jpegSync, queues,
                 backendOps, previewStarted, worker, backend, frame,
                 generation, seen, next, todo, flushes, abandoned>>

(* stopResultWorker, then exynos_camera_backend_close.                      *)
CloseEnd ==
  /\ At("flusher", "stopResult") /\ At("result", "idle") /\ resultQueue = << >>
  /\ backendOps = None
  /\ pc' = [pc EXCEPT !["flusher"] = "closed", !["result"] = "exited"]
  /\ node0' = "off"
  /\ UNCHANGED <<scenario, job, failing, session, still, preview,
                 workerTasks, jpegSync, queues, backendOps, previewStarted,
                 worker, preview_enabled, callbacksUser, frame, generation,
                 seen, next, flusher, abandoned>>

-----------------------------------------------------------------------------
Framework == RejectRawRequest \/ AcceptRequest \/ UpdateBackendParameters \/ Reserve
             \/ Enqueue \/ PostRequest \/ FailFrame("framework")
Worker == PopTask \/ StartPreviewCheck \/ StartPreview \/ TakePictureCheck
          \/ TakePictureFence \/ TakePicture \/ PictureStart \/ FinishWorker
          \/ TakePictureFinished \/ TakePictureClear \/ RestartAfterFailure
          \/ FailFrame("worker")
Capture == NextNativeFrame \/ DrainPreview \/ DequeuePreview \/ SourceFence
           \/ SourceFenceTimeout \/ DequeueRecheck \/ CopyPreview \/ FailFrame("capture")
Blit == BlitPop \/ BlitComplete \/ BlitRequeue \/ FailFrame("blit")
Result == ResultPop \/ Deliver \/ ScheduleJpeg \/ PostTakePicture \/ FailFrame("result")
Picture == PictureThread \/ PictureTaken \/ DataCallback \/ HandleJpeg \/ HandleJpegCheck
           \/ SendJpeg \/ RestartCheck \/ RestartPreview \/ FinishCallback
           \/ FailFrame("picture")
Calls == Flush \/ Close
Flusher == CloseJoin \/ CloseFlush \/ FlushDrainJpeg \/ FlushLock \/ CancelPicture
           \/ PictureCancelled \/ FlushStopPreview \/ FlushCollect \/ FlushResults \/ FlushResultIdle
           \/ FlushFail \/ FlushEnd \/ CloseEnd \/ FailFrame("flusher")

(* Nobody is inside an operation and no work is left: the only states in     *)
(* which the session may stay for ever.                                    *)
Quiet ==
  /\ \A t \in Threads : failing[t] = None
  /\ pc["framework"] = "idle" /\ pc["blit"] = "idle" /\ pc["picture"] = "off"
  /\ pc["worker"] \in {"idle", "exited"} /\ pc["result"] \in {"idle", "exited"}
  /\ pc["capture"] \in {"off", "dequeue"} /\ pc["flusher"] \in {"idle", "closed"}
  /\ workerTasks = << >> \/ pc["worker"] = "exited"
  /\ resultQueue = << >> /\ videoBlitQueue = << >> /\ backendOps = None
Rest == Quiet /\ UNCHANGED vars

Next == Framework \/ Worker \/ Capture \/ Blit \/ Result \/ Picture \/ Calls
        \/ Flusher \/ Rest

Spec == Init /\ [][Next]_vars

(* Every thread runs when it can; the framework goes on with its requests    *)
(* but need not flush or close.                                            *)
Fairness ==
  /\ WF_vars(Framework) /\ WF_vars(Worker) /\ WF_vars(Capture) /\ WF_vars(Blit)
  /\ WF_vars(Result) /\ WF_vars(Picture) /\ WF_vars(Flusher)
FairSpec == Spec /\ Fairness
-----------------------------------------------------------------------------
(* Properties                                                              *)

(* The type of every variable: places of the threads, frames in the queues,  *)
(* and the integers within the bounds of the calls made.                   *)
TypeOK ==
  /\ scenario \in Scenarios
  /\ pc \in [Threads -> Points] /\ job \in [Threads -> Requests \cup {None}]
  /\ failing \in [Threads -> Failures \cup {None}]
  /\ sessionGeneration \in 0..(MaxFlushes + 2)
  /\ {closing, flushing, previewAbort, stillQueued, jpegWorkerActive, previewStarted,
      preview_enabled, callbacksUser} \subseteq BOOLEAN
  /\ pendingJpeg \in Requests \cup {None} /\ scratchInUse \in Requests \cup {None}
  /\ {previewQueue, resultQueue, videoBlitQueue, todo, shutters} \subseteq Seq(Requests)
  /\ Len(videoBlitQueue) <= QueueDepth
  /\ inFlightPreview \subseteq Requests
  /\ workerTasks \in Seq([task : {"start", "take", "exit"}, gen : Nat])
  /\ jpegCallbacksActive \in 0..1 /\ taskGeneration \in Nat
  /\ rc \in {"ok", "failed", "fence", "stale"}
  /\ backendOps \in {None, "worker", "flusher"} /\ node0 \in {"off", "preview", "picture"}
  /\ generation \in [Requests -> Nat] /\ owned \in [Requests -> SUBSET Kinds]
  /\ metadataReturned \subseteq Requests /\ requestErrorNotified \subseteq Requests
  /\ returned \in [Requests -> [Kinds -> Nat]] /\ next \in 1..(Len(Outputs) + 1)
  /\ op \in {"none", "flush", "close"} /\ flushes \in 0..MaxFlushes
  /\ abandoned \subseteq Requests

(* Who still has a reference (a shared_ptr) to frame r.                      *)
Referenced(r) ==
  \/ r \in ToSet(previewQueue) \/ r \in inFlightPreview \/ r = pendingJpeg
  \/ r \in ToSet(resultQueue) \/ r \in ToSet(videoBlitQueue) \/ r \in ToSet(todo)
  \/ \E t \in Threads : job[t] = r \/ (failing[t] # None /\ failing[t].frame = r)

(* A frame with a buffer in it is referenced by a queue, a map or a thread: *)
(* no last reference is dropped with a framework buffer inside (but for the *)
(* frames dequeuePreview drops during a flush).                            *)
NothingLost ==
  \A r \in Requests : owned[r] # {} /\ r \notin abandoned => Referenced(r)

(* dequeuePreview never drops the last reference to a frame that holds       *)
(* buffers: "flush() returns every framework buffer exactly once".          *)
NothingAbandoned == \A r \in abandoned : owned[r] = {}

(* flush() gives every buffer back exactly once, even while the worker and   *)
(* the picture thread give up the same frame.                              *)
ReturnedOnce == \A r \in Requests, k \in Kinds : returned[r][k] <= 1

(* While a still request is accepted and its JPEG buffer is on its way, the  *)
(* reservation stands and a second one is rejected.                        *)
StillReserved ==
  \A r \in Requests :
    /\ "jpeg" \in owned[r]
    /\ r \in inFlightPreview \/ r = pendingJpeg \/ r \in ToSet(resultQueue)
       \/ r \in ToSet(previewQueue)
    => stillQueued

(* Whoever stops the preview thread while it holds preview_mutex has woken   *)
(* the dequeue it may be waiting in: otherwise that join can deadlock.      *)
StopWakesDequeue ==
  /\ pc["worker"] = "stopPreview" \/ pc["flusher"] = "stopPreview"
  /\ At("capture", "dequeue") /\ previewQueue = << >>
  => previewAbort \/ InTransition

(* Shutters are sent in strictly increasing order of the requests.          *)
ShutterOrder == \A i, j \in DOMAIN shutters : i < j => shutters[i] < shutters[j]

(* The same for sessions that record nothing: a still, whatever its way      *)
(* through the device, keeps its place among the previews.                  *)
ShutterOrderOfStills ==
  (\A r \in DOMAIN Outputs : "video" \notin Outputs[r]) => ShutterOrder

(* The scratch buffer is given back with its frame: one that leaked would    *)
(* block the head of the queue, and the preview thread with it, for ever.   *)
ScratchIsInFlight == scratchInUse # None => scratchInUse \in inFlightPreview

(* What one request reserves of the device, its only still and its only      *)
(* scratch buffer, it has for exactly as long as it is under way.           *)
ReservationsAreHeld == StillReserved /\ ScratchIsInFlight

(* When flush() returns, no buffer of a request accepted before it is left   *)
(* in the device.                                                          *)
FlushReturnsAll ==
  [][flushing /\ ~flushing' =>
       \A r \in Requests \ abandoned :
         generation[r] < sessionGeneration /\ r # job["framework"]
         /\ (failing["framework"] # None => failing["framework"].frame # r)
         => owned[r] = {}]_vars

(* Every accepted request gives its buffers back without a flush, where      *)
(* nothing fails.                                                          *)
EveryRequestReturns ==
  \A r \in Requests :
    owned[r] # {} /\ scenario.faults = {} /\ scenario.flushes = 0
    ~> owned[r] = {} \/ r \in abandoned

(* process_capture_request(), flush() and close() come back.                *)
CallsReturn ==
  /\ pc["framework"] # "idle" ~> pc["framework"] = "idle"
  /\ pc["flusher"] \notin {"idle", "closed"} ~> pc["flusher"] \in {"idle", "closed"}

(* What the framework sees implements FrameContract.                        *)
Asked(r) == IF r < next /\ r \in DOMAIN Outputs THEN Outputs[r] ELSE {}
Contract == INSTANCE FrameContract WITH
  submitted <- next - 1,
  owed      <- [r \in Requests |-> [k \in Kinds |->
                  (IF k \in Asked(r) THEN 1 ELSE 0) - returned[r][k]]],
  answer    <- [r \in Requests |-> (IF r \in metadataReturned THEN {"metadata"} ELSE {})
                                   \cup (IF r \in requestErrorNotified THEN {"error"} ELSE {})]
ContractSpec == Contract!Spec
=============================================================================
