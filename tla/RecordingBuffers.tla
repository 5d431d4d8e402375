------------------------- MODULE RecordingBuffers -------------------------
(***************************************************************************)
(* Ownership of the node-2 (FIMC2) recording buffers while a video session *)
(* runs: the native preview thread dequeues them beside the preview frame, *)
(* hands them to the FIMC1 video worker of the Camera3 wrapper, and the    *)
(* caller of stop_preview() must not take node 2 down under either of them.*)
(*                                                                         *)
(*   camera3/exynos_camera.c  exynos_camera_preview, _preview_thread,      *)
(*                            _preview_start, _preview_stop,               *)
(*                            _recording_start, _recording_stop,           *)
(*                            _backend_requeue_recording_buffer            *)
(*   camera3/Camera3.cpp      queueVideoBlit, videoBlitLoop                *)
(*                                                                         *)
(* preview_mutex is held by one preview thread for one whole frame, so     *)
(* what that thread has in its hands is one group of variables (stage,     *)
(* index) and not one per thread.  recording_mutex only guards the short   *)
(* sections that an action below executes in one step.                     *)
(***************************************************************************)
EXTENDS Naturals, Sequences, FiniteSets

CONSTANTS
  Buffers,     \* indices of the recording buffers REQBUFS returns for node 2
  Threads,     \* native preview threads that preview_start() may create
  QueueDepth,  \* kVideoBlitQueueDepth
  MaxTimeouts, \* consecutive recording poll timeouts that end the preview
  None         \* no buffer / no holder of preview_mutex

ASSUME BuffersAssumption == None \notin Buffers
ASSUME ThreadsAssumption == 
  None \notin Threads \cup {"stopper"} /\ "stopper" \notin Threads
ASSUME QueueDepthAssumption == QueueDepth \in Nat \ {0}
ASSUME MaxTimeoutsAssumption == MaxTimeouts \in Nat \ {0}

VARIABLES
  (* struct exynos_camera *)
  preview_enabled, preview_thread_started, preview_thread_running,
  preview_mutex,           \* None, a thread or "stopper"
  native_recording_stream, recording_enabled,
  recording_buffers_held, recording_poll_timeouts,
  (* the capture nodes: streaming with memory mapped; buffers node 2 may fill *)
  node0_on, node2_on, driver,
  (* the preview threads; stage and index belong to the mutex holder *)
  thread, stage, index,
  (* NativeCamera3Device: videoBlitQueue_, videoBlitActive_ and the worker *)
  videoBlitQueue, videoBlitActive, blit, blitIndex,
  (* the caller of start_preview()/stop_preview() and its previewStarted_ *)
  stopper, previewStarted,
  (* history: a refused still has made the caller forget a running preview *)
  forgotten

previewVars   == <<preview_enabled, preview_thread_started, preview_thread_running>>
recordingVars == <<native_recording_stream, recording_enabled, recording_poll_timeouts>>
nodeVars      == <<node0_on, node2_on, driver>>
blitVars      == <<videoBlitQueue, videoBlitActive, blit, blitIndex>>
callerVars    == <<stopper, previewStarted, forgotten>>
vars == <<previewVars, preview_mutex, recordingVars, recording_buffers_held,
          nodeVars, thread, stage, index, blitVars, callerVars>>

Stages == {"none", "preview", "arm", "poll", "hold", "callback", "qbuf",
           "drop", "requeue", "error"}

Init ==
  /\ preview_enabled = FALSE
  /\ preview_thread_started = FALSE
  /\ preview_thread_running = FALSE
  /\ preview_mutex = None
  /\ native_recording_stream \in BOOLEAN
  /\ recording_enabled = FALSE
  /\ recording_buffers_held = 0
  /\ recording_poll_timeouts = 0
  /\ node0_on = FALSE
  /\ node2_on = FALSE
  /\ driver = {}
  /\ thread = [t \in Threads |-> "off"]
  /\ stage = "none"
  /\ index = None
  /\ videoBlitQueue = << >>
  /\ videoBlitActive = FALSE
  /\ blit = "idle"
  /\ blitIndex = None
  /\ stopper = "idle"
  /\ previewStarted = FALSE
  /\ forgotten = FALSE

-----------------------------------------------------------------------------
(* The preview thread outside the critical section *)

(* while (preview_enabled == 1): enter exynos_camera_preview, or fall out. *)
ThreadTest(t) ==
  /\ thread[t] = "loop"
  /\ IF preview_enabled
     THEN /\ thread' = [thread EXCEPT ![t] = "enter"]
          /\ UNCHANGED previewVars
     ELSE /\ thread' = [thread EXCEPT ![t] = "off"]
          /\ preview_thread_running' = FALSE
          /\ preview_thread_started' = FALSE
          /\ UNCHANGED preview_enabled
  /\ UNCHANGED <<preview_mutex, recordingVars, recording_buffers_held,
                 nodeVars, stage, index, blitVars, callerVars>>

(* exynos_camera_preview looks at preview_memory before it locks: without it *)
(* the frame is an error, and the loop clears preview_enabled.              *)
ThreadEnter(t) ==
  /\ thread[t] = "enter"
  /\ IF node0_on
     THEN /\ thread' = [thread EXCEPT ![t] = "lock"]
          /\ UNCHANGED previewVars
     ELSE /\ thread' = [thread EXCEPT ![t] = "loop"]
          /\ preview_enabled' = FALSE
          /\ preview_thread_running' = TRUE
          /\ UNCHANGED preview_thread_started
  /\ UNCHANGED <<preview_mutex, recordingVars, recording_buffers_held,
                 nodeVars, stage, index, blitVars, callerVars>>

ThreadLock(t) ==
  /\ thread[t] = "lock"
  /\ preview_mutex = None
  /\ preview_mutex' = t
  /\ thread' = [thread EXCEPT ![t] = "in"]
  /\ stage' = "preview"
  /\ UNCHANGED <<previewVars, recordingVars, recording_buffers_held,
                 nodeVars, index, blitVars, callerVars>>

(* Every way out of exynos_camera_preview drops preview_mutex; an error     *)
(* also clears preview_enabled.  The loop then marks the thread running.   *)
Leave(t, failed) ==
  /\ preview_mutex' = None
  /\ thread' = [thread EXCEPT ![t] = "loop"]
  /\ stage' = "none"
  /\ index' = None
  /\ preview_enabled' = (preview_enabled /\ ~failed)
  /\ preview_thread_running' = TRUE
  /\ UNCHANGED preview_thread_started

-----------------------------------------------------------------------------
(* One frame: exynos_camera_preview with preview_mutex held *)

(* poll(node 0) and DQBUF.  A node that is not streaming polls POLLERR; the *)
(* transient timeouts of node 0 leave without touching node 2.             *)
PollPreview(t) ==
  /\ thread[t] = "in" /\ stage = "preview"
  /\ \/ /\ node0_on
        /\ stage' = "arm"
        /\ UNCHANGED <<preview_mutex, thread, index, previewVars>>
     \/ /\ node0_on
        /\ Leave(t, FALSE)
     \/ Leave(t, TRUE)
  /\ UNCHANGED <<recordingVars, recording_buffers_held, nodeVars, blitVars, callerVars>>

(* The first frame of FIMC0 arms FIMC2: exynos_camera_recording_start maps  *)
(* and queues every buffer, then STREAMON; its error path releases them.   *)
ArmRecording(t) ==
  /\ thread[t] = "in" /\ stage = "arm"
  /\ IF native_recording_stream /\ ~recording_enabled
     THEN /\ recording_poll_timeouts' = 0
          /\ \/ /\ recording_enabled' = TRUE
                /\ node2_on' = TRUE
                /\ driver' = Buffers
                /\ stage' = "poll"
             \/ /\ recording_enabled' = FALSE
                /\ node2_on' = FALSE
                /\ driver' = {}
                /\ stage' = "error"
     ELSE /\ stage' = IF recording_enabled THEN "poll" ELSE "callback"
          /\ UNCHANGED <<recording_enabled, recording_poll_timeouts, node2_on, driver>>
  /\ UNCHANGED <<previewVars, preview_mutex, native_recording_stream,
                 recording_buffers_held, node0_on, thread, index, blitVars, callerVars>>

(* poll(node 2): a frame, one of the tolerated timeouts, or the error exit  *)
(* (the last timeout or a failed QBUF of node 0 after one, a poll or DQBUF   *)
(* error, a stop in between, or a failed query of the physical address      *)
(* after DQBUF, which leaves the buffer dequeued).                         *)
PollRecording(t) ==
  /\ thread[t] = "in" /\ stage = "poll"
  /\ \/ \E b \in driver :
          /\ node2_on
          /\ driver' = driver \ {b}
          /\ recording_poll_timeouts' = 0
          /\ \/ index' = b /\ stage' = "hold"
             \/ index' = None /\ stage' = "error"
          /\ UNCHANGED <<preview_mutex, thread, previewVars>>
     \/ /\ preview_enabled
        /\ recording_poll_timeouts < MaxTimeouts
        /\ recording_poll_timeouts' = recording_poll_timeouts + 1
        /\ \/ /\ recording_poll_timeouts' < MaxTimeouts
              /\ Leave(t, FALSE)
           \/ /\ stage' = "error"
              /\ UNCHANGED <<preview_mutex, thread, index, previewVars>>
        /\ UNCHANGED driver
     \/ /\ stage' = "error"
        /\ recording_poll_timeouts' \in {recording_poll_timeouts, 0}
        /\ UNCHANGED <<driver, preview_mutex, thread, index, previewVars>>
  /\ UNCHANGED <<native_recording_stream, recording_enabled,
                 recording_buffers_held, node0_on, node2_on, blitVars, callerVars>>

(* Count the buffer as held before anybody outside the driver can see it. *)
HoldRecording(t) ==
  /\ thread[t] = "in" /\ stage = "hold"
  /\ recording_buffers_held' = recording_buffers_held + 1
  /\ stage' = "callback"
  /\ UNCHANGED <<previewVars, preview_mutex, recordingVars, nodeVars, thread,
                 index, blitVars, callerVars>>

(* videoBlitQueue_.size() plus the job the worker has taken *)
Outstanding == Len(videoBlitQueue) + (IF videoBlitActive THEN 1 ELSE 0)

(* Mutant: queueVideoBlit without its test of recordingIndex < 0. *)
FrameCallbackUnchecked(t) ==
  /\ thread[t] = "in" /\ stage = "callback"
  /\ Outstanding < QueueDepth
  /\ videoBlitQueue' = Append(videoBlitQueue, index)
  /\ index' = None
  /\ stage' = "requeue"
  /\ UNCHANGED <<previewVars, preview_mutex, recordingVars, recording_buffers_held,
                 nodeVars, thread, videoBlitActive, blit, blitIndex, callerVars>>

(* Mutant: FRAME_RECORDING_OWNED is taken for an ordinary answer. *)
FrameCallbackOwnedIgnored(t) ==
  /\ thread[t] = "in" /\ stage = "callback"
  /\ videoBlitQueue' \in {videoBlitQueue} \cup
       (IF index # None /\ Outstanding < QueueDepth
        THEN {Append(videoBlitQueue, index)} ELSE {})
  /\ stage' = IF index = None THEN "requeue" ELSE "qbuf"
  /\ UNCHANGED <<previewVars, preview_mutex, recordingVars, recording_buffers_held,
                 nodeVars, thread, index, videoBlitActive, blit, blitIndex, callerVars>>

(* frame_callback: consumeNativeFrame either hands the buffer to FIMC1 and  *)
(* answers FRAME_RECORDING_OWNED, or keeps it with the preview thread (no   *)
(* video buffer in the request, a full queue, an error, a drained frame).  *)
FrameCallback(t) ==
  /\ thread[t] = "in" /\ stage = "callback"
  /\ \/ /\ index # None
        /\ Outstanding < QueueDepth
        /\ videoBlitQueue' = Append(videoBlitQueue, index)
        /\ index' = None
        /\ stage' = "requeue"
     \/ /\ stage' = IF index = None THEN "requeue" ELSE "qbuf"
        /\ UNCHANGED <<index, videoBlitQueue>>
  /\ UNCHANGED <<previewVars, preview_mutex, recordingVars, recording_buffers_held,
                 nodeVars, thread, videoBlitActive, blit, blitIndex, callerVars>>

(* A buffer the callback did not keep goes back to node 2 ... *)
RequeueRecording(t) ==
  /\ thread[t] = "in" /\ stage = "qbuf"
  /\ \/ driver' = driver \cup {index}     \* QBUF
     \/ UNCHANGED driver                  \* QBUF failed: lost until REQBUFS(0)
  /\ stage' = "drop"
  /\ UNCHANGED <<previewVars, preview_mutex, recordingVars, recording_buffers_held,
                 node0_on, node2_on, thread, index, blitVars, callerVars>>

(* Mutant: a failed QBUF jumps to the error exit before the decrement. *)
DropRecordingLeak(t) ==
  /\ thread[t] = "in" /\ stage = "drop"
  /\ recording_buffers_held' = recording_buffers_held - (IF index \in driver THEN 1 ELSE 0)
  /\ stage' = IF index \in driver THEN "requeue" ELSE "error"
  /\ index' = None
  /\ UNCHANGED <<previewVars, preview_mutex, recordingVars, nodeVars, thread,
                 blitVars, callerVars>>

(* ... and only then stops being held; a failed QBUF ends the preview. *)
DropRecording(t) ==
  /\ thread[t] = "in" /\ stage = "drop"
  /\ recording_buffers_held' =
       IF recording_buffers_held > 0 THEN recording_buffers_held - 1 ELSE 0
  /\ stage' = IF index \in driver THEN "requeue" ELSE "error"
  /\ index' = None
  /\ UNCHANGED <<previewVars, preview_mutex, recordingVars, nodeVars, thread,
                 blitVars, callerVars>>

(* QBUF of the preview buffer and the exit of exynos_camera_preview; a      *)
(* failed QBUF or a negative callback result is an error.                  *)
RequeuePreview(t) ==
  /\ thread[t] = "in" /\ stage = "requeue"
  /\ \E failed \in BOOLEAN : Leave(t, failed)
  /\ UNCHANGED <<recordingVars, recording_buffers_held, nodeVars, blitVars, callerVars>>

PreviewError(t) ==
  /\ thread[t] = "in" /\ stage = "error"
  /\ Leave(t, TRUE)
  /\ UNCHANGED <<recordingVars, recording_buffers_held, nodeVars, blitVars, callerVars>>

Capture(t) ==
  \/ ThreadTest(t) \/ ThreadEnter(t) \/ ThreadLock(t)
  \/ PollPreview(t) \/ ArmRecording(t) \/ PollRecording(t) \/ HoldRecording(t)
  \/ FrameCallback(t) \/ RequeueRecording(t) \/ DropRecording(t)
  \/ RequeuePreview(t) \/ PreviewError(t)

-----------------------------------------------------------------------------
(* videoBlitLoop *)

BlitPop ==
  /\ blit = "idle" /\ ~videoBlitActive
  /\ videoBlitQueue # << >>
  /\ blitIndex' = Head(videoBlitQueue)
  /\ videoBlitQueue' = Tail(videoBlitQueue)
  /\ videoBlitActive' = TRUE
  /\ blit' = "read"
  /\ UNCHANGED <<previewVars, preview_mutex, recordingVars, recording_buffers_held,
                 nodeVars, thread, stage, index, callerVars>>

(* Mutant: a frame that cannot be completed skips the requeue. *)
BlitCompleteSkip ==
  /\ blit = "read"
  /\ blit' \in {"completed", "idle"}
  /\ UNCHANGED <<previewVars, preview_mutex, recordingVars, recording_buffers_held,
                 nodeVars, thread, stage, index, videoBlitQueue, videoBlitActive,
                 blitIndex, callerVars>>

(* FIMC1 has read the source planes; the Camera3 frame is completed. *)
BlitComplete ==
  /\ blit = "read"
  /\ blit' = "completed"
  /\ UNCHANGED <<previewVars, preview_mutex, recordingVars, recording_buffers_held,
                 nodeVars, thread, stage, index, videoBlitQueue, videoBlitActive,
                 blitIndex, callerVars>>

(* requeue_recording_buffer: QBUF first (it may fail) ... *)
BlitRequeue ==
  /\ blit = "completed"
  /\ \/ driver' = driver \cup {blitIndex}
     \/ UNCHANGED driver
  /\ blit' = "requeued"
  /\ UNCHANGED <<previewVars, preview_mutex, recordingVars, recording_buffers_held,
                 node0_on, node2_on, thread, stage, index, videoBlitQueue,
                 videoBlitActive, blitIndex, callerVars>>

(* ... then the held count and the broadcast, under recording_mutex ... *)
BlitRelease ==
  /\ blit = "requeued"
  /\ recording_buffers_held' =
       IF recording_buffers_held > 0 THEN recording_buffers_held - 1 ELSE 0
  /\ blit' = "released"
  /\ blitIndex' = None
  /\ UNCHANGED <<previewVars, preview_mutex, recordingVars, nodeVars, thread,
                 stage, index, videoBlitQueue, videoBlitActive, callerVars>>

(* ... and the worker looks for the next job. *)
BlitIdle ==
  /\ blit = "released"
  /\ videoBlitActive' = FALSE
  /\ blit' = "idle"
  /\ UNCHANGED <<previewVars, preview_mutex, recordingVars, recording_buffers_held,
                 nodeVars, thread, stage, index, videoBlitQueue, blitIndex, callerVars>>

Blit == BlitPop \/ BlitComplete \/ BlitRequeue \/ BlitRelease \/ BlitIdle

-----------------------------------------------------------------------------
(* exynos_camera_preview_start and exynos_camera_preview_stop; the callers  *)
(* are serialized by backendOpsMutex_.  The application may change the      *)
(* recording stream only while it reconfigures, with the preview stopped.  *)

SetRecordingStream ==
  /\ stopper = "idle"
  /\ ~preview_enabled /\ ~recording_enabled
  /\ native_recording_stream' = ~native_recording_stream
  /\ UNCHANGED <<previewVars, preview_mutex, recording_enabled,
                 recording_poll_timeouts, recording_buffers_held, nodeVars,
                 thread, stage, index, blitVars, callerVars>>

(* startPreviewWorker calls preview_start() only while previewStarted_ is    *)
(* false.  preview_start() answers 0 at once to an enabled preview; one that *)
(* succeeds creates a thread; one that fails tears node 0 down, but first has *)
(* to stop a recording that an earlier preview error left running, and it    *)
(* does so without preview_mutex.                                          *)
PreviewStart ==
  /\ stopper = "idle"
  /\ ~previewStarted
  /\ \/ /\ preview_enabled
        /\ previewStarted' = TRUE
        /\ UNCHANGED <<preview_enabled, preview_thread_started, node0_on,
                       recording_poll_timeouts, thread, stopper>>
     \/ \E t \in Threads :
          /\ ~preview_enabled /\ thread[t] = "off"
          /\ thread' = [thread EXCEPT ![t] = "loop"]
          /\ node0_on' = TRUE
          /\ preview_enabled' = TRUE
          /\ preview_thread_started' = TRUE
          /\ previewStarted' = TRUE
          /\ recording_poll_timeouts' = 0
          /\ UNCHANGED stopper
     \/ /\ ~preview_enabled
        /\ node0_on' \in BOOLEAN /\ (node0_on' => recording_enabled)
        /\ preview_thread_started' = FALSE
        /\ recording_poll_timeouts' = 0
        /\ stopper' = IF recording_enabled THEN "failed" ELSE "idle"
        /\ UNCHANGED <<preview_enabled, previewStarted, thread>>
  /\ UNCHANGED <<preview_thread_running, preview_mutex, native_recording_stream,
                 recording_enabled, recording_buffers_held, node2_on, driver,
                 stage, index, blitVars, forgotten>>

(* takePictureWorker clears previewStarted_ even if set_parameters() fails   *)
(* before take_picture() gets to stop the preview.                          *)
PictureRefused ==
  /\ stopper = "idle"
  /\ previewStarted' = FALSE
  /\ forgotten' = (forgotten \/ previewStarted)
  /\ UNCHANGED <<previewVars, preview_mutex, recordingVars, recording_buffers_held,
                 nodeVars, thread, stage, index, blitVars, stopper>>

StopBegin ==
  /\ stopper = "idle"
  /\ preview_enabled \/ preview_thread_started \/ node0_on \/ recording_enabled
  /\ preview_enabled' = FALSE
  /\ stopper' = "lock"
  /\ UNCHANGED <<preview_thread_started, preview_thread_running, preview_mutex,
                 recordingVars, recording_buffers_held, nodeVars, thread, stage,
                 index, blitVars, previewStarted, forgotten>>

StopLock ==
  /\ stopper = "lock"
  /\ preview_mutex = None
  /\ preview_mutex' = "stopper"
  /\ stopper' = "wait"
  /\ UNCHANGED <<previewVars, recordingVars, recording_buffers_held, nodeVars,
                 thread, stage, index, blitVars, previewStarted, forgotten>>

(* At most 30 waits of 100 ms for both thread flags to clear, holding        *)
(* preview_mutex; after the last one the stop goes on regardless.           *)
StopWaited ==
  /\ stopper = "wait"
  /\ stopper' = IF recording_enabled THEN "recording" ELSE "off"
  /\ UNCHANGED <<previewVars, preview_mutex, recordingVars, recording_buffers_held,
                 nodeVars, thread, stage, index, blitVars, previewStarted, forgotten>>

(* exynos_camera_recording_stop, up to the wait for the held buffers *)
RecordingDisable ==
  /\ stopper \in {"recording", "failed"}
  /\ recording_enabled' = FALSE
  /\ stopper' = IF stopper = "failed" THEN "failed_drain" ELSE "drain"
  /\ UNCHANGED <<previewVars, preview_mutex, native_recording_stream,
                 recording_poll_timeouts, recording_buffers_held, nodeVars,
                 thread, stage, index, blitVars, previewStarted, forgotten>>

(* Mutant: STREAMOFF without the wait for the held buffers. *)
RecordingDrainedEarly ==
  /\ stopper \in {"drain", "failed_drain"}
  /\ node2_on' = FALSE
  /\ driver' = {}
  /\ recording_poll_timeouts' = 0
  /\ stopper' = IF stopper = "failed_drain" THEN "idle" ELSE "off"
  /\ node0_on' = (node0_on /\ stopper = "drain")
  /\ UNCHANGED <<previewVars, preview_mutex, native_recording_stream,
                 recording_enabled, recording_buffers_held, thread, stage, index,
                 blitVars, previewStarted, forgotten>>

(* The wait is over: STREAMOFF, release the memory, REQBUFS(0); a failed     *)
(* start then takes node 0 down as well.                                   *)
RecordingDrained ==
  /\ stopper \in {"drain", "failed_drain"}
  /\ recording_buffers_held = 0
  /\ node2_on' = FALSE
  /\ driver' = {}
  /\ recording_poll_timeouts' = 0
  /\ stopper' = IF stopper = "failed_drain" THEN "idle" ELSE "off"
  /\ node0_on' = (node0_on /\ stopper = "drain")
  /\ UNCHANGED <<previewVars, preview_mutex, native_recording_stream,
                 recording_enabled, recording_buffers_held, thread, stage, index,
                 blitVars, previewStarted, forgotten>>

(* STREAMOFF and release of node 0, then unlock preview_mutex *)
StopFinish ==
  /\ stopper = "off"
  /\ node0_on' = FALSE
  /\ recording_poll_timeouts' = 0
  /\ preview_mutex' = None
  /\ stopper' = "idle"
  /\ previewStarted' = FALSE
  /\ UNCHANGED <<previewVars, native_recording_stream, recording_enabled,
                 recording_buffers_held, node2_on, driver, thread, stage, index,
                 blitVars, forgotten>>

Stop == StopLock \/ StopWaited \/ RecordingDisable \/ RecordingDrained \/ StopFinish

-----------------------------------------------------------------------------
Next ==
  \/ \E t \in Threads : Capture(t)
  \/ Blit
  \/ SetRecordingStream \/ PreviewStart \/ PictureRefused \/ StopBegin
  \/ Stop

(* The kernel schedules every thread that can run, and every FIMC1 transfer *)
(* and frame callback ends; nobody is obliged to start or stop a preview.  *)
Fairness ==
  /\ \A t \in Threads : WF_vars(Capture(t))
  /\ WF_vars(Blit)
  /\ WF_vars(Stop)

Spec == Init /\ [][Next]_vars
FairSpec == Spec /\ Fairness

-----------------------------------------------------------------------------
(* Properties *)

TypeOK ==
  /\ preview_enabled \in BOOLEAN
  /\ preview_thread_started \in BOOLEAN
  /\ preview_thread_running \in BOOLEAN
  /\ preview_mutex \in Threads \cup {None, "stopper"}
  /\ native_recording_stream \in BOOLEAN
  /\ recording_enabled \in BOOLEAN
  /\ recording_buffers_held \in Nat
  /\ recording_poll_timeouts \in 0..MaxTimeouts
  /\ node0_on \in BOOLEAN
  /\ node2_on \in BOOLEAN
  /\ driver \subseteq Buffers
  /\ thread \in [Threads -> {"off", "loop", "enter", "lock", "in"}]
  /\ stage \in Stages
  /\ index \in Buffers \cup {None}
  /\ videoBlitQueue \in Seq(Buffers)
  /\ videoBlitActive \in BOOLEAN
  /\ blit \in {"idle", "read", "completed", "requeued", "released"}
  /\ blitIndex \in Buffers \cup {None}
  /\ stopper \in {"idle", "lock", "wait", "recording", "failed", "drain",
                 "failed_drain", "off"}
  /\ previewStarted \in BOOLEAN
  /\ forgotten \in BOOLEAN

(* The buffers FIMC1 reads or will read: a queued job and the running one. *)
ReadByFimc1 ==
  {videoBlitQueue[i] : i \in DOMAIN videoBlitQueue}
    \cup (IF blit = "read" THEN {blitIndex} ELSE {})

(* Node 2 keeps streaming, with its memory mapped, for as long as FIMC1     *)
(* still has a buffer of it to read (exynos_camera.c, the comment in        *)
(* recording_stop: "Wait until every such buffer has been requeued before   *)
(* STREAMOFF/REQBUFS(0) releases node-2 storage").  After a refused still     *)
(* the next preview_start() may fail beside a running preview thread, and    *)
(* take node 2 down without preview_mutex.                                  *)
FimcSourceMapped == ~forgotten /\ ReadByFimc1 # {} => node2_on

(* FIMC2 never writes into a buffer FIMC1 is reading: a buffer is given back *)
(* to the node only after the worker is done with it, and is queued once.   *)
OneReader ==
  /\ ReadByFimc1 \cap driver = {}
  /\ \A i, j \in DOMAIN videoBlitQueue :
        videoBlitQueue[i] = videoBlitQueue[j] => i = j
  /\ blit = "read" => \A i \in DOMAIN videoBlitQueue : videoBlitQueue[i] # blitIndex
NoOverwriteWhileReading == ~forgotten => OneReader

(* recording_buffers_held is exactly the number of node-2 buffers between    *)
(* HoldRecording and the matching decrement, whoever has them: an extra      *)
(* decrement would let STREAMOFF through, a missing one would block it       *)
(* for ever.                                                               *)
HeldIsExact ==
  recording_buffers_held =
    Len(videoBlitQueue)
    + (IF blit \in {"read", "completed", "requeued"} THEN 1 ELSE 0)
    + (IF index # None /\ stage \in {"callback", "qbuf", "drop"} THEN 1 ELSE 0)

(* A stop that has begun ends: the wait for held buffers, preview_mutex and  *)
(* the thread flags never block stop_preview() for good.                   *)
StopTerminates == (stopper # "idle") ~> (stopper = "idle")

(* A buffer taken with FRAME_RECORDING_OWNED leaves the queue for the FIMC1  *)
(* worker (the oldest first), and the worker parts with it, whatever becomes *)
(* of its frame: the driver may fill it again before the worker is done with *)
(* the bookkeeping.                                                         *)
OwnedIsGivenBack ==
  /\ videoBlitQueue # << >> ~> blitIndex # None
  /\ blitIndex # None ~> blitIndex = None
=============================================================================
