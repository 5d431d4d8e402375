---------------------------- MODULE CameraProofs ----------------------------
(***************************************************************************)
(* Proofs about StreamSetup, CameraSettings and TorchMode, which share no   *)
(* state; those about CaptureNodes, the fourth module of MCCamera, are in   *)
(* StillProofs and NodesProofs.                                             *)
(***************************************************************************)
EXTENDS StreamSetup, CameraSettings, TorchMode, SequenceTheorems, TLAPS
-----------------------------------------------------------------------------
(***************************************************************************)
(* Proofs about StreamSetup, for any lists of streams, requests, flushes    *)
(* and failures.  The argument turns on one implication, Busy => Live:      *)
(* whatever captures, or may still start a capture (a queued frame or task, *)
(* a request of this generation on its way, a task the worker has checked), *)
(* belongs to a session that is configured or is just being torn down.  The *)
(* flush inside configure_streams() empties Busy before the streams change, *)
(* and the generation keeps late tasks and requests out of it.  What a      *)
(* running preview needs is then kept as a fact about Busy sessions.        *)
(***************************************************************************)
Stilling == {"TakePicture", "Capture"}
SetupSteps == {"idle", "flush", "stop", "check", "publish", "params", "succeed"}

(* Types, in the form the steps below use. *)
ConfiguringOK ==
  /\ configuring = [step |-> configuring.step, list |-> configuring.list,
                    reset |-> configuring.reset]
  /\ configuring.step \in SetupSteps /\ configuring.reset \in BOOLEAN
FlagsOK ==
  /\ scratch \in BOOLEAN /\ drain \in BOOLEAN
  /\ configured \in BOOLEAN /\ reconfiguring \in BOOLEAN /\ flushRuns \in BOOLEAN
  /\ haveRequestSettings \in BOOLEAN /\ wrapperStarted \in BOOLEAN
  /\ preview_params_set \in BOOLEAN
  /\ nativePreview \in BOOLEAN /\ movieRuns \in BOOLEAN
  /\ native_recording_stream \in BOOLEAN /\ photographed \in BOOLEAN
QueuesOK ==
  /\ setupGeneration \in Nat \ {0}
  /\ request \in [step : {"none", "apply", "push"}, generation : 0..setupGeneration,
                  settings : BOOLEAN, still : BOOLEAN]
  /\ taskInHand \in [task : {"none", "StartPreview", "TakePicture", "Capture"},
                     generation : 0..setupGeneration]
  /\ frames \in Seq({"frame", "still"})
  /\ tasks \in Seq({"StartPreview", "TakePicture"})
  /\ stillRuns \in 0..setupGeneration
SensorOK ==
  /\ cached = [size |-> cached.size, mode |-> cached.mode]
  /\ cached.mode \in {"camera", "movie", "unknown"}
  /\ captureNodes \subseteq {0, 2}
SetupShape == ConfiguringOK /\ FlagsOK /\ QueuesOK /\ SensorOK

(* The two flags of the gate follow the step of configure_streams(). *)
Gates ==
  /\ flushRuns <=> configuring.step = "stop"
  /\ configuring.step \in {"check", "publish", "params", "succeed"} => reconfiguring
  /\ configuring.step = "idle" => ~reconfiguring
  /\ reconfiguring => ~configured

(* A session whose streams a capture may use, and what may capture. *)
Live ==
  \/ configured
  \/ /\ reconfiguring /\ configuring.step \in {"flush", "stop"}
     /\ configuring.reset = (streams.video = NoSize)
Busy ==
  \/ nativePreview \/ movieRuns \/ stillRuns # 0 \/ frames # << >> \/ tasks # << >>
  \/ request.step # "none" /\ request.generation = setupGeneration
  \/ taskInHand.task # "none" /\ taskInHand.generation = setupGeneration
StopsEmpty ==
  configuring.step = "stop" =>
    /\ frames = << >> /\ tasks = << >>
    /\ request.step # "none" => request.generation # setupGeneration
    /\ taskInHand.task # "none" => taskInHand.generation # setupGeneration
Work ==
  /\ Busy => Live
  /\ StopsEmpty
  /\ taskInHand.task \in Stilling => taskInHand.generation = setupGeneration

(* Buffers follow the streams from their allocation to the next flush. *)
Buffers == drain = (Source(streams) # NoSize) /\ scratch = NeedsScratch(streams)
BuffersOK ==
  /\ configured \/ configuring.step \in {"params", "succeed"} => Buffers
  /\ (~configured /\ ~reconfiguring) \/ configuring.step \in {"check", "publish"}
       => ~drain /\ ~scratch

(* The parameters of this session's streams have been applied. *)
Prepared ==
  /\ params.movie = (streams.video # NoSize)
  /\ streams.video # NoSize => cached.size = NativeVideo(streams)
  /\ "control" \notin spoiled
       => cached.mode = IF streams.video # NoSize THEN "movie" ELSE "camera"
SessionPrepared ==
  /\ configured \/ Busy => native_recording_stream = (streams.video # NoSize)
  /\ configured \/ Busy \/ configuring.step = "succeed" => Prepared

(* One still at a time, as a frame, a task, in the worker's hand or taken;  *)
(* one that follows a preview frame finds the preview running.             *)
StillFrame == \E i \in DOMAIN frames : frames[i] = "still"
StillTask == \E i \in DOMAIN tasks : tasks[i] = "TakePicture"
OneStill ==
  /\ StillFrame => ~StillTask /\ taskInHand.task \notin Stilling /\ stillRuns = 0
  /\ StillTask => taskInHand.task \notin Stilling /\ stillRuns = 0
  /\ taskInHand.task \in Stilling => stillRuns = 0
  /\ \A i, j \in DOMAIN frames : frames[i] = "still" /\ frames[j] = "still" => i = j
  /\ \A i, j \in DOMAIN tasks : 
       tasks[i] = "TakePicture" /\ tasks[j] = "TakePicture" => i = j
StillPreviewed ==
  (StillTask \/ taskInHand.task \in Stilling) /\ Source(streams) # NoSize => nativePreview

(* A request without a still is for the preview. *)
RequestHasSource ==
  request.step # "none" /\ request.generation = setupGeneration /\ ~request.still
    => Source(streams) # NoSize

(* A session without video, up to the point where its successor reselects   *)
(* the inputs: only such a session may leave the driver's one-shot size     *)
(* used up, or the inputs with a photo session behind them.                *)
PhotoSession ==
  /\ streams.video = NoSize
  /\ \/ Live
     \/ configuring.step = "check" /\ configuring.reset
     \/ configuring.step = "publish" /\ Classify(configuring.list).video = NoSize
     \/ configuring.step \in {"params", "succeed"}
SizeIsWritten ==
  preview_params_set /\ ~nativePreview => oneShot = cached.size \/ 2 \notin captureNodes

MovieRuns == movieRuns => nativePreview /\ native_recording_stream /\ 2 \in captureNodes
RouteSpared ==
  "control" \notin spoiled /\ "start" \notin spoiled /\ "unset" \notin spoiled
  /\ "rejected" \notin spoiled
SizeKnown == RouteSpared => SizeIsWritten \/ PhotoSession
RouteKnown ==
  RouteSpared /\ nativePreview /\ streams.video # NoSize /\ 2 \in captureNodes
    => route = NativeVideo(streams)
PhotosKnown ==
  "rejected" \notin spoiled /\ "nodes" \notin spoiled /\ photographed => PhotoSession

SetupInv ==
  /\ SetupShape /\ Gates /\ Work /\ BuffersOK /\ SessionPrepared
  /\ RequestHasSource /\ OneStill /\ StillPreviewed
  /\ MovieRuns /\ SizeKnown /\ RouteKnown /\ PhotosKnown

(* What Apply(SessionParams(streams)) does to the sensor's parameters.      *)
Applied ==
  /\ params'.movie = (streams.video # NoSize)
  /\ streams.video # NoSize => params'.size = NativeVideo(streams)
  /\ cached' = [size |-> params'.size, mode |-> cached'.mode]
  /\ cached'.mode \in {"camera", "movie", "unknown"}
  /\ preview_params_set' = TRUE
  /\ spoiled' \in {spoiled, spoiled \cup {"control"}}
  /\ "control" \notin spoiled' =>
       /\ cached'.mode = IF streams.video # NoSize THEN "movie" ELSE "camera"
       /\ \/ oneShot' = params'.size
          \/ preview_params_set /\ params'.size = cached.size /\ oneShot' = oneShot

LEMMA ApplyDoes ==
  ASSUME SetupShape, Apply(SessionParams(streams))
  PROVE  Applied
<1> DEFINE p == SessionParams(streams)
           mode == IF p.movie THEN "movie" ELSE "camera"
           writes == {w \in {"size", "mode"} :
                        \/ w = "size" /\ (~preview_params_set \/ p.size # cached.size)
                        \/ w = "mode" /\ cached.mode # mode}
<1>1. PICK refused \in SUBSET writes :
        /\ params' = p /\ preview_params_set' = TRUE
        /\ cached' = [size |-> p.size,
                      mode |-> IF "mode" \in writes \ refused THEN mode ELSE cached.mode]
        /\ oneShot' = IF "size" \in writes \ refused THEN p.size ELSE oneShot
        /\ spoiled' = spoiled \cup (IF refused = {} THEN {} ELSE {"control"})
  BY DEF Apply
<1>2. p.movie = (streams.video # NoSize) /\ (p.movie => p.size = NativeVideo(streams))
  BY DEF SessionParams
<1> HIDE DEF p
<1>3. cached.mode \in {"camera", "movie", "unknown"} /\ mode \in {"camera", "movie"}
  BY DEF SetupShape, SensorOK
<1>4. "control" \notin spoiled' => refused = {}
  BY <1>1
<1>5. refused = {} => /\ cached'.mode = mode
                      /\ \/ oneShot' = p.size
                         \/ preview_params_set /\ p.size = cached.size /\ oneShot' = oneShot
  BY <1>1, <1>3
<1>6. spoiled' \in {spoiled, spoiled \cup {"control"}}
  BY <1>1
<1>7. cached' = [size |-> params'.size, mode |-> cached'.mode]
      /\ cached'.mode \in {"camera", "movie", "unknown"}
  BY <1>1, <1>3
<1> QED
  BY <1>1, <1>2, <1>4, <1>5, <1>6, <1>7 DEF Applied

(* So a session is prepared by it, and its size is the sensor's. *)
LEMMA ApplyPrepares ==
  ASSUME SetupShape, Apply(SessionParams(streams)), UNCHANGED streams
  PROVE  Prepared'
<1>1. Applied
  BY ApplyDoes
<1>2. cached'.size = params'.size
  BY <1>1 DEF Applied
<1> QED
  BY <1>1, <1>2 DEF Applied, Prepared

LEMMA ApplyWritesSize ==
  ASSUME SetupShape, Apply(SessionParams(streams)),
         UNCHANGED <<captureNodes, nativePreview>>, RouteSpared',
         SizeIsWritten
  PROVE  SizeIsWritten'
<1>1. Applied
  BY ApplyDoes
<1>2. cached'.size = params'.size
  BY <1>1 DEF Applied
<1>3. "control" \notin spoiled'
  BY DEF RouteSpared
<1> QED
  BY <1>1, <1>2, <1>3 DEF Applied, SizeIsWritten

LEMMA SparedBefore ==
  ASSUME SetupShape, Apply(SessionParams(streams)), RouteSpared'
  PROVE  RouteSpared
  BY ApplyDoes DEF Applied, RouteSpared

(* While the streams change, nothing runs. *)
LEMMA NothingWhileConfiguring ==
  ASSUME SetupShape, Gates, Work,
         \/ configuring.step \in {"check", "publish", "params", "succeed"}
         \/ configuring.step = "idle" /\ ~configured
  PROVE  ~Busy /\ ~Live
  BY DEF SetupShape, ConfiguringOK, FlagsOK, Gates, Work, Live

(* One StartPreview is enough: no posting adds a still but a still's. *)
LEMMA PostedStart ==
  ASSUME QueuesOK, NEW i \in DOMAIN Posted("StartPreview"),
         Posted("StartPreview")[i] = "TakePicture"
  PROVE  i \in DOMAIN tasks /\ tasks[i] = "TakePicture"
  BY DEF QueuesOK, Posted

LEMMA PostedStartAddsNoStill ==
  ASSUME QueuesOK, tasks' = Posted("StartPreview")
  PROVE  /\ StillTask' => StillTask
         /\ \A i, j \in DOMAIN tasks' :
              tasks'[i] = "TakePicture" /\ tasks'[j] = "TakePicture"
                => /\ i \in DOMAIN tasks /\ tasks[i] = "TakePicture"
                   /\ j \in DOMAIN tasks /\ tasks[j] = "TakePicture"
  BY PostedStart DEF StillTask

LEMMA PostedStillIsNew ==
  ASSUME QueuesOK, tasks' = Posted("TakePicture"), ~StillTask
  PROVE  \A i \in DOMAIN tasks' : tasks'[i] = "TakePicture" => i = Len(tasks) + 1
<1>1. tasks' = Append(tasks, "TakePicture")
  BY DEF Posted
<1>2. ASSUME NEW i \in DOMAIN tasks', i # Len(tasks) + 1
      PROVE  i \in DOMAIN tasks /\ tasks'[i] = tasks[i]
  BY <1>1, <1>2 DEF QueuesOK
<1> QED
  BY <1>2 DEF StillTask

LEMMA PostedStill ==
  Posted("TakePicture") = Append(tasks, "TakePicture")
  BY DEF Posted

LEMMA PostedIsTasks ==
  ASSUME QueuesOK
  PROVE  /\ Posted("StartPreview") \in Seq({"StartPreview", "TakePicture"})
         /\ Posted("TakePicture") \in Seq({"StartPreview", "TakePicture"})
  BY DEF QueuesOK, Posted


LEMMA ConfiguringOKKept ==
  ASSUME ConfiguringOK, SetupNext
  PROVE  ConfiguringOK'
<1> USE DEF ConfiguringOK, SetupSteps
<1>1. CASE \/ RequestApply \/ RequestPush \/ WorkerChecks \/ WorkerTooLate
           \/ WorkerStartsPreview \/ WorkerStartFails \/ FrameServed
           \/ WorkerAppliesStill \/ WorkerTakesPicture \/ PictureArrives
  <2>1. UNCHANGED <<configuring>>
    BY <1>1
       DEF RequestApply, RequestPush, NoRequest, clientVars, WorkerChecks, NoTask,
          WorkerTooLate, WorkerStartsPreview, WorkerStartFails, FrameServed,
          WorkerAppliesStill, WorkerTakesPicture, PictureArrives
  <2> QED
    BY <2>1
<1>2. ASSUME NEW submitted \in Configurations, ConfigureBegin(submitted) PROVE ConfiguringOK'
  BY <1>2 DEF ConfigureBegin
<1>3. CASE FlushRequested
  BY <1>3 DEF FlushRequested
<1>4. CASE FlushInvalidates
  BY <1>4 DEF FlushInvalidates
<1>5. CASE FlushStops
  BY <1>5 DEF FlushStops
<1>6. CASE ConfigureUnsupported
  BY <1>6 DEF ConfigureUnsupported, ConfigureFails, NotConfiguring
<1>7. CASE ConfigureResetsNodes
  BY <1>7 DEF ConfigureResetsNodes, NeedsReset
<1>8. CASE ConfigureResetFails
  BY <1>8 DEF ConfigureResetFails, ConfigureFails, NeedsReset, NotConfiguring
<1>9. CASE ConfigureNoBridge
  BY <1>9 DEF ConfigureNoBridge, ConfigureFails, NotConfiguring
<1>10. CASE ConfigurePublishes
  BY <1>10 DEF ConfigurePublishes
<1>11. CASE ConfigureNoMemory
  BY <1>11 DEF ConfigureNoMemory, ConfigureFails, NotConfiguring
<1>12. CASE ConfigureParams
  BY <1>12 DEF ConfigureParams
<1>13. CASE ConfigureSucceeds
  BY <1>13 DEF ConfigureSucceeds, NotConfiguring
<1>14. ASSUME NEW settings \in BOOLEAN, NEW wantsStill \in BOOLEAN, RequestGate(settings, wantsStill)
      PROVE  ConfiguringOK'
  BY <1>14 DEF RequestGate, clientVars
<1> QED
  BY <1>1, <1>2, <1>3, <1>4, <1>5, <1>6, <1>7, <1>8, <1>9, <1>10, <1>11, <1>12, <1>13,
     <1>14
     DEF SetupNext

LEMMA FlagsOKKept ==
  ASSUME SetupShape, SetupNext
  PROVE  FlagsOK'
<1> USE DEF FlagsOK, SetupShape
<1>1. CASE \/ FlushRequested \/ RequestPush \/ WorkerChecks \/ WorkerTooLate
           \/ PictureArrives
  <2>1. UNCHANGED <<scratch, drain, configured, reconfiguring, flushRuns,
     haveRequestSettings, wrapperStarted, preview_params_set, nativePreview, movieRuns,
     native_recording_stream, photographed>>
    BY <1>1
       DEF FlushRequested, bufferVars, captureVars, paramVars, workVars, RequestPush,
          NoRequest, clientVars, WorkerChecks, NoTask, WorkerTooLate, PictureArrives
  <2> QED
    BY <2>1
<1>2. ASSUME NEW submitted \in Configurations, ConfigureBegin(submitted) PROVE FlagsOK'
  BY <1>2 DEF ConfigureBegin, bufferVars, captureVars, paramVars, workVars
<1>3. CASE FlushInvalidates
  BY <1>3 DEF FlushInvalidates, bufferVars, captureVars, paramVars
<1>4. CASE FlushStops
  BY <1>4 DEF FlushStops, PreviewStop, bufferVars
<1>5. CASE ConfigureUnsupported
  BY <1>5
     DEF ConfigureUnsupported, ConfigureFails, bufferVars, captureVars, paramVars,
        workVars, NotConfiguring
<1>6. CASE ConfigureResetsNodes
  BY <1>6 DEF ConfigureResetsNodes, bufferVars, workVars
<1>7. CASE ConfigureResetFails
  BY <1>7
     DEF ConfigureResetFails, ConfigureFails, bufferVars, captureVars, paramVars,
        workVars, NotConfiguring
<1>8. CASE ConfigureNoBridge
  BY <1>8
     DEF ConfigureNoBridge, ConfigureFails, bufferVars, captureVars, paramVars,
        workVars, NotConfiguring
<1>9. CASE ConfigurePublishes
  BY <1>9 DEF ConfigurePublishes, captureVars, paramVars, workVars, NeedsScratch
<1>10. CASE ConfigureNoMemory
  BY <1>10
     DEF ConfigureNoMemory, ConfigureFails, captureVars, paramVars, workVars,
        NotConfiguring
<1>11. CASE ConfigureParams
  BY <1>11, ApplyDoes DEF ConfigureParams, bufferVars, captureVars, workVars, Applied
<1>12. CASE ConfigureSucceeds
  BY <1>12
     DEF ConfigureSucceeds, NotConfiguring, bufferVars, captureVars, paramVars, workVars
<1>13. ASSUME NEW settings \in BOOLEAN, NEW wantsStill \in BOOLEAN, RequestGate(settings, wantsStill)
      PROVE  FlagsOK'
  BY <1>13 DEF RequestGate, bufferVars, captureVars, clientVars, paramVars, workVars
<1>14. CASE RequestApply
  <2>1. UNCHANGED <<scratch, drain, configured, reconfiguring, flushRuns, wrapperStarted,
                    nativePreview, movieRuns, native_recording_stream, photographed>>
    BY <1>14 DEF RequestApply, bufferVars, captureVars, workVars
  <2>2. haveRequestSettings' \in BOOLEAN
    BY <1>14 DEF RequestApply
  <2>3. preview_params_set' \in BOOLEAN
    <3>1. CASE request.settings \/ request.still
      BY <1>14, <3>1, ApplyDoes DEF RequestApply, Applied
    <3>2. CASE ~(request.settings \/ request.still)
      BY <1>14, <3>2 DEF RequestApply
    <3> QED
      BY <3>1, <3>2
  <2> QED
    BY <2>1, <2>2, <2>3
<1>15. CASE WorkerStartsPreview
  BY <1>15 DEF WorkerStartsPreview, NoTask, bufferVars, clientVars
<1>16. CASE WorkerStartFails
  BY <1>16 DEF WorkerStartFails, NoTask, bufferVars, clientVars
<1>17. CASE FrameServed
  BY <1>17 DEF FrameServed, bufferVars, clientVars, paramVars
<1>18. CASE WorkerAppliesStill
  BY <1>18, ApplyDoes DEF WorkerAppliesStill, bufferVars, captureVars, clientVars, Applied
<1>19. CASE WorkerTakesPicture
  BY <1>19 DEF WorkerTakesPicture, NoTask, PreviewStop, bufferVars, clientVars
<1> QED
  BY <1>1, <1>2, <1>3, <1>4, <1>5, <1>6, <1>7, <1>8, <1>9, <1>10, <1>11, <1>12, <1>13,
     <1>14, <1>15, <1>16, <1>17, <1>18, <1>19
     DEF SetupNext

LEMMA QueuesOKKept ==
  ASSUME QueuesOK, SetupNext
  PROVE  QueuesOK'
<1> USE DEF QueuesOK
<1>1. CASE \/ FlushRequested \/ ConfigureUnsupported \/ ConfigureResetsNodes
           \/ ConfigureResetFails \/ ConfigureNoBridge \/ ConfigurePublishes
           \/ ConfigureNoMemory \/ ConfigureParams \/ ConfigureSucceeds
  <2>1. UNCHANGED <<setupGeneration, request, frames, tasks, taskInHand, stillRuns>>
    BY <1>1
       DEF FlushRequested, workVars, ConfigureUnsupported, ConfigureResetsNodes,
          ConfigureResetFails, ConfigureNoBridge, ConfigurePublishes, ConfigureNoMemory,
          ConfigureParams, OpsFree, ConfigureSucceeds, NotConfiguring
  <2> QED
    BY <2>1
<1>2. ASSUME NEW submitted \in Configurations, ConfigureBegin(submitted) PROVE QueuesOK'
  BY <1>2 DEF ConfigureBegin, workVars
<1>3. CASE FlushInvalidates
  BY <1>3 DEF FlushInvalidates
<1>4. CASE FlushStops
  BY <1>4 DEF FlushStops
<1>5. ASSUME NEW settings \in BOOLEAN, NEW wantsStill \in BOOLEAN, RequestGate(settings, wantsStill)
      PROVE  QueuesOK'
  BY <1>5 DEF RequestGate, workVars
<1>6. CASE RequestApply
  BY <1>6 DEF RequestApply, OpsFree, workVars
<1>7. CASE RequestPush
  <2>1. tasks' \in {tasks, Posted("StartPreview"), Posted("TakePicture")}
    BY <1>7 DEF RequestPush
  <2>2. frames' \in {frames, Append(frames, "still"), Append(frames, "frame")}
    BY <1>7 DEF RequestPush
  <2>3. frames' \in Seq({"frame", "still"})
    <3>1. "frame" \in {"frame", "still"} /\ "still" \in {"frame", "still"}
      OBVIOUS
    <3>2. frames \in Seq({"frame", "still"})
      OBVIOUS
    <3> HIDE DEF QueuesOK
    <3> QED
      BY <2>2, <3>1, <3>2
  <2> QED
    BY <1>7, <2>1, <2>3, PostedIsTasks DEF RequestPush, NoRequest
<1>8. CASE WorkerChecks
  BY <1>8 DEF WorkerChecks, NoTask
<1>9. CASE WorkerTooLate
  BY <1>9 DEF WorkerTooLate, NoTask
<1>10. CASE WorkerStartsPreview
  BY <1>10 DEF WorkerStartsPreview, NoTask
<1>11. CASE WorkerStartFails
  BY <1>11 DEF WorkerStartFails, NoTask
<1>12. CASE FrameServed
  BY <1>12, PostedIsTasks DEF FrameServed
<1>13. CASE WorkerAppliesStill
  BY <1>13 DEF WorkerAppliesStill
<1>14. CASE WorkerTakesPicture
  BY <1>14, PostedIsTasks DEF WorkerTakesPicture, NoTask
<1>15. CASE PictureArrives
  BY <1>15, PostedIsTasks DEF PictureArrives
<1> QED
  BY <1>1, <1>2, <1>3, <1>4, <1>5, <1>6, <1>7, <1>8, <1>9, <1>10, <1>11, <1>12, <1>13,
     <1>14, <1>15
     DEF SetupNext

LEMMA SensorOKKept ==
  ASSUME SetupShape, SetupNext
  PROVE  SensorOK'
<1> USE DEF SensorOK, SetupShape
<1>1. CASE \/ FlushRequested \/ FlushInvalidates \/ FlushStops \/ ConfigureUnsupported
           \/ ConfigureNoBridge \/ ConfigurePublishes \/ ConfigureNoMemory
           \/ ConfigureSucceeds \/ RequestPush \/ WorkerChecks \/ WorkerTooLate
           \/ WorkerStartsPreview \/ WorkerStartFails \/ FrameServed
           \/ WorkerTakesPicture \/ PictureArrives
  <2>1. UNCHANGED <<cached, captureNodes>>
    BY <1>1
       DEF FlushRequested, paramVars, FlushInvalidates, FlushStops,
          ConfigureUnsupported, ConfigureNoBridge, ConfigurePublishes,
          ConfigureNoMemory, ConfigureSucceeds, NotConfiguring, RequestPush, NoRequest,
          WorkerChecks, NoTask, WorkerTooLate, WorkerStartsPreview, WorkerStartFails,
          FrameServed, WorkerTakesPicture, PictureArrives
  <2> QED
    BY <2>1
<1>2. ASSUME NEW submitted \in Configurations, ConfigureBegin(submitted) PROVE SensorOK'
  BY <1>2 DEF ConfigureBegin, paramVars
<1>3. CASE ConfigureResetsNodes
  BY <1>3 DEF ConfigureResetsNodes
<1>4. CASE ConfigureResetFails
  BY <1>4 DEF ConfigureResetFails, paramVars
<1>5. CASE ConfigureParams
  BY <1>5, ApplyDoes DEF ConfigureParams, Applied
<1>6. ASSUME NEW settings \in BOOLEAN, NEW wantsStill \in BOOLEAN, RequestGate(settings, wantsStill)
      PROVE  SensorOK'
  BY <1>6 DEF RequestGate, paramVars
<1>7. CASE RequestApply
  BY <1>7, ApplyDoes DEF RequestApply, Applied
<1>8. CASE WorkerAppliesStill
  BY <1>8, ApplyDoes DEF WorkerAppliesStill, Applied
<1> QED
  BY <1>1, <1>2, <1>3, <1>4, <1>5, <1>6, <1>7, <1>8 DEF SetupNext

LEMMA GatesKept ==
  ASSUME SetupShape, Gates, SetupNext
  PROVE  Gates'
<1> USE DEF Gates, SetupShape, ConfiguringOK, FlagsOK
<1>1. CASE \/ RequestApply \/ RequestPush \/ WorkerChecks \/ WorkerTooLate
           \/ WorkerStartsPreview \/ WorkerStartFails \/ FrameServed
           \/ WorkerAppliesStill \/ WorkerTakesPicture \/ PictureArrives
  <2>1. UNCHANGED <<configuring, configured, reconfiguring, flushRuns>>
    BY <1>1
       DEF RequestApply, RequestPush, NoRequest, clientVars, WorkerChecks, NoTask,
          WorkerTooLate, WorkerStartsPreview, WorkerStartFails, FrameServed,
          WorkerAppliesStill, WorkerTakesPicture, PictureArrives
  <2> QED
    BY <2>1
<1>2. ASSUME NEW submitted \in Configurations, ConfigureBegin(submitted) PROVE Gates'
  BY <1>2 DEF ConfigureBegin
<1>3. CASE FlushRequested
  BY <1>3 DEF FlushRequested
<1>4. CASE FlushInvalidates
  BY <1>4 DEF FlushInvalidates
<1>5. CASE FlushStops
  BY <1>5 DEF FlushStops
<1>6. CASE ConfigureUnsupported
  BY <1>6 DEF ConfigureUnsupported, ConfigureFails, NotConfiguring
<1>7. CASE ConfigureResetsNodes
  BY <1>7 DEF ConfigureResetsNodes, NeedsReset
<1>8. CASE ConfigureResetFails
  BY <1>8 DEF ConfigureResetFails, ConfigureFails, NeedsReset, NotConfiguring
<1>9. CASE ConfigureNoBridge
  BY <1>9 DEF ConfigureNoBridge, ConfigureFails, NotConfiguring
<1>10. CASE ConfigurePublishes
  BY <1>10 DEF ConfigurePublishes
<1>11. CASE ConfigureNoMemory
  BY <1>11 DEF ConfigureNoMemory, ConfigureFails, NotConfiguring
<1>12. CASE ConfigureParams
  BY <1>12 DEF ConfigureParams
<1>13. CASE ConfigureSucceeds
  BY <1>13 DEF ConfigureSucceeds, NotConfiguring
<1>14. ASSUME NEW settings \in BOOLEAN, NEW wantsStill \in BOOLEAN, RequestGate(settings, wantsStill)
      PROVE  Gates'
  BY <1>14 DEF RequestGate, clientVars
<1> QED
  BY <1>1, <1>2, <1>3, <1>4, <1>5, <1>6, <1>7, <1>8, <1>9, <1>10, <1>11, <1>12, <1>13,
     <1>14
     DEF SetupNext

LEMMA BuffersOKKept ==
  ASSUME SetupShape, Gates, BuffersOK, SetupNext
  PROVE  BuffersOK'
<1> USE DEF BuffersOK, Buffers, Gates, SetupShape, ConfiguringOK, FlagsOK
<1>1. CASE \/ RequestApply \/ RequestPush \/ WorkerChecks \/ WorkerTooLate
           \/ WorkerStartsPreview \/ WorkerStartFails \/ FrameServed
           \/ WorkerAppliesStill \/ WorkerTakesPicture \/ PictureArrives
  <2>1. UNCHANGED <<configuring, streams, scratch, drain, configured, reconfiguring>>
    BY <1>1
       DEF RequestApply, bufferVars, RequestPush, NoRequest, clientVars, WorkerChecks,
          NoTask, WorkerTooLate, WorkerStartsPreview, WorkerStartFails, FrameServed,
          WorkerAppliesStill, WorkerTakesPicture, PictureArrives
  <2> QED
    BY <2>1
<1>2. ASSUME NEW submitted \in Configurations, ConfigureBegin(submitted) PROVE BuffersOK'
  BY <1>2 DEF ConfigureBegin, bufferVars
<1>3. CASE FlushRequested
  BY <1>3 DEF FlushRequested, bufferVars
<1>4. CASE FlushInvalidates
  BY <1>4 DEF FlushInvalidates, bufferVars
<1>5. CASE FlushStops
  BY <1>5 DEF FlushStops, bufferVars
<1>6. CASE ConfigureUnsupported
  BY <1>6 DEF ConfigureUnsupported, ConfigureFails, bufferVars, NotConfiguring
<1>7. CASE ConfigureResetsNodes
  BY <1>7 DEF ConfigureResetsNodes, NeedsReset, bufferVars
<1>8. CASE ConfigureResetFails
  BY <1>8 DEF ConfigureResetFails, ConfigureFails, NeedsReset, bufferVars, NotConfiguring
<1>9. CASE ConfigureNoBridge
  BY <1>9 DEF ConfigureNoBridge, ConfigureFails, bufferVars, NotConfiguring
<1>10. CASE ConfigurePublishes
  BY <1>10 DEF ConfigurePublishes
<1>11. CASE ConfigureNoMemory
  BY <1>11 DEF ConfigureNoMemory, ConfigureFails, NotConfiguring
<1>12. CASE ConfigureParams
  BY <1>12 DEF ConfigureParams, bufferVars
<1>13. CASE ConfigureSucceeds
  BY <1>13 DEF ConfigureSucceeds, NotConfiguring, bufferVars
<1>14. ASSUME NEW settings \in BOOLEAN, NEW wantsStill \in BOOLEAN, RequestGate(settings, wantsStill)
      PROVE  BuffersOK'
  BY <1>14 DEF RequestGate, bufferVars, clientVars
<1> QED
  BY <1>1, <1>2, <1>3, <1>4, <1>5, <1>6, <1>7, <1>8, <1>9, <1>10, <1>11, <1>12, <1>13,
     <1>14
     DEF SetupNext

LEMMA WorkKept ==
  ASSUME SetupShape, Gates, Work, SetupNext
  PROVE  Work'
<1> USE DEF Work, Busy, Live, StopsEmpty, Stilling, Gates, SetupShape, ConfiguringOK,
   FlagsOK, QueuesOK
<1>1. ASSUME NEW submitted \in Configurations, ConfigureBegin(submitted) PROVE Work'
  BY <1>1, QueuesOKKept DEF ConfigureBegin, captureVars, workVars
<1>2. CASE FlushRequested
  BY <1>2, QueuesOKKept DEF FlushRequested, captureVars, workVars
<1>3. CASE FlushInvalidates
  BY <1>3, QueuesOKKept DEF FlushInvalidates, captureVars
<1>4. CASE FlushStops
  BY <1>4, QueuesOKKept DEF FlushStops, PreviewStop
<1>5. CASE ConfigureUnsupported
  BY <1>5, QueuesOKKept
     DEF ConfigureUnsupported, ConfigureFails, captureVars, workVars, NotConfiguring
<1>6. CASE ConfigureResetsNodes
  BY <1>6, QueuesOKKept DEF ConfigureResetsNodes, NeedsReset, workVars
<1>7. CASE ConfigureResetFails
  BY <1>7, QueuesOKKept
     DEF ConfigureResetFails, ConfigureFails, NeedsReset, captureVars, workVars,
        NotConfiguring
<1>8. CASE ConfigureNoBridge
  BY <1>8, QueuesOKKept
     DEF ConfigureNoBridge, ConfigureFails, captureVars, workVars, NotConfiguring
<1>9. CASE ConfigurePublishes
  BY <1>9, QueuesOKKept DEF ConfigurePublishes, captureVars, workVars
<1>10. CASE ConfigureNoMemory
  BY <1>10, QueuesOKKept
     DEF ConfigureNoMemory, ConfigureFails, captureVars, workVars, NotConfiguring
<1>11. CASE ConfigureParams
  BY <1>11, QueuesOKKept DEF ConfigureParams, OpsFree, captureVars, workVars
<1>12. CASE ConfigureSucceeds
  BY <1>12, QueuesOKKept DEF ConfigureSucceeds, NotConfiguring, captureVars, workVars
<1>13. ASSUME NEW settings \in BOOLEAN, NEW wantsStill \in BOOLEAN, RequestGate(settings, wantsStill)
      PROVE  Work'
  BY <1>13, QueuesOKKept DEF RequestGate, captureVars, clientVars, workVars
<1>14. CASE RequestApply
  BY <1>14, QueuesOKKept DEF RequestApply, OpsFree, captureVars, workVars
<1>15. CASE RequestPush
  BY <1>15, QueuesOKKept DEF RequestPush, NoRequest, captureVars, clientVars
<1>16. CASE WorkerChecks
  BY <1>16, QueuesOKKept DEF WorkerChecks, NoTask, captureVars, clientVars
<1>17. CASE WorkerTooLate
  BY <1>17, QueuesOKKept DEF WorkerTooLate, NoTask, captureVars, clientVars
<1>18. CASE WorkerStartsPreview
  BY <1>18, QueuesOKKept DEF WorkerStartsPreview, NoTask, clientVars
<1>19. CASE WorkerStartFails
  BY <1>19, QueuesOKKept DEF WorkerStartFails, NoTask, clientVars
<1>20. CASE FrameServed
  BY <1>20, QueuesOKKept DEF FrameServed, clientVars
<1>21. CASE WorkerAppliesStill
  BY <1>21, QueuesOKKept DEF WorkerAppliesStill, captureVars, clientVars
<1>22. CASE WorkerTakesPicture
  BY <1>22, QueuesOKKept DEF WorkerTakesPicture, NoTask, PreviewStop, clientVars
<1>23. CASE PictureArrives
  BY <1>23, QueuesOKKept DEF PictureArrives, captureVars, clientVars
<1> QED
  BY <1>1, <1>2, <1>3, <1>4, <1>5, <1>6, <1>7, <1>8, <1>9, <1>10, <1>11, <1>12, <1>13,
     <1>14, <1>15, <1>16, <1>17, <1>18, <1>19, <1>20, <1>21, <1>22, <1>23
     DEF SetupNext

LEMMA SessionPreparedKept ==
  ASSUME SetupShape, Gates, Work, SessionPrepared, SetupNext
  PROVE  SessionPrepared'
<1> USE DEF SessionPrepared, Busy, Live, Work, StopsEmpty, Stilling, Gates, SetupShape,
   ConfiguringOK, FlagsOK, QueuesOK
<1>1. ASSUME NEW submitted \in Configurations, ConfigureBegin(submitted) PROVE SessionPrepared'
  BY <1>1 DEF ConfigureBegin, captureVars, paramVars, workVars, Prepared
<1>2. CASE FlushRequested
  BY <1>2 DEF FlushRequested, captureVars, paramVars, workVars, Prepared
<1>3. CASE FlushInvalidates
  BY <1>3 DEF FlushInvalidates, captureVars, paramVars, Prepared
<1>4. CASE FlushStops
  BY <1>4 DEF FlushStops, PreviewStop, Prepared
<1>5. CASE ConfigureUnsupported
  BY <1>5
     DEF ConfigureUnsupported, ConfigureFails, captureVars, paramVars, workVars,
        NotConfiguring, Prepared
<1>6. CASE ConfigureResetsNodes
  BY <1>6 DEF ConfigureResetsNodes, NeedsReset, workVars, Prepared
<1>7. CASE ConfigureResetFails
  BY <1>7
     DEF ConfigureResetFails, ConfigureFails, NeedsReset, captureVars, paramVars,
        workVars, NotConfiguring, Prepared
<1>8. CASE ConfigureNoBridge
  BY <1>8
     DEF ConfigureNoBridge, ConfigureFails, captureVars, paramVars, workVars,
        NotConfiguring, Prepared
<1>9. CASE ConfigurePublishes
  BY <1>9 DEF ConfigurePublishes, captureVars, paramVars, workVars, Prepared
<1>10. CASE ConfigureNoMemory
  BY <1>10
     DEF ConfigureNoMemory, ConfigureFails, captureVars, paramVars, workVars,
        NotConfiguring, Prepared
<1>11. CASE ConfigureParams
  BY <1>11, ApplyPrepares DEF ConfigureParams, OpsFree, captureVars, workVars
<1>12. CASE ConfigureSucceeds
  BY <1>12
     DEF ConfigureSucceeds, NotConfiguring, captureVars, paramVars, workVars, Prepared
<1>13. ASSUME NEW settings \in BOOLEAN, NEW wantsStill \in BOOLEAN, RequestGate(settings, wantsStill)
      PROVE  SessionPrepared'
  BY <1>13 DEF RequestGate, captureVars, clientVars, paramVars, workVars, Prepared
<1>14. CASE RequestApply
  <2>1. Prepared => Prepared'
    <3>1. CASE request.settings \/ request.still
      BY <1>14, <3>1, ApplyPrepares DEF RequestApply
    <3>2. CASE ~(request.settings \/ request.still)
      BY <1>14, <3>2 DEF RequestApply, Prepared
    <3> QED
      BY <3>1, <3>2
  <2> QED
    BY <1>14, <2>1 DEF RequestApply, captureVars, workVars
<1>15. CASE RequestPush
  BY <1>15 DEF RequestPush, NoRequest, captureVars, clientVars, paramVars, Prepared
<1>16. CASE WorkerChecks
  BY <1>16 DEF WorkerChecks, NoTask, captureVars, clientVars, paramVars, Prepared
<1>17. CASE WorkerTooLate
  BY <1>17 DEF WorkerTooLate, NoTask, captureVars, clientVars, paramVars, Prepared
<1>18. CASE WorkerStartsPreview
  BY <1>18 DEF WorkerStartsPreview, NoTask, clientVars, Prepared
<1>19. CASE WorkerStartFails
  BY <1>19 DEF WorkerStartFails, NoTask, clientVars, Prepared
<1>20. CASE FrameServed
  BY <1>20 DEF FrameServed, clientVars, paramVars, Prepared
<1>21. CASE WorkerAppliesStill
  BY <1>21, ApplyPrepares DEF WorkerAppliesStill, captureVars, clientVars
<1>22. CASE WorkerTakesPicture
  BY <1>22 DEF WorkerTakesPicture, NoTask, PreviewStop, clientVars, Prepared
<1>23. CASE PictureArrives
  BY <1>23 DEF PictureArrives, captureVars, clientVars, paramVars, Prepared
<1> QED
  BY <1>1, <1>2, <1>3, <1>4, <1>5, <1>6, <1>7, <1>8, <1>9, <1>10, <1>11, <1>12, <1>13,
     <1>14, <1>15, <1>16, <1>17, <1>18, <1>19, <1>20, <1>21, <1>22, <1>23
     DEF SetupNext

LEMMA RequestHasSourceKept ==
  ASSUME SetupShape, Gates, Work, RequestHasSource, SetupNext
  PROVE  RequestHasSource'
<1> USE DEF RequestHasSource, Live, Gates, SetupShape, ConfiguringOK, FlagsOK, QueuesOK
<1>1. CASE \/ FlushRequested \/ FlushStops \/ ConfigureUnsupported
           \/ ConfigureResetsNodes \/ ConfigureResetFails \/ ConfigureNoBridge
           \/ ConfigureParams \/ ConfigureSucceeds \/ WorkerChecks \/ WorkerTooLate
           \/ WorkerStartsPreview \/ WorkerStartFails \/ FrameServed
           \/ WorkerAppliesStill \/ WorkerTakesPicture \/ PictureArrives
  <2>1. UNCHANGED <<streams, setupGeneration, request>>
    BY <1>1
       DEF FlushRequested, FlushStops, ConfigureUnsupported, ConfigureResetsNodes,
          ConfigureResetFails, ConfigureNoBridge, ConfigureParams, ConfigureSucceeds,
          NotConfiguring, WorkerChecks, NoTask, WorkerTooLate, WorkerStartsPreview,
          WorkerStartFails, FrameServed, WorkerAppliesStill, WorkerTakesPicture,
          PictureArrives
  <2> QED
    BY <2>1
<1>2. ASSUME NEW submitted \in Configurations, ConfigureBegin(submitted) PROVE RequestHasSource'
  BY <1>2 DEF ConfigureBegin
<1>3. CASE FlushInvalidates
  BY <1>3 DEF FlushInvalidates
<1>4. CASE ConfigurePublishes
  BY <1>4, NothingWhileConfiguring DEF ConfigurePublishes, Busy
<1>5. CASE ConfigureNoMemory
  BY <1>5, NothingWhileConfiguring DEF ConfigureNoMemory, Busy
<1>6. ASSUME NEW settings \in BOOLEAN, NEW wantsStill \in BOOLEAN, RequestGate(settings, wantsStill)
      PROVE  RequestHasSource'
  BY <1>6 DEF RequestGate
<1>7. CASE RequestApply
  BY <1>7 DEF RequestApply
<1>8. CASE RequestPush
  BY <1>8 DEF RequestPush, NoRequest
<1> QED
  BY <1>1, <1>2, <1>3, <1>4, <1>5, <1>6, <1>7, <1>8 DEF SetupNext

LEMMA OneStillKept ==
  ASSUME QueuesOK, RequestHasSource, OneStill, SetupNext
  PROVE  OneStill'
<1> USE DEF OneStill, StillFrame, StillTask, Stilling, QueuesOK
<1>1. CASE \/ FlushRequested \/ ConfigureUnsupported \/ ConfigureResetsNodes
           \/ ConfigureResetFails \/ ConfigureNoBridge \/ ConfigurePublishes
           \/ ConfigureNoMemory \/ ConfigureParams \/ ConfigureSucceeds \/ RequestApply
  <2>1. UNCHANGED <<frames, tasks, taskInHand, stillRuns>>
    BY <1>1
       DEF FlushRequested, workVars, ConfigureUnsupported, ConfigureResetsNodes,
          ConfigureResetFails, ConfigureNoBridge, ConfigurePublishes, ConfigureNoMemory,
          ConfigureParams, OpsFree, ConfigureSucceeds, NotConfiguring, RequestApply
  <2> QED
    BY <2>1
<1>2. ASSUME NEW submitted \in Configurations, ConfigureBegin(submitted) PROVE OneStill'
  BY <1>2 DEF ConfigureBegin, workVars
<1>3. CASE FlushInvalidates
  BY <1>3 DEF FlushInvalidates
<1>4. CASE FlushStops
  BY <1>4 DEF FlushStops
<1>5. ASSUME NEW settings \in BOOLEAN, NEW wantsStill \in BOOLEAN, RequestGate(settings, wantsStill)
      PROVE  OneStill'
  BY <1>5 DEF RequestGate, workVars
<1>6. CASE RequestPush
  <2>1. CASE tasks' = tasks /\ frames' = frames
    BY <1>6, <2>1 DEF RequestPush
  <2>2. CASE /\ ~(request.still /\ StillQueued)
             /\ frames' = Append(frames, IF request.still THEN "still" ELSE "frame")
             /\ tasks' = Posted("StartPreview")
    <3>1. ASSUME NEW i \in DOMAIN frames', frames'[i] = "still"
          PROVE  \/ i \in DOMAIN frames /\ frames[i] = "still"
                 \/ i = Len(frames) + 1 /\ request.still
      BY <2>2, <3>1
    <3>2. request.still => ~StillFrame /\ ~StillTask /\ taskInHand.task \notin Stilling
                           /\ stillRuns = 0
      BY <2>2 DEF StillQueued
    <3> QED
      BY <1>6, <2>2, <3>1, <3>2, PostedStartAddsNoStill DEF RequestPush
  <2>3. CASE ~StillQueued /\ frames' = frames /\ tasks' = Posted("TakePicture")
    <3>1. ~StillFrame /\ ~StillTask /\ taskInHand.task \notin Stilling /\ stillRuns = 0
      BY <2>3 DEF StillQueued
    <3> QED
      BY <1>6, <2>3, <3>1, PostedStillIsNew DEF RequestPush
  <2> QED
    BY <1>6, <2>1, <2>2, <2>3 DEF RequestPush, RequestHasSource
<1>7. CASE WorkerChecks
  BY <1>7 DEF WorkerChecks, NoTask
<1>8. CASE WorkerTooLate
  BY <1>8 DEF WorkerTooLate, NoTask
<1>9. CASE WorkerStartsPreview
  BY <1>9 DEF WorkerStartsPreview, NoTask
<1>10. CASE WorkerStartFails
  BY <1>10 DEF WorkerStartFails, NoTask
<1>11. CASE FrameServed
  <2>1. \A i \in DOMAIN frames' : i + 1 \in DOMAIN frames /\ frames'[i] = frames[i + 1]
    BY <1>11 DEF FrameServed
  <2>2. StillFrame' => StillFrame /\ Head(frames) # "still"
    <3>1. ASSUME NEW i \in DOMAIN frames', frames'[i] = "still"
          PROVE  StillFrame /\ frames[1] # "still"
      BY <1>11, <2>1, <3>1 DEF FrameServed
    <3> QED
      BY <1>11, <3>1 DEF FrameServed
  <2>3. \A i, j \in DOMAIN frames' : frames'[i] = "still" /\ frames'[j] = "still" => i = j
    <3>1. ASSUME NEW i \in DOMAIN frames', NEW j \in DOMAIN frames',
                 frames'[i] = "still", frames'[j] = "still"
          PROVE  i = j
      <4>1. i + 1 = j + 1
        BY <2>1, <3>1
      <4>2. i \in Nat /\ j \in Nat
        BY <1>11 DEF FrameServed
      <4> QED
        BY <4>1, <4>2
    <3> QED
      BY <3>1
  <2>4. CASE Head(frames) = "still"
    <3>1. StillFrame
      BY <1>11, <2>4 DEF FrameServed
    <3> QED
      BY <1>11, <2>2, <2>3, <2>4, <3>1, PostedStillIsNew DEF FrameServed
  <2>5. CASE Head(frames) # "still"
    BY <1>11, <2>2, <2>3, <2>5 DEF FrameServed
  <2> QED
    BY <2>4, <2>5
<1>12. CASE WorkerAppliesStill
  BY <1>12 DEF WorkerAppliesStill
<1>13. CASE WorkerTakesPicture
  <2>1. taskInHand.task = "Capture" /\ taskInHand'.task = "none" /\ frames' = frames
    BY <1>13 DEF WorkerTakesPicture, NoTask
  <2>2. \/ tasks' = tasks
        \/ tasks' = Posted("StartPreview") /\ stillRuns' = stillRuns
    BY <1>13 DEF WorkerTakesPicture
  <2> QED
    BY <2>1, <2>2, PostedStartAddsNoStill
<1>14. CASE PictureArrives
  <2>1. stillRuns' = 0 /\ frames' = frames /\ taskInHand' = taskInHand
    BY <1>14 DEF PictureArrives
  <2>2. tasks' = tasks \/ tasks' = Posted("StartPreview")
    BY <1>14 DEF PictureArrives
  <2> QED
    BY <2>1, <2>2, PostedStartAddsNoStill
<1> QED
  BY <1>1, <1>2, <1>3, <1>4, <1>5, <1>6, <1>7, <1>8, <1>9, <1>10, <1>11, <1>12, <1>13,
     <1>14
     DEF SetupNext

LEMMA StillPreviewedKept ==
  ASSUME SetupShape, Gates, Work, OneStill, StillPreviewed, SetupNext
  PROVE  StillPreviewed'
<1> USE DEF StillPreviewed, StillTask, OneStill, Stilling, Work, Busy, Live, StopsEmpty,
   Gates, SetupShape, ConfiguringOK, FlagsOK, QueuesOK
<1>1. CASE \/ FlushRequested \/ ConfigureUnsupported \/ ConfigureResetsNodes
           \/ ConfigureResetFails \/ ConfigureNoBridge \/ ConfigureParams
           \/ ConfigureSucceeds \/ RequestApply
  <2>1. UNCHANGED <<streams, tasks, taskInHand, nativePreview>>
    BY <1>1
       DEF FlushRequested, captureVars, workVars, ConfigureUnsupported,
          ConfigureResetsNodes, ConfigureResetFails, ConfigureNoBridge, ConfigureParams,
          OpsFree, ConfigureSucceeds, NotConfiguring, RequestApply
  <2> QED
    BY <2>1
<1>2. ASSUME NEW submitted \in Configurations, ConfigureBegin(submitted) PROVE StillPreviewed'
  BY <1>2 DEF ConfigureBegin, captureVars, workVars
<1>3. CASE FlushInvalidates
  BY <1>3 DEF FlushInvalidates, captureVars
<1>4. CASE FlushStops
  BY <1>4 DEF FlushStops, PreviewStop
<1>5. CASE ConfigurePublishes
  BY <1>5 DEF ConfigurePublishes, captureVars, workVars
<1>6. CASE ConfigureNoMemory
  BY <1>6 DEF ConfigureNoMemory, captureVars, workVars
<1>7. ASSUME NEW settings \in BOOLEAN, NEW wantsStill \in BOOLEAN, RequestGate(settings, wantsStill)
      PROVE  StillPreviewed'
  BY <1>7 DEF RequestGate, captureVars, workVars
<1>8. CASE RequestPush
  BY <1>8, PostedStart, PostedStill DEF RequestPush, NoRequest, captureVars
<1>9. CASE WorkerChecks
  BY <1>9 DEF WorkerChecks, NoTask, captureVars
<1>10. CASE WorkerTooLate
  BY <1>10 DEF WorkerTooLate, NoTask, captureVars
<1>11. CASE WorkerStartsPreview
  BY <1>11 DEF WorkerStartsPreview, NoTask
<1>12. CASE WorkerStartFails
  BY <1>12 DEF WorkerStartFails, NoTask
<1>13. CASE FrameServed
  BY <1>13, PostedStart, PostedStill DEF FrameServed
<1>14. CASE WorkerAppliesStill
  BY <1>14 DEF WorkerAppliesStill, captureVars
<1>15. CASE WorkerTakesPicture
  BY <1>15, PostedStart, PostedStill DEF WorkerTakesPicture, NoTask, PreviewStop
<1>16. CASE PictureArrives
  BY <1>16, PostedStart, PostedStill DEF PictureArrives, captureVars
<1> QED
  BY <1>1, <1>2, <1>3, <1>4, <1>5, <1>6, <1>7, <1>8, <1>9, <1>10, <1>11, <1>12, <1>13,
     <1>14, <1>15, <1>16
     DEF SetupNext

LEMMA MovieRunsKept ==
  ASSUME SetupShape, Gates, Work, MovieRuns, SetupNext
  PROVE  MovieRuns'
<1> USE DEF MovieRuns, Busy
<1>1. CASE \/ FlushRequested \/ FlushInvalidates \/ ConfigureUnsupported
           \/ ConfigureNoBridge \/ ConfigurePublishes \/ ConfigureNoMemory
           \/ ConfigureParams \/ RequestApply \/ RequestPush \/ WorkerChecks
           \/ WorkerTooLate \/ WorkerAppliesStill \/ PictureArrives
  <2>1. UNCHANGED <<nativePreview, movieRuns, native_recording_stream, captureNodes>>
    BY <1>1
       DEF FlushRequested, captureVars, FlushInvalidates, ConfigureUnsupported,
          ConfigureNoBridge, ConfigurePublishes, ConfigureNoMemory, ConfigureParams,
          RequestApply, RequestPush, NoRequest, WorkerChecks, NoTask, WorkerTooLate,
          WorkerAppliesStill, PictureArrives
  <2> QED
    BY <2>1
<1>2. ASSUME NEW submitted \in Configurations, ConfigureBegin(submitted) PROVE MovieRuns'
  BY <1>2 DEF ConfigureBegin, captureVars
<1>3. CASE FlushStops
  BY <1>3 DEF FlushStops, PreviewStop
<1>4. CASE ConfigureResetsNodes
  BY <1>4, NothingWhileConfiguring DEF ConfigureResetsNodes
<1>5. CASE ConfigureResetFails
  BY <1>5, NothingWhileConfiguring DEF ConfigureResetFails, captureVars
<1>6. CASE ConfigureSucceeds
  BY <1>6, NothingWhileConfiguring DEF ConfigureSucceeds, NotConfiguring, captureVars
<1>7. ASSUME NEW settings \in BOOLEAN, NEW wantsStill \in BOOLEAN, RequestGate(settings, wantsStill)
      PROVE  MovieRuns'
  BY <1>7 DEF RequestGate, captureVars
<1>8. CASE WorkerStartsPreview
  BY <1>8 DEF WorkerStartsPreview, NoTask
<1>9. CASE WorkerStartFails
  BY <1>9 DEF WorkerStartFails, NoTask
<1>10. CASE FrameServed
  BY <1>10 DEF FrameServed
<1>11. CASE WorkerTakesPicture
  BY <1>11 DEF WorkerTakesPicture, NoTask, PreviewStop
<1> QED
  BY <1>1, <1>2, <1>3, <1>4, <1>5, <1>6, <1>7, <1>8, <1>9, <1>10, <1>11 DEF SetupNext

LEMMA SizeKnownKept ==
  ASSUME SetupShape, Gates, Work, SessionPrepared, StillPreviewed, SizeKnown, SetupNext
  PROVE  SizeKnown'
<1> USE DEF SizeKnown, SizeIsWritten, PhotoSession, RouteSpared, Live, Gates, Busy,
   SetupShape, ConfiguringOK, FlagsOK, QueuesOK
<1>1. CASE \/ RequestPush \/ WorkerChecks \/ WorkerTooLate \/ FrameServed
           \/ PictureArrives
  <2>1. UNCHANGED <<configuring, streams, configured, reconfiguring, cached,
     preview_params_set, nativePreview, captureNodes, oneShot, spoiled>>
    BY <1>1
       DEF RequestPush, NoRequest, captureVars, clientVars, paramVars, WorkerChecks,
          NoTask, WorkerTooLate, FrameServed, PictureArrives
  <2> QED
    BY <2>1
<1>2. ASSUME NEW submitted \in Configurations, ConfigureBegin(submitted) PROVE SizeKnown'
  BY <1>2 DEF ConfigureBegin, captureVars, paramVars
<1>3. CASE FlushRequested
  BY <1>3 DEF FlushRequested, captureVars, paramVars
<1>4. CASE FlushInvalidates
  BY <1>4 DEF FlushInvalidates, captureVars, paramVars
<1>5. CASE FlushStops
  BY <1>5 DEF FlushStops, PreviewStop
<1>6. CASE ConfigureUnsupported
  BY <1>6, NothingWhileConfiguring
     DEF ConfigureUnsupported, ConfigureFails, captureVars, paramVars, NotConfiguring
<1>7. CASE ConfigureResetsNodes
  BY <1>7, NothingWhileConfiguring DEF ConfigureResetsNodes, NeedsReset
<1>8. CASE ConfigureResetFails
  BY <1>8, NothingWhileConfiguring
     DEF ConfigureResetFails, ConfigureFails, NeedsReset, captureVars, paramVars,
        NotConfiguring
<1>9. CASE ConfigureNoBridge
  BY <1>9, NothingWhileConfiguring
     DEF ConfigureNoBridge, ConfigureFails, captureVars, paramVars, NotConfiguring
<1>10. CASE ConfigurePublishes
  BY <1>10, NothingWhileConfiguring DEF ConfigurePublishes, captureVars, paramVars
<1>11. CASE ConfigureNoMemory
  BY <1>11, NothingWhileConfiguring
     DEF ConfigureNoMemory, ConfigureFails, captureVars, paramVars, NotConfiguring
<1>12. CASE ConfigureParams
  BY <1>12, NothingWhileConfiguring, ApplyWritesSize, ApplyDoes, SparedBefore
     DEF ConfigureParams, captureVars, Applied
<1>13. CASE ConfigureSucceeds
  BY <1>13, NothingWhileConfiguring
     DEF ConfigureSucceeds, NotConfiguring, captureVars, paramVars
<1>14. ASSUME NEW settings \in BOOLEAN, NEW wantsStill \in BOOLEAN, RequestGate(settings, wantsStill)
      PROVE  SizeKnown'
  BY <1>14 DEF RequestGate, captureVars, clientVars, paramVars
<1>15. CASE RequestApply
  BY <1>15, ApplyWritesSize, ApplyDoes, SparedBefore
     DEF RequestApply, captureVars, Applied
<1>16. CASE WorkerStartsPreview
  BY <1>16 DEF WorkerStartsPreview, NoTask, clientVars
<1>17. CASE WorkerStartFails
  BY <1>17 DEF WorkerStartFails, NoTask, clientVars
<1>18. CASE WorkerAppliesStill
  BY <1>18, ApplyWritesSize, ApplyDoes, SparedBefore
     DEF WorkerAppliesStill, captureVars, clientVars, Applied
<1>19. CASE WorkerTakesPicture
  <2>1. Busy
    BY <1>19 DEF WorkerTakesPicture, Work, Stilling
  <2>2. Live /\ Live'
    BY <1>19, <2>1 DEF WorkerTakesPicture, Work, clientVars
  <2>3. CASE nativePreview
    <3>1. ~preview_params_set'
      BY <1>19, <2>3 DEF WorkerTakesPicture, PreviewStop
    <3> QED
      BY <3>1
  <2>4. CASE ~nativePreview
    <3>1. streams.video = NoSize
      BY <1>19, <2>4 DEF WorkerTakesPicture, StillPreviewed, Source, Stilling
    <3> QED
      BY <1>19, <2>2, <3>1 DEF WorkerTakesPicture
  <2> QED
    BY <2>3, <2>4
<1> QED
  BY <1>1, <1>2, <1>3, <1>4, <1>5, <1>6, <1>7, <1>8, <1>9, <1>10, <1>11, <1>12, <1>13,
     <1>14, <1>15, <1>16, <1>17, <1>18, <1>19
     DEF SetupNext

LEMMA RouteKnownKept ==
  ASSUME SetupShape, Gates, Work, SessionPrepared, StillPreviewed, SizeKnown,
     RouteKnown, SetupNext
  PROVE  RouteKnown'
<1> USE DEF RouteKnown, RouteSpared, Busy, SetupShape, ConfiguringOK, FlagsOK, QueuesOK
<1>1. CASE \/ FlushRequested \/ FlushInvalidates \/ ConfigureSucceeds \/ RequestPush
           \/ WorkerChecks \/ WorkerTooLate \/ FrameServed \/ PictureArrives
  <2>1. UNCHANGED <<streams, nativePreview, captureNodes, route, spoiled>>
    BY <1>1
       DEF FlushRequested, captureVars, FlushInvalidates, ConfigureSucceeds,
          NotConfiguring, RequestPush, NoRequest, WorkerChecks, NoTask, WorkerTooLate,
          FrameServed, PictureArrives
  <2> QED
    BY <2>1
<1>2. ASSUME NEW submitted \in Configurations, ConfigureBegin(submitted) PROVE RouteKnown'
  BY <1>2 DEF ConfigureBegin, captureVars
<1>3. CASE FlushStops
  BY <1>3 DEF FlushStops, PreviewStop
<1>4. CASE ConfigureUnsupported
  BY <1>4, NothingWhileConfiguring DEF ConfigureUnsupported, captureVars
<1>5. CASE ConfigureResetsNodes
  BY <1>5, NothingWhileConfiguring DEF ConfigureResetsNodes
<1>6. CASE ConfigureResetFails
  BY <1>6, NothingWhileConfiguring DEF ConfigureResetFails, captureVars
<1>7. CASE ConfigureNoBridge
  BY <1>7, NothingWhileConfiguring DEF ConfigureNoBridge, captureVars
<1>8. CASE ConfigurePublishes
  BY <1>8, NothingWhileConfiguring DEF ConfigurePublishes, captureVars
<1>9. CASE ConfigureNoMemory
  BY <1>9, NothingWhileConfiguring DEF ConfigureNoMemory, captureVars
<1>10. CASE ConfigureParams
  BY <1>10, NothingWhileConfiguring, SparedBefore DEF ConfigureParams, captureVars
<1>11. ASSUME NEW settings \in BOOLEAN, NEW wantsStill \in BOOLEAN, RequestGate(settings, wantsStill)
      PROVE  RouteKnown'
  BY <1>11 DEF RequestGate, captureVars
<1>12. CASE RequestApply
  BY <1>12, SparedBefore DEF RequestApply, captureVars
<1>13. CASE WorkerStartsPreview
  <2>1. Busy /\ ~nativePreview /\ route' = oneShot
    BY <1>13 DEF WorkerStartsPreview
  <2>2. ASSUME RouteSpared', streams.video # NoSize, 2 \in captureNodes
        PROVE  oneShot = NativeVideo(streams)
    <3>1. RouteSpared /\ preview_params_set
      BY <1>13, <2>2 DEF WorkerStartsPreview
    <3>2. SizeIsWritten
      BY <2>2, <3>1 DEF SizeKnown, PhotoSession
    <3>3. oneShot = cached.size
      BY <2>1, <2>2, <3>1, <3>2 DEF SizeIsWritten
    <3> QED
      BY <2>1, <2>2, <3>3 DEF SessionPrepared, Prepared
  <2> QED
    BY <1>13, <2>1, <2>2 DEF WorkerStartsPreview
<1>14. CASE WorkerStartFails
  BY <1>14 DEF WorkerStartFails, NoTask
<1>15. CASE WorkerAppliesStill
  BY <1>15, SparedBefore DEF WorkerAppliesStill, captureVars
<1>16. CASE WorkerTakesPicture
  BY <1>16 DEF WorkerTakesPicture, NoTask, PreviewStop
<1> QED
  BY <1>1, <1>2, <1>3, <1>4, <1>5, <1>6, <1>7, <1>8, <1>9, <1>10, <1>11, <1>12, <1>13,
     <1>14, <1>15, <1>16
     DEF SetupNext

LEMMA PhotosKnownKept ==
  ASSUME SetupShape, Gates, Work, SessionPrepared, StillPreviewed, SizeKnown,
     PhotosKnown, SetupNext
  PROVE  PhotosKnown'
<1> USE DEF PhotosKnown, PhotoSession, Live, Gates, Busy, SetupShape, ConfiguringOK,
   FlagsOK, QueuesOK
<1>1. CASE \/ RequestPush \/ WorkerChecks \/ WorkerTooLate \/ FrameServed
           \/ WorkerTakesPicture \/ PictureArrives
  <2>1. UNCHANGED <<configuring, streams, configured, reconfiguring, photographed,
     spoiled>>
    BY <1>1
       DEF RequestPush, NoRequest, captureVars, clientVars, WorkerChecks, NoTask,
          WorkerTooLate, FrameServed, WorkerTakesPicture, PictureArrives
  <2> QED
    BY <2>1
<1>2. ASSUME NEW submitted \in Configurations, ConfigureBegin(submitted) PROVE PhotosKnown'
  BY <1>2 DEF ConfigureBegin, captureVars
<1>3. CASE FlushRequested
  BY <1>3 DEF FlushRequested, captureVars
<1>4. CASE FlushInvalidates
  BY <1>4 DEF FlushInvalidates, captureVars
<1>5. CASE FlushStops
  BY <1>5 DEF FlushStops
<1>6. CASE ConfigureUnsupported
  BY <1>6, NothingWhileConfiguring
     DEF ConfigureUnsupported, ConfigureFails, captureVars, NotConfiguring
<1>7. CASE ConfigureResetsNodes
  BY <1>7, NothingWhileConfiguring DEF ConfigureResetsNodes, NeedsReset
<1>8. CASE ConfigureResetFails
  BY <1>8, NothingWhileConfiguring
     DEF ConfigureResetFails, ConfigureFails, NeedsReset, captureVars, NotConfiguring
<1>9. CASE ConfigureNoBridge
  BY <1>9, NothingWhileConfiguring
     DEF ConfigureNoBridge, ConfigureFails, captureVars, NotConfiguring
<1>10. CASE ConfigurePublishes
  BY <1>10, NothingWhileConfiguring DEF ConfigurePublishes, captureVars
<1>11. CASE ConfigureNoMemory
  BY <1>11, NothingWhileConfiguring
     DEF ConfigureNoMemory, ConfigureFails, captureVars, NotConfiguring
<1>12. CASE ConfigureParams
  BY <1>12, NothingWhileConfiguring, ApplyDoes DEF ConfigureParams, captureVars, Applied
<1>13. CASE ConfigureSucceeds
  BY <1>13, NothingWhileConfiguring DEF ConfigureSucceeds, NotConfiguring, captureVars
<1>14. ASSUME NEW settings \in BOOLEAN, NEW wantsStill \in BOOLEAN, RequestGate(settings, wantsStill)
      PROVE  PhotosKnown'
  BY <1>14 DEF RequestGate, captureVars, clientVars
<1>15. CASE RequestApply
  BY <1>15, ApplyDoes DEF RequestApply, captureVars, Applied
<1>16. CASE WorkerStartsPreview
  <2>1. Busy
    BY <1>16 DEF WorkerStartsPreview
  <2>2. Live /\ Live'
    BY <1>16, <2>1 DEF WorkerStartsPreview, Work, clientVars
  <2>3. photographed' => photographed \/ streams.video = NoSize
    BY <1>16, <2>1 DEF WorkerStartsPreview, SessionPrepared
  <2>4. "rejected" \notin spoiled' /\ "nodes" \notin spoiled'
          => "rejected" \notin spoiled /\ "nodes" \notin spoiled
    BY <1>16 DEF WorkerStartsPreview
  <2> QED
    BY <1>16, <2>2, <2>3, <2>4 DEF WorkerStartsPreview
<1>17. CASE WorkerStartFails
  BY <1>17 DEF WorkerStartFails, NoTask, clientVars
<1>18. CASE WorkerAppliesStill
  BY <1>18, ApplyDoes DEF WorkerAppliesStill, captureVars, clientVars, Applied
<1> QED
  BY <1>1, <1>2, <1>3, <1>4, <1>5, <1>6, <1>7, <1>8, <1>9, <1>10, <1>11, <1>12, <1>13,
     <1>14, <1>15, <1>16, <1>17, <1>18
     DEF SetupNext

LEMMA SetupInvStarts == ASSUME SetupInit PROVE SetupInv
<1>1. SetupShape
  <2>1. ConfiguringOK
    BY DEF SetupInit, ConfiguringOK, SetupSteps, NotConfiguring
  <2>2. FlagsOK
    BY DEF SetupInit, FlagsOK
  <2>3. QueuesOK
    BY DEF SetupInit, QueuesOK
  <2>4. SensorOK
    BY DEF SetupInit, SensorOK
  <2> QED
    BY <2>1, <2>2, <2>3, <2>4 DEF SetupShape
<1>2. Gates /\ Work /\ ~Busy /\ OneStill /\ StillPreviewed /\ MovieRuns /\ RequestHasSource
  BY DEF SetupInit, NotConfiguring, Gates, Work, Busy, Live, StopsEmpty, Stilling, OneStill,
     StillFrame, StillTask, StillPreviewed, MovieRuns, RequestHasSource
<1>3. BuffersOK /\ SessionPrepared
  BY <1>2 DEF SetupInit, NotConfiguring, BuffersOK, SessionPrepared
<1>4. SizeKnown /\ RouteKnown /\ PhotosKnown
  BY DEF SetupInit, SizeKnown, SizeIsWritten, RouteKnown, PhotosKnown
<1> QED
  BY <1>1, <1>2, <1>3, <1>4 DEF SetupInv

LEMMA SetupInvKept == ASSUME SetupInv, [SetupNext]_setupVars PROVE SetupInv'
<1>1. CASE SetupNext
  <2> USE <1>1 DEF SetupInv
  <2>1. SetupShape'
    BY ConfiguringOKKept, FlagsOKKept, QueuesOKKept, SensorOKKept DEF SetupShape
  <2>2. Gates' /\ Work' /\ BuffersOK'
    BY GatesKept, WorkKept, BuffersOKKept
  <2>3. SessionPrepared' /\ RequestHasSource' /\ StillPreviewed'
    BY SessionPreparedKept, RequestHasSourceKept, StillPreviewedKept
  <2>4. OneStill'
    BY OneStillKept DEF SetupShape
  <2>5. MovieRuns' /\ SizeKnown' /\ RouteKnown' /\ PhotosKnown'
    BY MovieRunsKept, SizeKnownKept, RouteKnownKept, PhotosKnownKept
  <2> QED
    BY <2>1, <2>2, <2>3, <2>4, <2>5
<1>2. CASE UNCHANGED setupVars
  <2> USE <1>2 DEF setupVars, clientVars, bufferVars, workVars, paramVars, captureVars
  <2>1. SetupShape'
    BY DEF SetupInv, SetupShape, ConfiguringOK, FlagsOK, QueuesOK, SensorOK
  <2>2. (Gates /\ Work /\ BuffersOK)'
    BY DEF SetupInv, Gates, Work, Busy, Live, StopsEmpty, BuffersOK, Buffers
  <2>3. (SessionPrepared /\ RequestHasSource)'
    BY DEF SetupInv, SessionPrepared, Busy, Prepared, RequestHasSource
  <2>4. (OneStill /\ StillPreviewed)'
    BY DEF SetupInv, OneStill, StillPreviewed, StillFrame, StillTask
  <2>5. (MovieRuns /\ RouteKnown)'
    BY DEF SetupInv, MovieRuns, RouteKnown, RouteSpared
  <2>6. (SizeKnown /\ PhotosKnown)'
    BY DEF SetupInv, SizeKnown, SizeIsWritten, PhotosKnown, RouteSpared, PhotoSession, Live
  <2> QED
    BY <2>1, <2>2, <2>3, <2>4, <2>5, <2>6 DEF SetupInv
<1> QED
  BY <1>1, <1>2

(* The invariant of every reachable state, for any lists of streams.        *)
LEMMA SetupInvHolds == SetupSpec => []SetupInv
  BY SetupInvStarts, SetupInvKept, PTL DEF SetupSpec

(* The state of a session's set-up has its types (Camera3.h's Camera3Device, *)
(* struct exynos_camera).                                                   *)
THEOREM SetupTypes == SetupSpec => []SetupTypeOK
<1>1. SetupInv => SetupTypeOK
  <2> SUFFICES ASSUME SetupInv PROVE SetupTypeOK
    OBVIOUS
  <2>1. {frames[i] : i \in DOMAIN frames} \subseteq {"frame", "still"}
        /\ {tasks[i] : i \in DOMAIN tasks} \subseteq {"StartPreview", "TakePicture"}
    BY DEF SetupInv, SetupShape, QueuesOK
  <2> QED
    BY <2>1 DEF SetupInv, SetupShape, ConfiguringOK, FlagsOK, QueuesOK, SensorOK,
       SetupSteps, SetupTypeOK
<1> QED
  BY <1>1, SetupInvHolds, PTL

(* A configured session has its buffers and a backend that knows whether it *)
(* records, an unconfigured one keeps no buffer, whichever step failed and  *)
(* whatever late request applied its settings meanwhile.                    *)
THEOREM ConfiguredComplete == SetupSpec => []ConfiguredIsComplete
<1>1. SetupInv => ConfiguredIsComplete
  BY DEF SetupInv, Gates, BuffersOK, Buffers, SessionPrepared, Prepared, ConfiguredIsComplete
<1> QED
  BY <1>1, SetupInvHolds, PTL

(* No preview and no still survives into, or starts during, a change of the *)
(* streams, however late the worker comes with its task.                    *)
THEOREM NothingRuns == SetupSpec => []NothingRunsAcrossReconfigure
<1>1. SetupInv => NothingRunsAcrossReconfigure
  <2> SUFFICES ASSUME SetupInv,
                      \/ configuring.step \in {"check", "publish", "params", "succeed"}
                      \/ configuring.step = "idle" /\ ~configured
               PROVE  ~nativePreview /\ ~movieRuns /\ stillRuns = 0
    BY DEF NothingRunsAcrossReconfigure
  <2> QED
    BY NothingWhileConfiguring DEF SetupInv, Busy
<1> QED
  BY <1>1, SetupInvHolds, PTL

(* The route of a running preview is its session's: sensor mode, size of    *)
(* FIMC2 and inputs, but for the failures that RouteIsReady names.          *)
THEOREM RouteReady == SetupSpec => []RouteIsReady
<1>1. SetupInv => RouteIsReady
  <2> SUFFICES ASSUME SetupInv PROVE RouteIsReady
    OBVIOUS
  <2>1. nativePreview /\ "control" \notin spoiled
          => cached.mode = IF streams.video # NoSize THEN "movie" ELSE "camera"
    BY DEF SetupInv, SessionPrepared, Busy, Prepared
  <2>2. movieRuns => streams.video # NoSize /\ nativePreview /\ 2 \in captureNodes
    BY DEF SetupInv, SessionPrepared, Busy, MovieRuns
  <2>3. spoiled \cap {"control", "start", "unset", "rejected"} = {} => RouteSpared
    BY DEF RouteSpared
  <2>4. movieRuns /\ spoiled \cap {"rejected", "nodes"} = {} => ~photographed
    BY <2>2 DEF SetupInv, PhotosKnown, PhotoSession
  <2> QED
    BY <2>1, <2>2, <2>3, <2>4 DEF SetupInv, RouteKnown, RouteIsReady
<1> QED
  BY <1>1, SetupInvHolds, PTL
-----------------------------------------------------------------------------
(***************************************************************************)
(* Proofs about CameraSettings, for any requests, scans and mishaps.        *)
(* Settings reach the sensor because the cache is true of it whenever the   *)
(* list is not forced, but for what the last forced list had refused and    *)
(* what was crossed: of two threads in params_apply() both have met, and    *)
(* what either may write is crossed before it is written.  A cancel stands  *)
(* because, as long as no scan overlapped another, a thread that is alive   *)
(* keeps started set, and the cancel has seen that flag go.  A still finds  *)
(* its rotation in the list because between its settings and                *)
(* picture_start() only a scan may rewrite the list, and only the focus.    *)
(***************************************************************************)
ListKeys == {"scene", "flash", "focus", "whitebalance", "effect", "exposure", "zoom",
             "quality", "rotation", "gps", "hint"}
ApplySteps == {"none", "list", "test", "read", "compare", "control", "cache"}
(* The exposure is apart: the driver's answer to a negative one is taken    *)
(* for a failure (ExposureReachesSensor).                                   *)
Steady == Controls \ {"exposure"}

(* Shapes, as far as the steps below read them. *)
ListsOK ==
  /\ DOMAIN list = ListKeys /\ DOMAIN photo.string = ListKeys
  /\ DOMAIN applying[Locked].string = ListKeys
PhotoOK == photo = [step |-> photo.step, string |-> photo.string,
                    rotation |-> photo.rotation, gps |-> photo.gps]
ShownOK ==
  /\ paramsSet \in BOOLEAN
  /\ shown = [valid |-> shown.valid, value |-> shown.value, refused |-> shown.refused,
              lost |-> shown.lost, crossed |-> shown.crossed]
PhaseOK(p) ==
  /\ p = [step |-> p.step, string |-> p.string, force |-> p.force, met |-> p.met,
          value |-> p.value, writes |-> p.writes, refused |-> p.refused]
  /\ p.step \in ApplySteps
  /\ p.force \in BOOLEAN /\ p.met \in BOOLEAN /\ p.writes \subseteq Controls
  /\ p.step \in {"none", "list"} => ~p.met
  /\ p.step \in {"none", "list", "test"} => ~p.force
  /\ p.step \notin {"control", "cache"} => p.writes = {}
  /\ p.step \in {"control", "cache"} /\ p.force => Steady \subseteq p.writes
AppliersOK ==
  /\ DOMAIN applying = Appliers
  /\ \A a \in Appliers : PhaseOK(applying[a])
ScansOK ==
  /\ DOMAIN scans = Scans
  /\ \A s \in Scans : applying[s].step # "none" => scans[s] = "apply"
  /\ afFlags = [running |-> afFlags.running, enabled |-> afFlags.enabled,
                started |-> afFlags.started]
  /\ cancel = [waits |-> cancel.waits, stood |-> cancel.stood]
  /\ cancel.stood \in BOOLEAN /\ overlapped \in BOOLEAN

(* Two threads in params_apply() have met, and cross what either may write. *)
MetIsMutual ==
  \A a, b \in Appliers : a # b /\ Inside(a) /\ Inside(b) => applying[a].met
MetAreCrossed ==
  \A a \in Appliers : applying[a].met => Claims(applying[a]) \subseteq shown.crossed

(* What is written and not yet cached, and who has read the list.           *)
Storing(a, c) ==
  applying[a].step = "cache" /\ c \in applying[a].writes \ applying[a].refused
HasRead(a) == applying[a].step \in {"compare", "control", "cache"}

CacheIsTrue ==
  paramsSet /\ (\A a \in Appliers : ~applying[a].force) =>
    \A c \in Steady \ (shown.crossed \cup shown.lost) :
      (\A a \in Appliers : ~Storing(a, c)) => sensorControl[c] = cachedControl[c]
StoresAreTrue ==
  \A a \in Appliers : ~applying[a].met /\ (shown.valid \/ paramsSet) =>
    \A c \in Steady : Storing(a, c) => sensorControl[c] = applying[a].value[c]
SkippedAreTrue ==
  LET p == applying[Locked] IN
  p.step \in {"control", "cache"} /\ ~p.force =>
    \A c \in Steady \ (p.writes \cup shown.crossed \cup shown.lost) :
      sensorControl[c] = p.value[c]
LockedIsForced ==
  LET p == applying[Locked] IN
  p.step \notin {"none", "list", "test"} => paramsSet \/ (p.step = "read" /\ p.force)

(* The list, what was read of it and what was shown are the same values.    *)
ValuesAgree ==
  /\ shown.valid => ~Inside(Locked) /\ Value(list) = shown.value
  /\ HasRead(Locked) => applying[Locked].value = Value(list)
  /\ \A s \in Scans : shown.valid /\ HasRead(s) /\ ~applying[s].met =>
                        applying[s].value = shown.value

SensorKnown ==
  /\ ShownOK /\ AppliersOK /\ MetIsMutual /\ MetAreCrossed
  /\ CacheIsTrue /\ StoresAreTrue /\ SkippedAreTrue /\ LockedIsForced
  /\ ValuesAgree /\ SettingsReachSensor

ScansAreKnown ==
  ~overlapped =>
    /\ \A s, t \in Scans : Alive(s) /\ Alive(t) => s = t
    /\ (\E s \in Scans : Alive(s)) => afFlags.started
    /\ cancel.stood => Idle /\ afState = "INACTIVE"

RotationWaits ==
  photo.step = "start" =>
    photo.string.rotation = IF applying[Locked].step = "list"
                            THEN applying[Locked].string.rotation ELSE list.rotation
RotationKnown == RotationWaits /\ RotationOfStill

SettingsInv ==
  ListsOK /\ PhotoOK /\ SensorKnown /\ ScansOK /\ ScansAreKnown /\ RotationKnown

(* Where an applier is decides whether it is inside.                        *)
LEMMA OutsideIsFresh ==
  ASSUME AppliersOK, NEW a \in Appliers, ~Inside(a)
  PROVE  /\ ~applying[a].met /\ ~applying[a].force /\ applying[a].writes = {}
         /\ \A c : ~Storing(a, c)
  BY DEF AppliersOK, PhaseOK, Inside, Storing

LEMMA MetIsInside ==
  ASSUME AppliersOK, MetIsMutual, MetAreCrossed, NEW a \in Appliers, NEW b \in Appliers,
         a # b, Inside(a), Inside(b)
  PROVE  /\ applying[a].met /\ applying[b].met
         /\ Claims(applying[a]) \subseteq shown.crossed
         /\ Claims(applying[b]) \subseteq shown.crossed
  BY DEF MetIsMutual, MetAreCrossed

LEMMA ClaimsOf ==
  ASSUME AppliersOK, NEW a \in Appliers
  PROVE  /\ applying[a].writes \subseteq Claims(applying[a])
         /\ applying[a].force => Claims(applying[a]) = Controls
  BY DEF AppliersOK, PhaseOK, Claims

(* What is in the list of a request's controls is not in the focus.         *)
LEMMA FocusIsNoValue ==
  ASSUME NEW l, DOMAIN l = ListKeys, NEW string
  PROVE  /\ Value([l EXCEPT !.focus = string]) = Value(l)
         /\ DOMAIN [l EXCEPT !.focus = string] = ListKeys
         /\ [l EXCEPT !.focus = string].rotation = l.rotation
  BY DEF Value, ListKeys

(* The steps of params_apply(), field by field.                             *)
LEMMA PhaseFields ==
  ASSUME NEW p, PhaseOK(p), NEW x, NEW y
  PROVE  /\ [p EXCEPT !.met = x] =
              [step |-> p.step, string |-> p.string, force |-> p.force, met |-> x,
               value |-> p.value, writes |-> p.writes, refused |-> p.refused]
         /\ [p EXCEPT !.value = x] =
              [step |-> p.step, string |-> p.string, force |-> p.force, met |-> p.met,
               value |-> x, writes |-> p.writes, refused |-> p.refused]
         /\ [p EXCEPT !.step = y, !.force = x] =
              [step |-> y, string |-> p.string, force |-> x, met |-> p.met,
               value |-> p.value, writes |-> p.writes, refused |-> p.refused]
         /\ [p EXCEPT !.step = y, !.value = x] =
              [step |-> y, string |-> p.string, force |-> p.force, met |-> p.met,
               value |-> x, writes |-> p.writes, refused |-> p.refused]
         /\ [p EXCEPT !.step = y, !.writes = x] =
              [step |-> y, string |-> p.string, force |-> p.force, met |-> p.met,
               value |-> p.value, writes |-> x, refused |-> p.refused]
<1>1. PICK q : q = [p EXCEPT !.step = y]
  OBVIOUS
<1>2. q = [step |-> y, string |-> p.string, force |-> p.force, met |-> p.met,
           value |-> p.value, writes |-> p.writes, refused |-> p.refused]
  BY <1>1 DEF PhaseOK
<1>3. [p EXCEPT !.met = x] =
     [step |-> p.step, string |-> p.string, force |-> p.force, met |-> x,
      value |-> p.value, writes |-> p.writes, refused |-> p.refused]
  BY DEF PhaseOK
<1>4. [p EXCEPT !.value = x] =
     [step |-> p.step, string |-> p.string, force |-> p.force, met |-> p.met,
      value |-> x, writes |-> p.writes, refused |-> p.refused]
  BY DEF PhaseOK
<1>5. [p EXCEPT !.step = y, !.force = x] =
     [step |-> y, string |-> p.string, force |-> x, met |-> p.met,
      value |-> p.value, writes |-> p.writes, refused |-> p.refused]
  <2>1. [p EXCEPT !.step = y, !.force = x] = [q EXCEPT !.force = x]
    BY <1>1
  <2> QED
    BY <1>2, <2>1
<1>6. [p EXCEPT !.step = y, !.value = x] =
     [step |-> y, string |-> p.string, force |-> p.force, met |-> p.met,
      value |-> x, writes |-> p.writes, refused |-> p.refused]
  <2>1. [p EXCEPT !.step = y, !.value = x] = [q EXCEPT !.value = x]
    BY <1>1
  <2> QED
    BY <1>2, <2>1
<1>7. [p EXCEPT !.step = y, !.writes = x] =
     [step |-> y, string |-> p.string, force |-> p.force, met |-> p.met,
      value |-> p.value, writes |-> x, refused |-> p.refused]
  <2>1. [p EXCEPT !.step = y, !.writes = x] = [q EXCEPT !.writes = x]
    BY <1>1
  <2> QED
    BY <1>2, <2>1
<1> QED
  BY <1>3, <1>4, <1>5, <1>6, <1>7

LEMMA EnteredGives ==
  ASSUME AppliersOK, NEW a \in Appliers, NEW b \in Appliers
  PROVE  /\ PhaseOK(Entered(a)[b])
         /\ a = b => /\ Entered(a)[b].step = "test" /\ Entered(a)[b].string = PresetList
                     /\ Others(a) # {} => Entered(a)[b].met
         /\ a # b => /\ Entered(a)[b].step = applying[b].step
                     /\ Entered(a)[b].string = applying[b].string
                     /\ Entered(a)[b].force = applying[b].force
                     /\ IF Inside(b) THEN Entered(a)[b].met
                        ELSE Entered(a)[b].met = applying[b].met
                     /\ Entered(a)[b].value = applying[b].value
                     /\ Entered(a)[b].writes = applying[b].writes
                     /\ Entered(a)[b].refused = applying[b].refused
<1> USE DEF AppliersOK
<1>1. CASE a = b
  <2>1. Entered(a)[b] = [step |-> "test", string |-> PresetList, force |-> FALSE,
                         met |-> Others(a) # {}, value |-> Value(PresetList),
                         writes |-> {}, refused |-> {}]
    BY <1>1 DEF Entered, NotApplying
  <2>2. CASE Others(a) # {}
    <3>1. Entered(a)[b] = [step |-> "test", string |-> PresetList, force |-> FALSE,
                           met |-> TRUE, value |-> Value(PresetList),
                           writes |-> {}, refused |-> {}]
      BY <2>1, <2>2
    <3> QED
      BY <1>1, <3>1 DEF PhaseOK, ApplySteps
  <2>3. CASE Others(a) = {}
    <3>1. Entered(a)[b] = [step |-> "test", string |-> PresetList, force |-> FALSE,
                           met |-> FALSE, value |-> Value(PresetList),
                           writes |-> {}, refused |-> {}]
      BY <2>1, <2>3
    <3> QED
      BY <1>1, <2>3, <3>1 DEF PhaseOK, ApplySteps
  <2> QED
    BY <2>2, <2>3
<1>2. CASE a # b /\ Inside(b)
  <2>1. Entered(a)[b] = [applying[b] EXCEPT !.met = TRUE]
    BY <1>2 DEF Entered
  <2>2. PhaseOK(applying[b])
    OBVIOUS
  <2>3. Entered(a)[b] = [step |-> applying[b].step, string |-> applying[b].string,
                         force |-> applying[b].force, met |-> TRUE,
                         value |-> applying[b].value, writes |-> applying[b].writes,
                         refused |-> applying[b].refused]
    BY <2>1, <2>2, PhaseFields
  <2>4. PhaseOK(Entered(a)[b])
    BY <1>2, <2>2, <2>3 DEF PhaseOK, Inside
  <2> QED
    BY <1>2, <2>3, <2>4
<1>3. CASE a # b /\ ~Inside(b)
  <2>1. Entered(a)[b] = applying[b]
    BY <1>3 DEF Entered
  <2> QED
    BY <1>3, <2>1 DEF PhaseOK
<1> QED
  BY <1>1, <1>2, <1>3

(* A thread that enters params_apply() meets all who are inside.            *)
LEMMA EnteringMeets ==
  ASSUME AppliersOK, NEW a \in Appliers, DOMAIN applying' = Appliers,
         \A b \in Appliers :
           /\ PhaseOK(applying'[b])
           /\ applying'[b].step = Entered(a)[b].step
           /\ applying'[b].force = Entered(a)[b].force
           /\ applying'[b].met = Entered(a)[b].met
           /\ applying'[b].writes = Entered(a)[b].writes
           /\ applying'[b].refused = Entered(a)[b].refused,
         shown'.crossed = CrossedAll(a)
  PROVE  AppliersOK' /\ MetIsMutual' /\ MetAreCrossed'
<1>1. AppliersOK'
  BY DEF AppliersOK
<1>2. MetIsMutual'
  <2> SUFFICES ASSUME NEW b \in Appliers, NEW d \in Appliers, b # d, Inside(b)', Inside(d)'
               PROVE  applying'[b].met
    BY DEF MetIsMutual
  <2>1. CASE b = a
    <3>1. Entered(a)[d].step = applying[d].step
      BY <2>1, EnteredGives
    <3>2. d \in Others(a)
      BY <2>1, <3>1 DEF Others, Inside
    <3> QED
      BY <2>1, <3>2, EnteredGives
  <2>2. CASE b # a
    <3>1. Entered(a)[b].step = applying[b].step
      BY <2>2, EnteredGives
    <3>2. Inside(b)
      BY <3>1 DEF Inside
    <3> QED
      BY <2>2, <3>2, EnteredGives
  <2> QED
    BY <2>1, <2>2
<1>3. MetAreCrossed'
  <2> SUFFICES ASSUME NEW b \in Appliers, applying'[b].met
               PROVE  Claims(applying'[b]) \subseteq shown'.crossed
    BY DEF MetAreCrossed
  <2>1. CASE b = a
    <3>1. Claims(applying'[b]) = {}
      BY <2>1, <1>1, EnteredGives DEF Claims, AppliersOK, PhaseOK
    <3> QED
      BY <3>1
  <2>2. CASE b # a
    <3>1. Inside(b)
      BY <2>2, EnteredGives, OutsideIsFresh
    <3>2. Claims(applying'[b]) = Claims(applying[b])
      BY <2>2, EnteredGives DEF Claims
    <3>3. b \in Others(a) /\ Claims(applying[b]) \subseteq Controls
      BY <2>2, <3>1 DEF Others, Claims, AppliersOK, PhaseOK
    <3> QED
      BY <3>2, <3>3 DEF CrossedAll
  <2> QED
    BY <2>1, <2>2
<1> QED
  BY <1>1, <1>2, <1>3

LEMMA EnteringKeeps ==
  ASSUME SensorKnown, NEW a \in Appliers, ~Inside(a), DOMAIN applying' = Appliers,
         \A b \in Appliers :
           /\ PhaseOK(applying'[b])
           /\ applying'[b].step = Entered(a)[b].step
           /\ applying'[b].force = Entered(a)[b].force
           /\ applying'[b].met = Entered(a)[b].met
           /\ applying'[b].writes = Entered(a)[b].writes
           /\ applying'[b].refused = Entered(a)[b].refused
           /\ applying[b].step # "compare" => applying'[b].value = Entered(a)[b].value,
         shown'.crossed = CrossedAll(a), shown'.lost = shown.lost,
         shown'.valid => shown.valid /\ shown'.value = shown.value
                                     /\ shown'.refused = shown.refused,
         UNCHANGED <<cachedControl, sensorControl, paramsSet>>
  PROVE  /\ AppliersOK' /\ MetIsMutual' /\ MetAreCrossed'
         /\ CacheIsTrue' /\ StoresAreTrue' /\ SkippedAreTrue' /\ LockedIsForced'
         /\ SettingsReachSensor'
<1> USE DEF SensorKnown
<1>1. AppliersOK' /\ MetIsMutual' /\ MetAreCrossed'
  BY EnteringMeets
<1>2. ASSUME NEW c \in Controls, c \notin shown'.crossed PROVE c \notin shown.crossed
  BY <1>2 DEF CrossedAll
<1>3. \A b \in Appliers : \A c : Storing(b, c) <=> Storing(b, c)'
  <2> SUFFICES ASSUME NEW b \in Appliers, NEW c PROVE Storing(b, c) <=> Storing(b, c)'
    OBVIOUS
  <2>1. CASE b = a
    <3>1. applying'[b].step = "test"
      BY <2>1, EnteredGives
    <3> QED
      BY <2>1, <3>1, OutsideIsFresh DEF Storing
  <2>2. CASE b # a
    BY <2>2, EnteredGives DEF Storing
  <2> QED
    BY <2>1, <2>2
<1>4. \A b \in Appliers : applying'[b].force = applying[b].force
  <2> SUFFICES ASSUME NEW b \in Appliers PROVE applying'[b].force = applying[b].force
    OBVIOUS
  <2>1. CASE b = a
    <3>1. applying'[b].step = "test" /\ PhaseOK(applying'[b])
      BY <2>1, EnteredGives
    <3>2. applying'[b].force = FALSE
      BY <3>1 DEF PhaseOK
    <3>3. applying[b].force = FALSE
      BY <2>1, OutsideIsFresh DEF PhaseOK, AppliersOK
    <3> QED
      BY <3>2, <3>3
  <2>2. CASE b # a
    BY <2>2, EnteredGives
  <2> QED
    BY <2>1, <2>2
<1>5. CacheIsTrue'
  BY <1>2, <1>3, <1>4 DEF CacheIsTrue, Steady
<1>6. StoresAreTrue'
  <2> SUFFICES ASSUME NEW b \in Appliers, ~applying'[b].met, NEW c, Storing(b, c)'
               PROVE  FALSE
    BY DEF StoresAreTrue
  <2>1. applying[b].step = "cache"
    BY <1>3 DEF Storing
  <2>2. b # a /\ Inside(b)
    BY <2>1 DEF Inside
  <2> QED
    BY <2>2, EnteredGives
<1>7. Locked \in Appliers
  BY DEF Appliers
<1>8. CASE a = Locked
  <2>1. applying'[Locked].step = "test"
    BY <1>7, <1>8, EnteredGives
  <2> QED
    BY <1>1, <1>2, <1>5, <1>6, <2>1 DEF SkippedAreTrue, LockedIsForced, SettingsReachSensor
<1>9. CASE a # Locked
  <2>1. /\ applying'[Locked].step = applying[Locked].step
        /\ applying'[Locked].force = applying[Locked].force
        /\ applying'[Locked].writes = applying[Locked].writes
        /\ applying[Locked].step # "compare" =>
             applying'[Locked].value = applying[Locked].value
    BY <1>7, <1>9, EnteredGives
  <2>2. SkippedAreTrue'
    BY <1>2, <2>1 DEF SkippedAreTrue, Steady
  <2>3. LockedIsForced'
    BY <2>1 DEF LockedIsForced
  <2> QED
    BY <1>1, <1>2, <1>5, <1>6, <2>2, <2>3 DEF SettingsReachSensor
<1> QED
  BY <1>8, <1>9

(* A list that is being read when another is written may be torn.           *)
LEMMA ListWrittenGives ==
  ASSUME AppliersOK, ListWritten, NEW b \in Appliers
  PROVE  /\ DOMAIN applying' = Appliers
         /\ PhaseOK(applying'[b])
         /\ applying'[b].step = Entered(Locked)[b].step
         /\ applying'[b].string = Entered(Locked)[b].string
         /\ applying'[b].force = Entered(Locked)[b].force
         /\ applying'[b].met = Entered(Locked)[b].met
         /\ applying'[b].writes = Entered(Locked)[b].writes
         /\ applying'[b].refused = Entered(Locked)[b].refused
         /\ applying[b].step # "compare" => applying'[b].value = Entered(Locked)[b].value
<1>1. PICK names : applying' = [a \in Appliers |->
                     IF applying[a].step = "compare" THEN Torn(Entered(Locked)[a], names)
                                                     ELSE Entered(Locked)[a]]
  BY DEF ListWritten
<1>2. Locked \in Appliers
  BY DEF Appliers
<1>3. CASE applying[b].step # "compare"
  BY <1>1, <1>2, <1>3, EnteredGives
<1>4. CASE applying[b].step = "compare"
  <2>1. PICK p : p = Entered(Locked)[b]
    OBVIOUS
  <2>2. PICK v : applying'[b] = [p EXCEPT !.value = v]
    BY <1>1, <1>4, <2>1 DEF Torn
  <2>3. PhaseOK(p)
    BY <1>2, <2>1, EnteredGives
  <2>4. applying'[b] = [step |-> p.step, string |-> p.string, force |-> p.force,
                        met |-> p.met, value |-> v, writes |-> p.writes,
                        refused |-> p.refused]
    BY <2>2, <2>3, PhaseFields
  <2> QED
    BY <1>1, <1>4, <2>1, <2>3, <2>4 DEF PhaseOK
<1> QED
  BY <1>3, <1>4

LEMMA ListWrittenKeeps ==
  ASSUME SensorKnown, ListWritten
  PROVE  SensorKnown'
<1> USE DEF SensorKnown
<1>1. Locked \in Appliers /\ ~Inside(Locked) /\ applying[Locked].step = "list"
  BY DEF Appliers, ListWritten, Inside
<1>2. ASSUME NEW b \in Appliers
      PROVE  /\ PhaseOK(applying'[b])
             /\ applying'[b].step = Entered(Locked)[b].step
             /\ applying'[b].force = Entered(Locked)[b].force
             /\ applying'[b].met = Entered(Locked)[b].met
             /\ applying'[b].writes = Entered(Locked)[b].writes
             /\ applying'[b].refused = Entered(Locked)[b].refused
             /\ applying[b].step # "compare" => applying'[b].value = Entered(Locked)[b].value
  BY ListWrittenGives
<1>3. DOMAIN applying' = Appliers
  BY <1>1, ListWrittenGives
<1>4. shown' = [valid |-> FALSE, value |-> Value(PresetList), refused |-> {},
                lost |-> shown.lost, crossed |-> CrossedAll(Locked)]
  <2>1. PICK u : u = Unshown
    OBVIOUS
  <2>2. u = [valid |-> FALSE, value |-> Value(PresetList), refused |-> {},
             lost |-> shown.lost, crossed |-> shown.crossed]
    BY <2>1 DEF Unshown, ShownOK
  <2>3. shown' = [u EXCEPT !.crossed = CrossedAll(Locked)]
    BY <2>1 DEF ListWritten
  <2> QED
    BY <2>2, <2>3
<1>5. UNCHANGED <<cachedControl, sensorControl, paramsSet>>
  BY DEF ListWritten
<1>6. /\ AppliersOK' /\ MetIsMutual' /\ MetAreCrossed'
      /\ CacheIsTrue' /\ StoresAreTrue' /\ SkippedAreTrue' /\ LockedIsForced'
      /\ SettingsReachSensor'
  <2> HIDE DEF SensorKnown
  <2> QED
    BY <1>1, <1>2, <1>3, <1>4, <1>5, EnteringKeeps
<1>7. ShownOK' /\ ValuesAgree'
  <2>1. applying'[Locked].step = "test"
    BY <1>1, <1>2, EnteredGives
  <2> QED
    BY <1>4, <1>5, <2>1 DEF ShownOK, ValuesAgree, HasRead
<1> QED
  BY <1>6, <1>7

LEMMA ScanPreparesKeeps ==
  ASSUME SensorKnown, ListsOK, ScansOK, NEW s \in Scans, ScanPrepares(s)
  PROVE  SensorKnown'
<1> USE DEF SensorKnown
<1>1. CASE UNCHANGED <<list, applying, shown>>
  <2>1. UNCHANGED <<cachedControl, sensorControl, paramsSet>>
    BY DEF ScanPrepares
  <2> QED
    BY <1>1, <2>1
       DEF ShownOK, AppliersOK, MetIsMutual, MetAreCrossed, Inside, Storing, HasRead,
           CacheIsTrue, StoresAreTrue, SkippedAreTrue, LockedIsForced, ValuesAgree,
           SettingsReachSensor
<1>2. CASE /\ list' = [list EXCEPT !.focus = "auto"]
           /\ applying' = Entered(s)
           /\ shown' = [shown EXCEPT !.crossed = CrossedAll(s)]
  <2>1. /\ s \in Appliers /\ Locked \in Appliers /\ s # Locked /\ ~Inside(s)
        /\ Scans \subseteq Appliers
    BY ScansAssumption DEF ScanPrepares, Appliers, ScansOK, Inside
  <2>2. shown' = [valid |-> shown.valid, value |-> shown.value, refused |-> shown.refused,
                  lost |-> shown.lost, crossed |-> CrossedAll(s)]
    BY <1>2 DEF ShownOK
  <2>3. UNCHANGED <<cachedControl, sensorControl, paramsSet>>
    BY DEF ScanPrepares
  <2>4. /\ AppliersOK' /\ MetIsMutual' /\ MetAreCrossed'
        /\ CacheIsTrue' /\ StoresAreTrue' /\ SkippedAreTrue' /\ LockedIsForced'
        /\ SettingsReachSensor'
    <3>1. DOMAIN applying' = Appliers
      BY <1>2 DEF Entered
    <3>2. \A b \in Appliers : PhaseOK(applying'[b])
      BY <1>2, <2>1, EnteredGives
    <3> HIDE DEF SensorKnown
    <3> QED
      BY <1>2, <2>1, <2>2, <2>3, <3>1, <3>2, EnteringKeeps
  <2>5. Value(list') = Value(list)
    BY <1>2, FocusIsNoValue DEF ListsOK
  <2>6. ASSUME NEW b \in Appliers, b # s
        PROVE  /\ applying'[b].step = applying[b].step
               /\ applying'[b].value = applying[b].value
               /\ applying[b].met => applying'[b].met
    <3>1. CASE Inside(b)
      BY <1>2, <2>1, <2>6, <3>1, EnteredGives
    <3>2. CASE ~Inside(b)
      BY <1>2, <2>1, <2>6, <3>2, EnteredGives
    <3> QED
      BY <3>1, <3>2
  <2>7. applying'[s].step = "test"
    BY <1>2, <2>1, EnteredGives
  <2>8. ValuesAgree'
    BY <2>1, <2>2, <2>5, <2>6, <2>7 DEF ValuesAgree, HasRead, Inside
  <2> QED
    BY <2>2, <2>3, <2>4, <2>8 DEF ShownOK
<1> QED
  BY <1>1, <1>2 DEF ScanPrepares

(* A step inside params_apply(): nobody is met by it, and until what it      *)
(* wrote is to be cached nobody alone has anything to cache.                *)
LEMMA SteppingMeets ==
  ASSUME AppliersOK, MetIsMutual, MetAreCrossed, NEW a \in Appliers, Inside(a),
         NEW p, PhaseOK(p), p.met = applying[a].met, p.step \notin {"none", "list"},
         applying' = [applying EXCEPT ![a] = p],
         p.met => Claims(p) \subseteq shown'.crossed,
         shown.crossed \subseteq shown'.crossed
  PROVE  /\ AppliersOK' /\ MetIsMutual' /\ MetAreCrossed'
         /\ applying'[a] = p
         /\ \A b \in Appliers : b # a => applying'[b] = applying[b]
         /\ p.step # "cache" => StoresAreTrue'
<1>1. /\ DOMAIN applying' = Appliers /\ applying'[a] = p
      /\ \A b \in Appliers : b # a => applying'[b] = applying[b]
  BY DEF AppliersOK
<1>2. AppliersOK'
  BY <1>1 DEF AppliersOK
<1>3. \A b \in Appliers : Inside(b) <=> Inside(b)'
  BY <1>1 DEF Inside
<1>4. \A b \in Appliers : applying'[b].met = applying[b].met
  BY <1>1
<1>5. MetIsMutual'
  BY <1>3, <1>4 DEF MetIsMutual
<1>6. MetAreCrossed'
  <2> SUFFICES ASSUME NEW b \in Appliers, applying'[b].met
               PROVE  Claims(applying'[b]) \subseteq shown'.crossed
    BY DEF MetAreCrossed
  <2>1. CASE b = a
    BY <1>1, <2>1
  <2>2. CASE b # a
    BY <1>1, <2>2 DEF MetAreCrossed
  <2> QED
    BY <2>1, <2>2
<1>7. ASSUME p.step # "cache" PROVE StoresAreTrue'
  <2> SUFFICES ASSUME NEW b \in Appliers, ~applying'[b].met, NEW c, Storing(b, c)'
               PROVE  FALSE
    BY DEF StoresAreTrue
  <2>1. b # a /\ Inside(b) /\ ~applying[b].met
    BY <1>1, <1>4, <1>7 DEF Storing, Inside
  <2> QED
    BY <2>1 DEF MetIsMutual
<1> QED
  BY <1>1, <1>2, <1>5, <1>6, <1>7

(* What StepsTo does to shown. *)
LEMMA StepsToGives ==
  ASSUME AppliersOK, ShownOK, NEW a \in Appliers, NEW p, StepsTo(a, p)
  PROVE  /\ applying' = [applying EXCEPT ![a] = p]
         /\ shown' = [valid |-> shown.valid, value |-> shown.value,
                      refused |-> shown.refused, lost |-> shown.lost,
                      crossed |-> shown.crossed \cup CrossedBy(p)]
         /\ p.met => Claims(p) \subseteq shown'.crossed
         /\ shown.crossed \subseteq shown'.crossed
<1>1. applying' = [applying EXCEPT ![a] = p]
  BY DEF StepsTo
<1>2. shown' = [valid |-> shown.valid, value |-> shown.value, refused |-> shown.refused,
                lost |-> shown.lost, crossed |-> shown.crossed \cup CrossedBy(p)]
  BY DEF StepsTo, ShownOK
<1> QED
  BY <1>1, <1>2 DEF CrossedBy

LEMMA ApplyTestsKeeps ==
  ASSUME SensorKnown, NEW a \in Appliers, ApplyTests(a)
  PROVE  SensorKnown'
<1> USE DEF SensorKnown
<1>1. PICK p : p = applying[a]
  OBVIOUS
<1>2. PhaseOK(p) /\ p.step = "test"
  BY <1>1 DEF AppliersOK, ApplyTests
<1>3. PICK q : q = [p EXCEPT !.step = "read", !.force = ~paramsSet]
  OBVIOUS
<1>4. q = [step |-> "read", string |-> p.string, force |-> ~paramsSet, met |-> p.met,
           value |-> p.value, writes |-> p.writes, refused |-> p.refused]
  BY <1>2, <1>3, PhaseFields
<1>5. PhaseOK(q) /\ q.step = "read" /\ q.met = p.met
  <2>1. (~paramsSet) \in BOOLEAN
    BY DEF ShownOK
  <2> QED
    BY <1>2, <1>4, <2>1 DEF PhaseOK, ApplySteps
<1>6. paramsSet => ~q.force
  BY <1>4
<1>7. ~paramsSet => q.force
  BY <1>4
<1>8. StepsTo(a, q)
  BY <1>1, <1>3 DEF ApplyTests
<1>9. UNCHANGED <<list, cachedControl, sensorControl, paramsSet>>
  BY DEF ApplyTests
<1>10. /\ AppliersOK' /\ MetIsMutual' /\ MetAreCrossed' /\ StoresAreTrue'
       /\ applying'[a] = q
       /\ \A b \in Appliers : b # a => applying'[b] = applying[b]
  <2>1. Inside(a)
    BY <1>1, <1>2 DEF Inside
  <2> QED
    BY <1>1, <1>5, <1>8, <2>1, StepsToGives, SteppingMeets
<1>11. /\ shown' = [valid |-> shown.valid, value |-> shown.value, refused |-> shown.refused,
                    lost |-> shown.lost, crossed |-> shown.crossed \cup CrossedBy(q)]
  BY <1>8, StepsToGives
<1>12. CacheIsTrue'
  <2> SUFFICES ASSUME paramsSet, \A b \in Appliers : ~applying'[b].force,
                      NEW c \in Steady \ (shown'.crossed \cup shown'.lost),
                      \A b \in Appliers : ~Storing(b, c)'
               PROVE  sensorControl[c] = cachedControl[c]
    BY <1>9 DEF CacheIsTrue
  <2>1. \A b \in Appliers : ~applying[b].force /\ ~Storing(b, c)
    BY <1>1, <1>2, <1>10 DEF PhaseOK, Storing
  <2>2. c \in Steady \ (shown.crossed \cup shown.lost)
    BY <1>11
  <2> QED
    BY <2>1, <2>2 DEF CacheIsTrue
<1>13. SkippedAreTrue' /\ LockedIsForced'
  <2>1. Locked \in Appliers
    BY DEF Appliers
  <2>2. CASE a = Locked
    BY <1>5, <1>7, <1>9, <1>10, <2>2 DEF SkippedAreTrue, LockedIsForced
  <2>3. CASE a # Locked
    BY <1>9, <1>10, <1>11, <2>1, <2>3 DEF SkippedAreTrue, LockedIsForced
  <2> QED
    BY <2>2, <2>3
<1>14. ValuesAgree' /\ SettingsReachSensor' /\ ShownOK'
  <2>1. \A b \in Appliers : Inside(b)' <=> Inside(b)
    BY <1>1, <1>2, <1>5, <1>10 DEF Inside
  <2>2. \A b \in Appliers : HasRead(b)' => HasRead(b) /\ applying'[b] = applying[b]
    BY <1>5, <1>10 DEF HasRead
  <2>3. Locked \in Appliers /\ Scans \subseteq Appliers
    BY DEF Appliers
  <2>4. ValuesAgree'
    BY <1>9, <1>11, <2>1, <2>2, <2>3 DEF ValuesAgree
  <2> QED
    BY <1>9, <1>11, <2>4 DEF SettingsReachSensor, ShownOK
<1> QED
  BY <1>10, <1>12, <1>13, <1>14

LEMMA ApplyReadsKeeps ==
  ASSUME SensorKnown, NEW a \in Appliers, ApplyReads(a)
  PROVE  SensorKnown'
<1> USE DEF SensorKnown
<1>1. PICK p : p = applying[a]
  OBVIOUS
<1>2. PhaseOK(p) /\ p.step = "read"
  BY <1>1 DEF AppliersOK, ApplyReads
<1>3. PICK q : q = [p EXCEPT !.step = "compare", !.value = Value(list)]
  OBVIOUS
<1>4. q = [step |-> "compare", string |-> p.string, force |-> p.force, met |-> p.met,
           value |-> Value(list), writes |-> p.writes, refused |-> p.refused]
  BY <1>2, <1>3, PhaseFields
<1>5. PhaseOK(q)
  BY <1>2, <1>4 DEF PhaseOK, ApplySteps
<1>6. applying' = [applying EXCEPT ![a] = q]
  BY <1>1, <1>3 DEF ApplyReads
<1>7. /\ UNCHANGED <<list, cachedControl, sensorControl, shown>>
      /\ paramsSet' = (paramsSet \/ p.force)
  BY <1>1 DEF ApplyReads
<1>8. Inside(a)
  BY <1>1, <1>2 DEF Inside
<1>9. /\ AppliersOK' /\ MetIsMutual' /\ MetAreCrossed' /\ StoresAreTrue'
      /\ applying'[a] = q
      /\ \A b \in Appliers : b # a => applying'[b] = applying[b]
  <2>1. p.met => Claims(q) \subseteq shown'.crossed
    <3>1. Claims(q) = Claims(p)
      BY <1>4 DEF Claims
    <3> QED
      BY <1>1, <1>7, <3>1 DEF MetAreCrossed
  <2>2. /\ q.met = applying[a].met /\ q.step \notin {"none", "list"} /\ q.step # "cache"
        /\ q.met => Claims(q) \subseteq shown'.crossed
        /\ shown.crossed \subseteq shown'.crossed
    BY <1>1, <1>4, <1>7, <2>1
  <2> QED
    BY <1>5, <1>6, <1>8, <2>2, SteppingMeets
<1>10. CacheIsTrue'
  <2> SUFFICES ASSUME paramsSet', \A b \in Appliers : ~applying'[b].force,
                      NEW c \in Steady \ (shown.crossed \cup shown.lost),
                      \A b \in Appliers : ~Storing(b, c)'
               PROVE  sensorControl[c] = cachedControl[c]
    BY <1>7 DEF CacheIsTrue
  <2>1. \A b \in Appliers : ~applying[b].force /\ ~Storing(b, c)
    BY <1>1, <1>2, <1>4, <1>9 DEF Storing
  <2>2. paramsSet
    BY <1>1, <1>7, <2>1
  <2> QED
    BY <2>1, <2>2 DEF CacheIsTrue
<1>11. Locked \in Appliers /\ Scans \subseteq Appliers
  BY DEF Appliers
<1>12. SkippedAreTrue' /\ LockedIsForced'
  <2>1. CASE a = Locked
    <3>1. paramsSet \/ p.force
      BY <1>1, <1>2, <2>1 DEF LockedIsForced
    <3>2. paramsSet'
      BY <1>7, <3>1
    <3>3. applying'[Locked].step = "compare"
      BY <1>4, <1>9, <2>1
    <3> QED
      BY <3>2, <3>3 DEF SkippedAreTrue, LockedIsForced
  <2>2. CASE a # Locked
    BY <1>7, <1>9, <1>11, <2>2 DEF SkippedAreTrue, LockedIsForced
  <2> QED
    BY <2>1, <2>2
<1>13. ValuesAgree'
  <2>1. \A b \in Appliers : Inside(b)' <=> Inside(b)
    BY <1>4, <1>8, <1>9 DEF Inside
  <2>2. CASE a = Locked
    <3>1. ~shown.valid
      BY <1>8, <2>2 DEF ValuesAgree
    <3> QED
      BY <1>4, <1>7, <1>9, <2>2, <3>1 DEF ValuesAgree
  <2>3. CASE a # Locked
    <3>1. shown.valid => ~Inside(Locked)' /\ Value(list) = shown.value
      BY <1>11, <2>1 DEF ValuesAgree
    <3>2. HasRead(Locked)' => applying'[Locked].value = Value(list)
      BY <1>9, <1>11, <2>3 DEF ValuesAgree, HasRead
    <3>3. ASSUME NEW s \in Scans, shown.valid, HasRead(s)', ~applying'[s].met
          PROVE  applying'[s].value = shown.value
      <4>1. CASE s = a
        BY <1>4, <1>9, <3>1, <3>3, <4>1
      <4>2. CASE s # a
        BY <1>9, <1>11, <3>3, <4>2 DEF ValuesAgree, HasRead
      <4> QED
        BY <4>1, <4>2
    <3> QED
      BY <1>7, <3>1, <3>2, <3>3 DEF ValuesAgree
  <2> QED
    BY <2>2, <2>3
<1>14. SettingsReachSensor' /\ ShownOK'
  <2>1. paramsSet' \in BOOLEAN
    BY <1>7
  <2> QED
    BY <1>7, <2>1 DEF SettingsReachSensor, ShownOK
<1> QED
  BY <1>9, <1>10, <1>12, <1>13, <1>14

LEMMA ApplyComparesKeeps ==
  ASSUME SensorKnown, NEW a \in Appliers, ApplyCompares(a)
  PROVE  SensorKnown'
<1> USE DEF SensorKnown
<1>1. PICK p : p = applying[a]
  OBVIOUS
<1>2. PhaseOK(p) /\ p.step = "compare"
  BY <1>1 DEF AppliersOK, ApplyCompares
<1>3. PICK writes :
        writes = {c \in InRange(p.value) : p.force \/ p.value[c] # cachedControl[c]}
  OBVIOUS
<1>4. PICK q : q = [p EXCEPT !.step = "control", !.writes = writes]
  OBVIOUS
<1>5. q = [step |-> "control", string |-> p.string, force |-> p.force, met |-> p.met,
           value |-> p.value, writes |-> writes, refused |-> p.refused]
  BY <1>2, <1>4, PhaseFields
<1>6. /\ writes \subseteq Controls
      /\ p.force => Steady \subseteq writes
      /\ \A c \in Steady \ writes : p.value[c] = cachedControl[c]
  BY <1>3 DEF InRange, Steady
<1>7. PhaseOK(q)
  BY <1>2, <1>5, <1>6 DEF PhaseOK, ApplySteps
<1>8. StepsTo(a, q)
  BY <1>1, <1>3, <1>4 DEF ApplyCompares
<1>9. UNCHANGED <<list, cachedControl, sensorControl, paramsSet>>
  BY DEF ApplyCompares
<1>10. Inside(a)
  BY <1>1, <1>2 DEF Inside
<1>11. /\ shown' = [valid |-> shown.valid, value |-> shown.value,
                    refused |-> shown.refused, lost |-> shown.lost,
                    crossed |-> shown.crossed \cup CrossedBy(q)]
       /\ applying' = [applying EXCEPT ![a] = q]
       /\ q.met => Claims(q) \subseteq shown'.crossed
       /\ shown.crossed \subseteq shown'.crossed
  BY <1>8, StepsToGives
<1>12. /\ AppliersOK' /\ MetIsMutual' /\ MetAreCrossed' /\ StoresAreTrue'
       /\ applying'[a] = q
       /\ \A b \in Appliers : b # a => applying'[b] = applying[b]
  <2>1. q.met = applying[a].met /\ q.step \notin {"none", "list"} /\ q.step # "cache"
    BY <1>1, <1>5
  <2> QED
    BY <1>7, <1>10, <1>11, <2>1, SteppingMeets
<1>13. \A b \in Appliers : applying'[b].force = applying[b].force
  BY <1>1, <1>5, <1>12
<1>14. \A b \in Appliers : \A c : Storing(b, c) <=> Storing(b, c)'
  BY <1>1, <1>2, <1>5, <1>12 DEF Storing
<1>15. CacheIsTrue'
  <2> SUFFICES ASSUME paramsSet, \A b \in Appliers : ~applying[b].force,
                      NEW c \in Steady \ (shown'.crossed \cup shown'.lost),
                      \A b \in Appliers : ~Storing(b, c)
               PROVE  sensorControl[c] = cachedControl[c]
    BY <1>9, <1>13, <1>14 DEF CacheIsTrue
  <2>1. c \in Steady \ (shown.crossed \cup shown.lost)
    BY <1>11
  <2> QED
    BY <2>1 DEF CacheIsTrue
<1>16. Locked \in Appliers /\ Scans \subseteq Appliers
  BY DEF Appliers
<1>17. SkippedAreTrue'
  <2>1. CASE a = Locked
    <3> SUFFICES ASSUME ~q.force, NEW c \in Steady \ (writes \cup shown'.crossed
                                                             \cup shown'.lost)
                 PROVE  sensorControl[c] = q.value[c]
      BY <1>5, <1>9, <1>12, <2>1 DEF SkippedAreTrue
    <3>1. c \in Steady \ (shown.crossed \cup shown.lost) /\ c \in Controls
      BY <1>11 DEF Steady
    <3>2. paramsSet
      BY <1>1, <1>2, <2>1 DEF LockedIsForced
    <3>3. ASSUME NEW b \in Appliers PROVE ~applying[b].force /\ ~Storing(b, c)
      <4>1. CASE b = a
        BY <1>1, <1>2, <1>5, <4>1 DEF Storing
      <4>2. CASE b # a /\ Inside(b)
        <5>1. Claims(applying[b]) \subseteq shown.crossed
          BY <1>10, <4>2, MetIsInside
        <5>2. c \notin Claims(applying[b])
          BY <3>1, <5>1
        <5> QED
          BY <3>1, <5>2, ClaimsOf DEF Storing
      <4>3. CASE ~Inside(b)
        BY <4>3, OutsideIsFresh
      <4> QED
        BY <4>1, <4>2, <4>3
    <3>4. sensorControl[c] = cachedControl[c]
      BY <3>1, <3>2, <3>3 DEF CacheIsTrue
    <3> QED
      BY <1>5, <1>6, <3>4
  <2>2. CASE a # Locked
    BY <1>9, <1>11, <1>12, <1>16, <2>2 DEF SkippedAreTrue
  <2> QED
    BY <2>1, <2>2
<1>18. LockedIsForced'
  <2>1. CASE a = Locked
    BY <1>1, <1>2, <1>9, <2>1 DEF LockedIsForced
  <2>2. CASE a # Locked
    BY <1>9, <1>12, <1>16, <2>2 DEF LockedIsForced
  <2> QED
    BY <2>1, <2>2
<1>19. ValuesAgree' /\ SettingsReachSensor' /\ ShownOK'
  <2>1. \A b \in Appliers : Inside(b)' <=> Inside(b)
    BY <1>5, <1>10, <1>12 DEF Inside
  <2>2. \A b \in Appliers : /\ HasRead(b)' <=> HasRead(b)
                            /\ applying'[b].value = applying[b].value
                            /\ applying'[b].met = applying[b].met
    BY <1>1, <1>2, <1>5, <1>12 DEF HasRead
  <2>3. ValuesAgree'
    BY <1>9, <1>11, <1>16, <2>1, <2>2 DEF ValuesAgree
  <2> QED
    BY <1>9, <1>11, <2>3 DEF SettingsReachSensor, ShownOK
<1> QED
  BY <1>12, <1>15, <1>17, <1>18, <1>19

LEMMA ApplyControlsKeeps ==
  ASSUME SensorKnown, ListsOK, NEW a \in Appliers, ApplyControls(a)
  PROVE  SensorKnown'
<1> USE DEF SensorKnown
<1>1. PICK p : p = applying[a]
  OBVIOUS
<1>2. PhaseOK(p) /\ p.step = "control"
  BY <1>1 DEF AppliersOK, ApplyControls
<1>3. PICK refused : /\ sensorControl' = Updated(sensorControl, p.value, p.writes \ refused)
                     /\ applying' = [applying EXCEPT ![a] =
                                       [p EXCEPT !.step = "cache", !.refused = refused]]
  BY <1>1 DEF ApplyControls
<1>4. PICK q : q = [p EXCEPT !.step = "cache", !.refused = refused]
  OBVIOUS
<1>5. q = [step |-> "cache", string |-> p.string, force |-> p.force, met |-> p.met,
           value |-> p.value, writes |-> p.writes, refused |-> refused]
  <2>1. PICK u : u = [p EXCEPT !.step = "cache"]
    OBVIOUS
  <2>2. u = [step |-> "cache", string |-> p.string, force |-> p.force, met |-> p.met,
             value |-> p.value, writes |-> p.writes, refused |-> p.refused]
    BY <1>2, <2>1 DEF PhaseOK
  <2>3. q = [u EXCEPT !.refused = refused]
    BY <1>4, <2>1
  <2> QED
    BY <2>2, <2>3
<1>6. PhaseOK(q)
  BY <1>2, <1>5 DEF PhaseOK, ApplySteps
<1>7. applying' = [applying EXCEPT ![a] = q]
  BY <1>3, <1>4
<1>8. UNCHANGED <<cachedControl, paramsSet, shown>> /\ Value(list') = Value(list)
  <2>1. UNCHANGED <<cachedControl, paramsSet, shown>>
    BY DEF ApplyControls
  <2>2. list' = list \/ list' = [list EXCEPT !.focus = "continuous-picture"]
    BY DEF ApplyControls
  <2> QED
    BY <2>1, <2>2, FocusIsNoValue DEF ListsOK
<1>9. Inside(a)
  BY <1>1, <1>2 DEF Inside
<1>10. /\ AppliersOK' /\ MetIsMutual' /\ MetAreCrossed'
       /\ applying'[a] = q
       /\ \A b \in Appliers : b # a => applying'[b] = applying[b]
  <2>1. q.met = applying[a].met /\ q.step \notin {"none", "list"}
    BY <1>1, <1>5
  <2>2. q.met => Claims(q) \subseteq shown'.crossed
    <3>1. Claims(q) = Claims(p)
      BY <1>5 DEF Claims
    <3> QED
      BY <1>1, <1>8, <2>1, <3>1 DEF MetAreCrossed
  <2>3. shown.crossed \subseteq shown'.crossed
    BY <1>8
  <2> QED
    BY <1>6, <1>7, <1>9, <2>1, <2>2, <2>3, SteppingMeets
<1>11. \A c \in Steady : sensorControl'[c] = IF c \in p.writes \ refused THEN p.value[c]
                                                                   ELSE sensorControl[c]
  BY <1>3 DEF Updated, Steady
<1>13. ASSUME NEW c, c \notin shown.crossed, p.met PROVE c \notin p.writes
  BY <1>1, <1>13, ClaimsOf DEF MetAreCrossed
<1>14. CacheIsTrue'
  <2> SUFFICES ASSUME paramsSet, \A b \in Appliers : ~applying'[b].force,
                      NEW c \in Steady \ (shown.crossed \cup shown.lost),
                      \A b \in Appliers : ~Storing(b, c)'
               PROVE  sensorControl'[c] = cachedControl[c]
    BY <1>8 DEF CacheIsTrue
  <2>1. \A b \in Appliers : ~applying[b].force /\ ~Storing(b, c)
    BY <1>1, <1>2, <1>5, <1>10 DEF Storing
  <2>2. ~Storing(a, c)'
    OBVIOUS
  <2>3. c \notin p.writes \ refused
    BY <1>5, <1>10, <2>2 DEF Storing
  <2> QED
    BY <1>11, <2>1, <2>3 DEF CacheIsTrue
<1>15. StoresAreTrue'
  <2> SUFFICES ASSUME NEW b \in Appliers, ~applying'[b].met, NEW c \in Steady,
                      Storing(b, c)'
               PROVE  sensorControl'[c] = applying'[b].value[c]
    BY DEF StoresAreTrue
  <2>1. CASE b = a
    BY <1>5, <1>10, <1>11, <2>1 DEF Storing
  <2>2. CASE b # a
    <3>1. Inside(b) /\ ~applying[b].met
      BY <1>10, <2>2 DEF Storing, Inside
    <3> QED
      BY <1>9, <2>2, <3>1 DEF MetIsMutual
  <2> QED
    BY <2>1, <2>2
<1>16. Locked \in Appliers /\ Scans \subseteq Appliers
  BY DEF Appliers
<1>17. SkippedAreTrue'
  <2>1. CASE a = Locked
    <3> SUFFICES ASSUME ~p.force, NEW c \in Steady \ (p.writes \cup shown.crossed
                                                             \cup shown.lost)
                 PROVE  sensorControl'[c] = p.value[c]
      BY <1>5, <1>8, <1>10, <2>1 DEF SkippedAreTrue
    <3>1. sensorControl[c] = p.value[c]
      BY <1>1, <1>2, <2>1 DEF SkippedAreTrue
    <3> QED
      BY <1>11, <3>1
  <2>2. CASE a # Locked
    <3>1. PICK r : r = applying[Locked]
      OBVIOUS
    <3> SUFFICES ASSUME r.step \in {"control", "cache"}, ~r.force,
                        NEW c \in Steady \ (r.writes \cup shown.crossed \cup shown.lost)
                 PROVE  sensorControl'[c] = r.value[c]
      BY <1>8, <1>10, <1>16, <2>2, <3>1 DEF SkippedAreTrue
    <3>2. sensorControl[c] = r.value[c]
      BY <3>1 DEF SkippedAreTrue
    <3>3. Inside(Locked)
      BY <3>1 DEF Inside
    <3>4. c \notin p.writes
      BY <1>1, <1>9, <1>13, <1>16, <2>2, <3>3 DEF MetIsMutual
    <3> QED
      BY <1>11, <3>2, <3>4
  <2> QED
    BY <2>1, <2>2
<1>18. LockedIsForced'
  <2>1. CASE a = Locked
    BY <1>1, <1>2, <1>8, <2>1 DEF LockedIsForced
  <2>2. CASE a # Locked
    BY <1>8, <1>10, <1>16, <2>2 DEF LockedIsForced
  <2> QED
    BY <2>1, <2>2
<1>19. ValuesAgree'
  <2>1. \A b \in Appliers : Inside(b)' <=> Inside(b)
    BY <1>5, <1>9, <1>10 DEF Inside
  <2>2. \A b \in Appliers : /\ HasRead(b)' <=> HasRead(b)
                            /\ applying'[b].value = applying[b].value
                            /\ applying'[b].met = applying[b].met
    BY <1>1, <1>2, <1>5, <1>10 DEF HasRead
  <2> QED
    BY <1>8, <1>16, <2>1, <2>2 DEF ValuesAgree
<1>20. SettingsReachSensor'
  <2> SUFFICES ASSUME shown.valid,
                      NEW c \in Controls \ (shown.refused \cup shown.lost
                                              \cup shown.crossed \cup {"exposure"})
               PROVE  sensorControl'[c] = shown.value[c]
    BY <1>8 DEF SettingsReachSensor
  <2>1. a # Locked /\ a \in Scans
    BY <1>9 DEF ValuesAgree, Appliers
  <2>2. c \in Steady /\ sensorControl[c] = shown.value[c]
    BY DEF SettingsReachSensor, Steady
  <2>3. CASE p.met
    BY <1>11, <1>13, <2>2, <2>3
  <2>4. CASE ~p.met
    <3>1. HasRead(a)
      BY <1>1, <1>2 DEF HasRead
    <3>2. p.value = shown.value
      BY <1>1, <2>1, <2>4, <3>1 DEF ValuesAgree
    <3> QED
      BY <1>11, <2>2, <3>2
  <2> QED
    BY <2>3, <2>4
<1>21. ShownOK'
  BY <1>8 DEF ShownOK
<1> QED
  BY <1>10, <1>14, <1>15, <1>17, <1>18, <1>19, <1>20, <1>21

(* What a thread that leaves params_apply() has cached, and says of it.     *)
LeavingGives(a, p) ==
  /\ \A c \in Steady :
       cachedControl'[c] = IF c \in p.writes \ p.refused THEN p.value[c]
                                                         ELSE cachedControl[c]
  /\ applying' = [applying EXCEPT ![a] = NotApplying]
  /\ shown'.lost = (IF p.force THEN p.refused ELSE shown.lost)
  /\ p.met => shown'.crossed = shown.crossed
  /\ ~p.met => shown'.crossed = shown.crossed \ (p.writes \ p.refused)
  /\ a = Locked => /\ shown'.valid = TRUE /\ shown'.value = p.value
                   /\ shown'.refused = p.refused
  /\ a # Locked => /\ shown'.valid = shown.valid /\ shown'.value = shown.value
                   /\ shown'.refused = shown.refused
  /\ ShownOK'
  /\ UNCHANGED <<list, sensorControl, paramsSet>>

LEMMA CachesGive ==
  ASSUME AppliersOK, ShownOK, NEW a \in Appliers, NEW p, p = applying[a], ApplyCaches(a)
  PROVE  LeavingGives(a, p)
<1>1. /\ cachedControl' = Updated(cachedControl, p.value,
                                  (p.writes \ p.refused) \cap TakenFor(p.value))
      /\ ApplyEnds(a)
  BY DEF ApplyCaches
<1>2. \A c \in Steady :
        cachedControl'[c] = IF c \in p.writes \ p.refused THEN p.value[c]
                                                          ELSE cachedControl[c]
  BY <1>1 DEF Updated, TakenFor, Steady
<1>3. /\ applying' = [applying EXCEPT ![a] = NotApplying]
      /\ UNCHANGED <<list, sensorControl, paramsSet>>
  BY <1>1 DEF ApplyEnds
<1>4. PICK u : u = [shown EXCEPT !.lost = IF p.force THEN p.refused ELSE shown.lost,
                                 !.crossed = IF p.met THEN shown.crossed
                                             ELSE shown.crossed \ (p.writes \ p.refused)]
  OBVIOUS
<1>5. shown' = IF a = Locked
               THEN [u EXCEPT !.valid = TRUE, !.value = p.value, !.refused = p.refused]
               ELSE u
  BY <1>1, <1>4 DEF ApplyEnds
<1>6. u = [valid |-> shown.valid, value |-> shown.value, refused |-> shown.refused,
           lost |-> IF p.force THEN p.refused ELSE shown.lost,
           crossed |-> IF p.met THEN shown.crossed
                       ELSE shown.crossed \ (p.writes \ p.refused)]
  BY <1>4 DEF ShownOK
<1>7. CASE a = Locked
  <2>1. PICK v : v = [u EXCEPT !.valid = TRUE, !.value = p.value]
    OBVIOUS
  <2>2. v = [valid |-> TRUE, value |-> p.value, refused |-> u.refused, lost |-> u.lost,
             crossed |-> u.crossed]
    <3>1. PICK w : w = [u EXCEPT !.valid = TRUE]
      OBVIOUS
    <3>2. w = [valid |-> TRUE, value |-> u.value, refused |-> u.refused,
               lost |-> u.lost, crossed |-> u.crossed]
      BY <1>6, <3>1
    <3>3. v = [w EXCEPT !.value = p.value]
      BY <2>1, <3>1
    <3> QED
      BY <3>2, <3>3
  <2>3. shown' = [v EXCEPT !.refused = p.refused]
    BY <1>5, <1>7, <2>1
  <2>4. shown' = [valid |-> TRUE, value |-> p.value, refused |-> p.refused,
                  lost |-> u.lost, crossed |-> u.crossed]
    BY <2>2, <2>3
  <2> QED
    BY <1>2, <1>3, <1>6, <1>7, <2>4 DEF ShownOK, LeavingGives
<1>8. CASE a # Locked
  <2>1. shown' = u
    BY <1>5, <1>8
  <2> QED
    BY <1>2, <1>3, <1>6, <1>8, <2>1 DEF ShownOK, LeavingGives
<1> QED
  BY <1>7, <1>8

(* Alone in params_apply(): what was written is in the cache and at the      *)
(* driver, and the rest was known before.                                   *)
LEMMA CachesAlone ==
  ASSUME SensorKnown, NEW a \in Appliers, NEW p, p = applying[a], ApplyCaches(a), ~p.met
  PROVE  /\ CacheIsTrue' /\ StoresAreTrue' /\ SkippedAreTrue' /\ SettingsReachSensor'
         /\ MetAreCrossed'
<1> USE DEF SensorKnown
<1>1. /\ PhaseOK(p) /\ p.step = "cache"
      /\ Locked \in Appliers /\ Scans \subseteq Appliers /\ Inside(a)
  BY DEF AppliersOK, ApplyCaches, Appliers, Inside
<1>2. /\ \A c \in Steady :
           cachedControl'[c] = IF c \in p.writes \ p.refused THEN p.value[c]
                                                             ELSE cachedControl[c]
      /\ applying' = [applying EXCEPT ![a] = NotApplying]
      /\ shown'.lost = (IF p.force THEN p.refused ELSE shown.lost)
      /\ shown'.crossed = shown.crossed \ (p.writes \ p.refused)
      /\ a = Locked => /\ shown'.valid = TRUE /\ shown'.value = p.value
                       /\ shown'.refused = p.refused
      /\ a # Locked => /\ shown'.valid = shown.valid /\ shown'.value = shown.value
                       /\ shown'.refused = shown.refused
      /\ UNCHANGED <<sensorControl, paramsSet>>
  <2>1. LeavingGives(a, p)
    BY CachesGive
  <2> HIDE DEF SensorKnown
  <2> QED
    BY <2>1 DEF LeavingGives
<1>3. \A b \in Appliers : b # a => ~Inside(b)
  BY <1>1 DEF MetIsMutual
<1>4. ASSUME NEW b \in Appliers
      PROVE  /\ applying'[b].step \in {"none", "list"}
             /\ ~applying'[b].met
             /\ b # a => /\ applying'[b] = applying[b] /\ ~applying[b].force
                         /\ \A c : ~Storing(b, c)
  <2>1. CASE b = a
    BY <1>2, <2>1 DEF AppliersOK, NotApplying
  <2>2. CASE b # a
    BY <1>2, <1>3, <2>2, OutsideIsFresh DEF AppliersOK, Inside
  <2> QED
    BY <2>1, <2>2
<1>5. MetAreCrossed' /\ StoresAreTrue' /\ SkippedAreTrue'
  BY <1>1, <1>4 DEF MetAreCrossed, StoresAreTrue, SkippedAreTrue, Storing
<1>6. ASSUME NEW c \in Steady, c \in p.writes \ p.refused, shown.valid \/ paramsSet
      PROVE  sensorControl[c] = p.value[c]
  BY <1>1, <1>6 DEF StoresAreTrue, Storing
<1>7. ASSUME NEW c \in Steady, c \notin p.writes \ p.refused,
             c \notin shown'.crossed, c \notin shown'.lost
      PROVE  c \notin shown.crossed /\ c \notin shown.lost /\ ~p.force /\
             c \notin p.writes \cap p.refused \cap shown'.lost
  BY <1>1, <1>2, <1>7 DEF PhaseOK
<1>8. CacheIsTrue'
  <2> SUFFICES ASSUME paramsSet, NEW c \in Steady, c \notin shown'.crossed, c \notin shown'.lost
               PROVE  sensorControl[c] = cachedControl'[c]
    BY <1>2 DEF CacheIsTrue
  <2>1. CASE c \in p.writes \ p.refused
    BY <1>2, <1>6, <2>1
  <2>2. CASE c \notin p.writes \ p.refused
    <3>1. c \in Steady \ (shown.crossed \cup shown.lost) /\ ~p.force
      BY <1>7, <2>2
    <3>2. ~Storing(a, c)
      BY <2>2 DEF Storing
    <3>3. \A b \in Appliers : ~applying[b].force /\ ~Storing(b, c)
      BY <1>4, <3>1, <3>2
    <3>4. sensorControl[c] = cachedControl[c]
      BY <3>1, <3>3 DEF CacheIsTrue
    <3> QED
      BY <1>2, <2>2, <3>4
  <2> QED
    BY <2>1, <2>2
<1>9. SettingsReachSensor'
  <2> SUFFICES ASSUME shown'.valid, NEW c \in Steady, c \notin shown'.refused,
                      c \notin shown'.lost, c \notin shown'.crossed
               PROVE  sensorControl[c] = shown'.value[c]
    BY <1>2 DEF SettingsReachSensor, Steady
  <2>1. CASE a = Locked
    <3>1. paramsSet
      BY <1>1, <2>1 DEF LockedIsForced
    <3>2. CASE c \in p.writes
      BY <1>2, <1>6, <2>1, <3>1, <3>2
    <3>3. CASE c \notin p.writes
      <4>1. c \notin shown.crossed /\ c \notin shown.lost /\ ~p.force
        BY <1>7, <3>3
      <4> QED
        BY <1>1, <1>2, <2>1, <3>3, <4>1 DEF SkippedAreTrue
    <3> QED
      BY <3>2, <3>3
  <2>2. CASE a # Locked
    <3>1. a \in Scans /\ shown.valid
      BY <1>2, <2>2 DEF Appliers
    <3>2. p.value = shown.value
      BY <1>1, <3>1 DEF ValuesAgree, HasRead
    <3>3. CASE c \in p.writes \ p.refused
      BY <1>2, <1>6, <2>2, <3>1, <3>2, <3>3
    <3>4. CASE c \notin p.writes \ p.refused
      <4>1. c \notin shown.crossed /\ c \notin shown.lost
        BY <1>7, <3>4
      <4> QED
        BY <1>2, <2>2, <3>1, <4>1 DEF SettingsReachSensor, Steady
    <3> QED
      BY <3>3, <3>4
  <2> QED
    BY <2>1, <2>2
<1> QED
  BY <1>5, <1>8, <1>9

(* Beside another: what it might have written is crossed, the rest was not  *)
(* touched by it.                                                           *)
LEMMA CachesBeside ==
  ASSUME SensorKnown, NEW a \in Appliers, NEW p, p = applying[a], ApplyCaches(a), p.met
  PROVE  /\ CacheIsTrue' /\ StoresAreTrue' /\ SkippedAreTrue' /\ SettingsReachSensor'
         /\ MetAreCrossed'
<1> USE DEF SensorKnown
<1>1. /\ PhaseOK(p) /\ p.step = "cache"
      /\ Locked \in Appliers /\ Scans \subseteq Appliers /\ Inside(a)
  BY DEF AppliersOK, ApplyCaches, Appliers, Inside
<1>2. /\ \A c \in Steady :
           cachedControl'[c] = IF c \in p.writes \ p.refused THEN p.value[c]
                                                             ELSE cachedControl[c]
      /\ applying' = [applying EXCEPT ![a] = NotApplying]
      /\ shown'.lost = (IF p.force THEN p.refused ELSE shown.lost)
      /\ shown'.crossed = shown.crossed
      /\ a = Locked => /\ shown'.valid = TRUE /\ shown'.value = p.value
                       /\ shown'.refused = p.refused
      /\ a # Locked => /\ shown'.valid = shown.valid /\ shown'.value = shown.value
                       /\ shown'.refused = shown.refused
      /\ UNCHANGED <<sensorControl, paramsSet>>
  <2>1. LeavingGives(a, p)
    BY CachesGive
  <2> HIDE DEF SensorKnown
  <2> QED
    BY <2>1 DEF LeavingGives
<1>3. applying'[a] = NotApplying /\ \A b \in Appliers : b # a => applying'[b] = applying[b]
  BY <1>2 DEF AppliersOK
<1>4. ASSUME NEW c \in Steady, c \notin shown.crossed
      PROVE  /\ ~p.force /\ c \notin p.writes /\ shown'.lost = shown.lost
             /\ cachedControl'[c] = cachedControl[c] /\ ~Storing(a, c)
  <2>1. c \notin Claims(p) /\ c \in Controls
    BY <1>4 DEF MetAreCrossed, Steady
  <2>2. ~p.force /\ c \notin p.writes
    BY <2>1, ClaimsOf
  <2> QED
    BY <1>2, <2>2 DEF Storing
<1>5. CacheIsTrue'
  <2> SUFFICES ASSUME paramsSet, \A b \in Appliers : ~applying'[b].force,
                      NEW c \in Steady, c \notin shown.crossed, c \notin shown'.lost,
                      \A b \in Appliers : ~Storing(b, c)'
               PROVE  sensorControl[c] = cachedControl'[c]
    BY <1>2 DEF CacheIsTrue
  <2>1. \A b \in Appliers : ~applying[b].force /\ ~Storing(b, c)
    BY <1>3, <1>4 DEF Storing
  <2>2. c \in Steady \ (shown.crossed \cup shown.lost)
    BY <1>4
  <2>3. sensorControl[c] = cachedControl[c]
    BY <2>1, <2>2 DEF CacheIsTrue
  <2> QED
    BY <1>4, <2>3
<1>6. MetAreCrossed'
  <2> SUFFICES ASSUME NEW b \in Appliers, applying'[b].met
               PROVE  Claims(applying'[b]) \subseteq shown.crossed
    BY <1>2 DEF MetAreCrossed
  <2>1. b # a
    BY <1>3 DEF NotApplying
  <2> QED
    BY <1>3, <2>1 DEF MetAreCrossed
<1>7. StoresAreTrue'
  <2> SUFFICES ASSUME NEW b \in Appliers, ~applying'[b].met, NEW c, Storing(b, c)'
               PROVE  FALSE
    BY DEF StoresAreTrue
  <2>1. b # a
    BY <1>3 DEF NotApplying, Storing
  <2>2. Inside(b) /\ ~applying[b].met
    BY <1>3, <2>1 DEF Storing, Inside
  <2> QED
    BY <1>1, <2>1, <2>2 DEF MetIsMutual
<1>8. SkippedAreTrue' /\ SettingsReachSensor'
  <2>1. CASE a = Locked
    <3>1. SkippedAreTrue'
      BY <1>3, <2>1 DEF SkippedAreTrue, NotApplying
    <3> SUFFICES ASSUME NEW c \in Steady, c \notin shown.crossed, c \notin shown'.lost
                 PROVE  sensorControl[c] = p.value[c]
      BY <1>2, <2>1, <3>1 DEF SettingsReachSensor, Steady
    <3>2. /\ c \notin p.writes /\ c \notin shown.lost /\ ~p.force
      BY <1>4
    <3> QED
      BY <1>1, <2>1, <3>2 DEF SkippedAreTrue
  <2>2. CASE a # Locked
    <3>1. SkippedAreTrue'
      <4>1. PICK r : r = applying[Locked]
        OBVIOUS
      <4> SUFFICES ASSUME r.step \in {"control", "cache"}, ~r.force,
                          NEW c \in Steady, c \notin r.writes, c \notin shown.crossed,
                          c \notin shown'.lost
                   PROVE  sensorControl[c] = r.value[c]
        BY <1>1, <1>2, <1>3, <2>2, <4>1 DEF SkippedAreTrue
      <4>2. c \notin shown.lost
        BY <1>4
      <4> QED
        BY <4>1, <4>2 DEF SkippedAreTrue
    <3>2. SettingsReachSensor'
      <4> SUFFICES ASSUME shown.valid, NEW c \in Steady, c \notin shown.refused,
                          c \notin shown.crossed, c \notin shown'.lost
                   PROVE  sensorControl[c] = shown.value[c]
        BY <1>2, <2>2 DEF SettingsReachSensor, Steady
      <4>1. c \notin shown.lost
        BY <1>4
      <4> QED
        BY <4>1 DEF SettingsReachSensor, Steady
    <3> QED
      BY <3>1, <3>2
  <2> QED
    BY <2>1, <2>2
<1> QED
  BY <1>5, <1>6, <1>7, <1>8

LEMMA ApplyCachesKeeps ==
  ASSUME SensorKnown, NEW a \in Appliers, ApplyCaches(a)
  PROVE  SensorKnown'
<1> USE DEF SensorKnown
<1>1. PICK p : p = applying[a]
  OBVIOUS
<1>2. /\ CacheIsTrue' /\ StoresAreTrue' /\ SkippedAreTrue' /\ SettingsReachSensor'
      /\ MetAreCrossed'
  <2> HIDE DEF SensorKnown
  <2>1. CASE p.met
    BY <1>1, <2>1, CachesBeside
  <2>2. CASE ~p.met
    BY <1>1, <2>2, CachesAlone
  <2> QED
    BY <2>1, <2>2
<1>3. /\ applying' = [applying EXCEPT ![a] = NotApplying]
      /\ a = Locked => shown'.valid = TRUE /\ shown'.value = p.value
      /\ a # Locked => shown'.valid = shown.valid /\ shown'.value = shown.value
      /\ ShownOK'
      /\ UNCHANGED <<list, paramsSet>>
  BY <1>1, CachesGive DEF LeavingGives
<1>4. /\ DOMAIN applying' = Appliers /\ applying'[a] = NotApplying
      /\ \A b \in Appliers : b # a => applying'[b] = applying[b]
  BY <1>3 DEF AppliersOK
<1>5. AppliersOK'
  <2>1. PhaseOK(NotApplying)
    BY DEF PhaseOK, NotApplying, ApplySteps
  <2>2. \A b \in Appliers : PhaseOK(applying'[b])
    BY <1>4, <2>1 DEF AppliersOK
  <2> QED
    BY <1>4, <2>2 DEF AppliersOK
<1>6. ~Inside(a)' /\ ~HasRead(a)' /\ Inside(a) /\ HasRead(a)
  BY <1>1, <1>4 DEF Inside, HasRead, NotApplying, ApplyCaches
<1>7. ASSUME NEW b \in Appliers, b # a
      PROVE  (Inside(b)' <=> Inside(b)) /\ (HasRead(b)' <=> HasRead(b))
  BY <1>4, <1>7 DEF Inside, HasRead
<1>8. MetIsMutual'
  BY <1>4, <1>6, <1>7 DEF MetIsMutual
<1>9. Locked \in Appliers /\ Scans \subseteq Appliers
  BY DEF Appliers
<1>10. LockedIsForced' /\ ValuesAgree'
  <2>1. CASE a = Locked
    <3>1. LockedIsForced'
      BY <1>4, <2>1 DEF LockedIsForced, NotApplying
    <3>2. Value(list) = p.value
      BY <1>1, <1>6, <2>1 DEF ValuesAgree
    <3>3. ASSUME NEW s \in Scans, HasRead(s)' PROVE applying'[s].met
      <4>1. s # a /\ Inside(s)
        BY <1>6, <1>7, <1>9, <3>3 DEF HasRead, Inside
      <4> QED
        BY <1>4, <1>6, <1>9, <4>1 DEF MetIsMutual
    <3> QED
      BY <1>3, <1>6, <2>1, <3>1, <3>2, <3>3 DEF ValuesAgree
  <2>2. CASE a # Locked
    <3>1. LockedIsForced'
      BY <1>3, <1>4, <1>9, <2>2 DEF LockedIsForced
    <3>2. ASSUME NEW s \in Scans, shown.valid, HasRead(s)', ~applying'[s].met
          PROVE  applying'[s].value = shown.value
      <4>1. s # a
        BY <1>6, <3>2
      <4> QED
        BY <1>4, <1>7, <1>9, <3>2, <4>1 DEF ValuesAgree
    <3> QED
      BY <1>3, <1>4, <1>7, <1>9, <2>2, <3>1, <3>2 DEF ValuesAgree
  <2> QED
    BY <2>1, <2>2
<1> QED
  BY <1>2, <1>3, <1>5, <1>8, <1>10

(* The steps that pass params_apply() by, and those that prepare one.        *)
Passing ==
  \/ PreviewRuns \/ StillEncoded \/ TriggerStart \/ TriggerCancel \/ CancelEnds \/ CancelGivesUp
  \/ \E s \in Scans : ScanBegins(s) \/ ScanRuns(s) \/ ScanStops(s) \/ ScanNotifies(s)
                     \/ ScanEnds(s)
Preparing ==
  \/ \E video \in BOOLEAN : SessionConfigured(video)
  \/ \E r \in SettingsRequests : RequestSettings(r)
  \/ StillStarts
Applies ==
  \E a \in Appliers : ApplyTests(a) \/ ApplyReads(a) \/ ApplyCompares(a) \/ ApplyControls(a)
                     \/ ApplyCaches(a)

LEMMA SettingsSteps ==
  ASSUME SettingsNext
  PROVE  \/ Passing \/ Preparing \/ Applies \/ ListWritten \/ StillTaken
         \/ \E reset \in BOOLEAN : SessionStops(reset)
         \/ \E s \in Scans : ScanPrepares(s)
<1>1. CASE \E a \in Appliers : \/ ApplyTests(a) \/ ApplyReads(a) \/ ApplyCompares(a)
                               \/ ApplyControls(a) \/ ApplyCaches(a)
  BY <1>1 DEF Applies
<1>2. CASE \E s \in Scans : ScanBegins(s) \/ ScanPrepares(s) \/ ScanRuns(s) \/ ScanStops(s)
                           \/ ScanNotifies(s) \/ ScanEnds(s)
  BY <1>2 DEF Passing
<1> QED
  BY <1>1, <1>2 DEF SettingsNext, Passing, Preparing

LEMMA PassingKeeps ==
  ASSUME Passing
  PROVE  UNCHANGED <<list, cachedControl, sensorControl, paramsSet, applying, shown>>
<1>1. CASE \/ PreviewRuns \/ StillEncoded \/ TriggerStart \/ TriggerCancel \/ CancelEnds
           \/ CancelGivesUp
  BY <1>1 DEF PreviewRuns, StillEncoded, TriggerStart, TriggerCancel, CancelEnds,
              CancelGivesUp, sensorVars
<1>2. ASSUME NEW s \in Scans,
             ScanBegins(s) \/ ScanRuns(s) \/ ScanStops(s) \/ ScanNotifies(s) \/ ScanEnds(s)
      PROVE  UNCHANGED <<list, cachedControl, sensorControl, paramsSet, applying, shown>>
  BY <1>2 DEF ScanBegins, ScanRuns, ScanStops, ScanNotifies, ScanEnds, sensorVars
<1> QED
  BY <1>1, <1>2 DEF Passing

(* The lists that are written keep the keys and the rotation.               *)
LEMMA MergedKeeps ==
  ASSUME NEW string, DOMAIN string = ListKeys
  PROVE  /\ DOMAIN Merged(list, string) = ListKeys
         /\ Merged(list, string).rotation = string.rotation
  BY DEF Merged, ListKeys

LEMMA WrittenKeys ==
  ASSUME ListsOK
  PROVE  /\ \A r \in SettingsRequests :
              DOMAIN [Written(list, r) EXCEPT !.hint = list.hint] = ListKeys
         /\ \A video \in BOOLEAN : DOMAIN WrittenWithout(list, video) = ListKeys
  BY DEF ListsOK, Written, WrittenWithout, ListKeys

LEMMA PreparingGives ==
  ASSUME ListsOK, Preparing
  PROVE  /\ applying[Locked].step = "none"
         /\ \E string : DOMAIN string = ListKeys /\ SetParameters(string)
         /\ UNCHANGED <<list, cachedControl, sensorControl, paramsSet, shown, scanVars>>
<1>1. ASSUME NEW video \in BOOLEAN, SessionConfigured(video)
      PROVE  /\ applying[Locked].step = "none"
             /\ \E string : DOMAIN string = ListKeys /\ SetParameters(string)
             /\ UNCHANGED <<list, cachedControl, sensorControl, paramsSet, shown, scanVars>>
  BY <1>1, WrittenKeys DEF SessionConfigured, BackendFree
<1>2. ASSUME NEW r \in SettingsRequests, RequestSettings(r)
      PROVE  /\ applying[Locked].step = "none"
             /\ \E string : DOMAIN string = ListKeys /\ SetParameters(string)
             /\ UNCHANGED <<list, cachedControl, sensorControl, paramsSet, shown, scanVars>>
  BY <1>2, WrittenKeys DEF RequestSettings, BackendFree
<1>3. CASE StillStarts
  BY <1>3 DEF StillStarts, BackendFree, ListsOK
<1> QED
  BY <1>1, <1>2, <1>3 DEF Preparing

(* A list that is prepared is not yet in params_apply().                    *)
LEMMA PreparingKeeps ==
  ASSUME SensorKnown, ListsOK, Preparing
  PROVE  SensorKnown'
<1> USE DEF SensorKnown
<1>1. PICK string : SetParameters(string)
  BY PreparingGives
<1>2. /\ applying[Locked].step = "none"
      /\ UNCHANGED <<list, cachedControl, sensorControl, paramsSet, shown>>
  BY PreparingGives
<1>3. Locked \in Appliers /\ Scans \subseteq Appliers /\ Locked \notin Scans
  BY ScansAssumption DEF Appliers
<1>4. PICK p : p = [NotApplying EXCEPT !.step = "list", !.string = string]
  OBVIOUS
<1>5. p = [step |-> "list", string |-> string, force |-> FALSE, met |-> FALSE,
           value |-> Value(PresetList), writes |-> {}, refused |-> {}]
  BY <1>4 DEF NotApplying
<1>6. /\ DOMAIN applying' = Appliers /\ applying'[Locked] = p
      /\ \A b \in Appliers : b # Locked => applying'[b] = applying[b]
  BY <1>1, <1>3, <1>4 DEF SetParameters, AppliersOK
<1>7. AppliersOK'
  <2>1. PhaseOK(p)
    BY <1>5 DEF PhaseOK, ApplySteps
  <2>2. \A b \in Appliers : PhaseOK(applying'[b])
    BY <1>6, <2>1 DEF AppliersOK
  <2> QED
    BY <1>6, <2>2 DEF AppliersOK
<1>8. ASSUME NEW b \in Appliers
      PROVE  /\ applying'[b].force = applying[b].force
             /\ applying'[b].met = applying[b].met
             /\ applying'[b].writes = applying[b].writes
             /\ Inside(b)' <=> Inside(b)
             /\ HasRead(b)' <=> HasRead(b)
             /\ \A c : Storing(b, c)' <=> Storing(b, c)
             /\ HasRead(b) => applying'[b].value = applying[b].value
  <2>1. CASE b = Locked
    <3>1. /\ applying'[b].force = FALSE /\ applying'[b].met = FALSE
          /\ applying'[b].writes = {}
      BY <1>5, <1>6, <2>1
    <3>2. PhaseOK(applying[b]) /\ applying[b].step = "none"
      BY <1>2, <2>1 DEF AppliersOK
    <3>3. /\ applying[b].force = FALSE /\ applying[b].met = FALSE
          /\ applying[b].writes = {}
      BY <3>2 DEF PhaseOK
    <3>4. applying'[b].step = "list"
      BY <1>5, <1>6, <2>1
    <3>5. /\ ~Inside(b)' /\ ~HasRead(b)' /\ (\A c : ~Storing(b, c)')
          /\ ~Inside(b) /\ ~HasRead(b) /\ (\A c : ~Storing(b, c))
      BY <3>2, <3>4 DEF Inside, HasRead, Storing
    <3> QED
      BY <3>1, <3>3, <3>5
  <2>2. CASE b # Locked
    BY <1>6, <2>2 DEF Inside, HasRead, Storing
  <2> QED
    BY <2>1, <2>2
<1>9. MetIsMutual' /\ MetAreCrossed'
  BY <1>2, <1>8 DEF MetIsMutual, MetAreCrossed, Claims
<1>10. CacheIsTrue'
  BY <1>2, <1>8 DEF CacheIsTrue
<1>11. StoresAreTrue'
  <2> SUFFICES ASSUME NEW b \in Appliers, ~applying[b].met, shown.valid \/ paramsSet,
                      NEW c \in Steady, Storing(b, c)
               PROVE  sensorControl[c] = applying'[b].value[c]
    BY <1>2, <1>8 DEF StoresAreTrue
  <2>1. HasRead(b)
    BY DEF Storing, HasRead
  <2> QED
    BY <1>8, <2>1 DEF StoresAreTrue
<1>12. SkippedAreTrue' /\ LockedIsForced'
  BY <1>5, <1>6 DEF SkippedAreTrue, LockedIsForced
<1>13. ValuesAgree'
  BY <1>2, <1>3, <1>8 DEF ValuesAgree
<1> QED
  BY <1>2, <1>7, <1>9, <1>10, <1>11, <1>12, <1>13 DEF ShownOK, SettingsReachSensor

(* A stop makes the next list forced, or leaves the controls alone.         *)
LEMMA StoppingKeeps ==
  ASSUME SensorKnown,
         applying[Locked].step = "none", UNCHANGED <<list, cachedControl, applying>>,
         paramsSet' \in BOOLEAN, paramsSet' => paramsSet,
         \/ shown' = Unshown /\ (paramsSet' => sensorControl' = sensorControl)
         \/ UNCHANGED <<shown, sensorControl>>
  PROVE  SensorKnown'
<1> USE DEF SensorKnown
<1>1. AppliersOK' /\ MetIsMutual' /\ SkippedAreTrue' /\ LockedIsForced'
  BY DEF AppliersOK, MetIsMutual, Inside, SkippedAreTrue, LockedIsForced
<1>2. CASE shown' = Unshown /\ (paramsSet' => sensorControl' = sensorControl)
  <2>1. shown' = [valid |-> FALSE, value |-> Value(PresetList), refused |-> {},
                  lost |-> shown.lost, crossed |-> shown.crossed]
    BY <1>2 DEF ShownOK, Unshown
  <2>2. ShownOK' /\ MetAreCrossed' /\ ValuesAgree' /\ SettingsReachSensor'
    BY <1>2, <2>1 DEF ShownOK, MetAreCrossed, ValuesAgree, HasRead, SettingsReachSensor
  <2>3. CacheIsTrue' /\ StoresAreTrue'
    BY <1>2, <2>1 DEF CacheIsTrue, StoresAreTrue, Storing
  <2> QED
    BY <1>1, <2>2, <2>3
<1>3. CASE UNCHANGED <<shown, sensorControl>>
  <2>1. ShownOK' /\ MetAreCrossed' /\ ValuesAgree' /\ SettingsReachSensor'
    BY <1>3 DEF ShownOK, MetAreCrossed, ValuesAgree, HasRead, Inside, SettingsReachSensor
  <2>2. CacheIsTrue' /\ StoresAreTrue'
    BY <1>3 DEF CacheIsTrue, StoresAreTrue, Storing
  <2> QED
    BY <1>1, <2>1, <2>2
<1> QED
  BY <1>2, <1>3

LEMMA SensorUnchanged ==
  ASSUME SensorKnown,
         UNCHANGED <<list, cachedControl, sensorControl, paramsSet, applying, shown>>
  PROVE  SensorKnown'
  BY DEF SensorKnown, ShownOK, AppliersOK, MetIsMutual, MetAreCrossed, Inside, Storing,
         HasRead, CacheIsTrue, StoresAreTrue, SkippedAreTrue, LockedIsForced, ValuesAgree,
         SettingsReachSensor

LEMMA SensorKnownKept ==
  ASSUME SensorKnown, ListsOK, ScansOK, SettingsNext
  PROVE  SensorKnown'
<1>1. CASE Passing
  BY <1>1, PassingKeeps, SensorUnchanged
<1>2. CASE Preparing
  BY <1>2, PreparingKeeps
<1>3. CASE Applies
  BY <1>3, ApplyTestsKeeps, ApplyReadsKeeps, ApplyComparesKeeps, ApplyControlsKeeps,
     ApplyCachesKeeps DEF Applies
<1>4. CASE ListWritten
  BY <1>4, ListWrittenKeeps
<1>5. CASE StillTaken
  <2>1. /\ paramsSet' = (paramsSet /\ ~previewing)
        /\ applying[Locked].step = "none"
        /\ UNCHANGED <<list, cachedControl, applying, shown, sensorControl>>
    BY <1>5 DEF StillTaken
  <2>2. paramsSet' \in BOOLEAN /\ (paramsSet' => paramsSet)
    BY <2>1
  <2> QED
    BY <2>1, <2>2, StoppingKeeps
<1>6. ASSUME NEW reset \in BOOLEAN, SessionStops(reset) PROVE SensorKnown'
  <2>1. /\ paramsSet' = (paramsSet /\ ~previewing /\ ~reset)
        /\ applying[Locked].step = "none" /\ shown' = Unshown
        /\ UNCHANGED <<list, cachedControl, applying>>
        /\ sensorControl' = IF reset THEN [c \in Controls |-> NoValue] ELSE sensorControl
    BY <1>6 DEF SessionStops, BackendFree
  <2>2. paramsSet' \in BOOLEAN /\ (paramsSet' => paramsSet /\ ~reset)
    BY <2>1
  <2>3. paramsSet' => sensorControl' = sensorControl
    BY <2>1, <2>2
  <2> QED
    BY <2>1, <2>2, <2>3, StoppingKeeps
<1>7. ASSUME NEW s \in Scans, ScanPrepares(s) PROVE SensorKnown'
  BY <1>7, ScanPreparesKeeps
<1> QED
  BY <1>1, <1>2, <1>3, <1>4, <1>5, <1>6, <1>7, SettingsSteps

LEMMA AppliesGives ==
  ASSUME AppliersOK, NEW a \in Appliers,
         \/ ApplyTests(a) \/ ApplyReads(a) \/ ApplyCompares(a) \/ ApplyControls(a)
         \/ ApplyCaches(a)
  PROVE  /\ DOMAIN applying' = Appliers
         /\ \A b \in Appliers : b # a => applying'[b] = applying[b]
         /\ applying[a].step \notin {"none", "list"} /\ applying'[a].step # "list"
         /\ applying'[a].string \in {applying[a].string, PresetList}
         /\ \/ UNCHANGED scans
            \/ /\ applying'[a].step = "none"
               /\ scans' = [s \in Scans |-> IF s = a THEN "on" ELSE scans[s]]
         /\ list' = list \/ list' = [list EXCEPT !.focus = "continuous-picture"]
         /\ UNCHANGED <<photo, afFlags, afState, cancel, overlapped>>
<1>1. PICK p : p = applying[a]
  OBVIOUS
<1>2. PhaseOK(p)
  BY <1>1 DEF AppliersOK
<1>3. CASE ApplyTests(a)
  <2>1. PICK q : q = [p EXCEPT !.step = "read", !.force = ~paramsSet]
    OBVIOUS
  <2>2. q.step = "read" /\ q.string = p.string
    BY <1>2, <2>1 DEF PhaseOK
  <2>3. applying' = [applying EXCEPT ![a] = q]
    BY <1>1, <1>3, <2>1 DEF ApplyTests, StepsTo
  <2> QED
    BY <1>1, <1>3, <2>2, <2>3 DEF ApplyTests, AppliersOK, scanVars
<1>4. CASE ApplyReads(a)
  <2>1. PICK q : q = [p EXCEPT !.step = "compare", !.value = Value(list)]
    OBVIOUS
  <2>2. q.step = "compare" /\ q.string = p.string
    BY <1>2, <2>1 DEF PhaseOK
  <2>3. applying' = [applying EXCEPT ![a] = q]
    BY <1>1, <1>4, <2>1 DEF ApplyReads
  <2> QED
    BY <1>1, <1>4, <2>2, <2>3 DEF ApplyReads, AppliersOK, scanVars
<1>5. CASE ApplyCompares(a)
  <2>1. PICK writes : applying' = [applying EXCEPT ![a] =
                        [p EXCEPT !.step = "control", !.writes = writes]]
    BY <1>1, <1>5 DEF ApplyCompares, StepsTo
  <2>2. PICK q : q = [p EXCEPT !.step = "control", !.writes = writes]
    OBVIOUS
  <2>3. q.step = "control" /\ q.string = p.string
    BY <1>2, <2>2 DEF PhaseOK
  <2>4. applying' = [applying EXCEPT ![a] = q]
    BY <2>1, <2>2
  <2> QED
    BY <1>1, <1>5, <2>3, <2>4 DEF ApplyCompares, AppliersOK, scanVars
<1>6. CASE ApplyControls(a)
  <2>1. PICK refused : applying' = [applying EXCEPT ![a] =
                         [p EXCEPT !.step = "cache", !.refused = refused]]
    BY <1>1, <1>6 DEF ApplyControls
  <2>2. PICK q : q = [p EXCEPT !.step = "cache", !.refused = refused]
    OBVIOUS
  <2>3. q.step = "cache" /\ q.string = p.string
    BY <1>2, <2>2 DEF PhaseOK
  <2>4. applying' = [applying EXCEPT ![a] = q]
    BY <2>1, <2>2
  <2>5. list' = list \/ list' = [list EXCEPT !.focus = "continuous-picture"]
    BY <1>6 DEF ApplyControls
  <2>6. applying[a].step = "control" /\ UNCHANGED <<photo, scanVars>>
    BY <1>6 DEF ApplyControls
  <2> QED
    BY <1>1, <2>3, <2>4, <2>5, <2>6 DEF AppliersOK, scanVars
<1>7. CASE ApplyCaches(a)
  <2>1. ApplyEnds(a) /\ applying[a].step = "cache"
    BY <1>7 DEF ApplyCaches
  <2>2. applying' = [applying EXCEPT ![a] = NotApplying]
    BY <2>1 DEF ApplyEnds
  <2>3. NotApplying.step = "none" /\ NotApplying.string = PresetList
    BY DEF NotApplying
  <2> QED
    BY <2>1, <2>2, <2>3 DEF ApplyEnds, AppliersOK
<1> QED
  BY <1>3, <1>4, <1>5, <1>6, <1>7

(* A scan that puts the focus back touches nothing else of the list.        *)
LEMMA ScanPreparesGives ==
  ASSUME AppliersOK, ListsOK, NEW s \in Scans, ScanPrepares(s)
  PROVE  /\ DOMAIN applying' = Appliers
         /\ \A b \in Appliers : b # s => /\ applying'[b].step = applying[b].step
                                         /\ applying'[b].string = applying[b].string
         /\ DOMAIN list' = ListKeys /\ list'.rotation = list.rotation
         /\ UNCHANGED <<photo, afFlags, afState, cancel, overlapped>>
<1>1. s \in Appliers
  BY DEF Appliers
<1>2. CASE UNCHANGED <<list, applying>>
  BY <1>2 DEF ScanPrepares, AppliersOK, ListsOK
<1>3. CASE /\ scans' = [scans EXCEPT ![s] = "apply"]
           /\ list' = [list EXCEPT !.focus = "auto"] /\ applying' = Entered(s)
  <2>1. DOMAIN applying' = Appliers
    BY <1>3 DEF Entered
  <2>2. ASSUME NEW b \in Appliers, b # s
        PROVE  /\ applying'[b].step = applying[b].step
               /\ applying'[b].string = applying[b].string
    BY <1>1, <1>3, <2>2, EnteredGives
  <2>3. DOMAIN list' = ListKeys /\ list'.rotation = list.rotation
    BY <1>3, FocusIsNoValue DEF ListsOK
  <2> QED
    BY <1>3, <2>1, <2>2, <2>3 DEF ScanPrepares
<1> QED
  BY <1>2, <1>3 DEF ScanPrepares

LEMMA ListsOKKept ==
  ASSUME ListsOK, PhotoOK, AppliersOK, SettingsNext
  PROVE  ListsOK'
<1>1. Locked \in Appliers /\ Locked \notin Scans
  BY ScansAssumption DEF Appliers
<1>2. CASE Passing
  <2>1. photo' = photo \/ photo' = [photo EXCEPT !.step = "encoded", !.gps = list.gps]
    BY <1>2 DEF Passing, PreviewRuns, StillEncoded, TriggerStart, TriggerCancel, CancelEnds,
       CancelGivesUp, ScanBegins, ScanRuns, ScanStops, ScanNotifies, ScanEnds
  <2>2. photo'.string = photo.string
    BY <2>1 DEF PhotoOK
  <2> QED
    BY <1>2, <2>2, PassingKeeps DEF ListsOK
<1>3. CASE Preparing
  <2>1. PICK string : DOMAIN string = ListKeys /\ SetParameters(string)
    BY <1>3, PreparingGives
  <2>2. applying'[Locked].string = string
    BY <1>1, <2>1 DEF SetParameters, NotApplying, AppliersOK
  <2>3. DOMAIN photo'.string = ListKeys
    BY <1>3, WrittenKeys
       DEF Preparing, SessionConfigured, RequestSettings, StillStarts, NoPhoto, ListsOK, PhotoOK
  <2> QED
    BY <1>3, <2>1, <2>2, <2>3, PreparingGives DEF ListsOK
<1>4. CASE Applies
  <2>1. PICK a \in Appliers : \/ ApplyTests(a) \/ ApplyReads(a) \/ ApplyCompares(a)
                              \/ ApplyControls(a) \/ ApplyCaches(a)
    BY <1>4 DEF Applies
  <2>2. applying'[Locked].string \in {applying[Locked].string, PresetList}
    BY <1>1, <2>1, AppliesGives
  <2>3. list' = list \/ list' = [list EXCEPT !.focus = "continuous-picture"]
    BY <2>1, AppliesGives
  <2>4. UNCHANGED photo
    BY <2>1, AppliesGives
  <2> QED
    BY <2>2, <2>3, <2>4, FocusIsNoValue DEF ListsOK, PresetList, ListKeys
<1>5. CASE ListWritten
  <2>1. applying'[Locked].string = PresetList
    BY <1>1, <1>5, ListWrittenGives, EnteredGives
  <2> QED
    BY <1>5, <2>1, MergedKeeps DEF ListWritten, ListsOK, PresetList, ListKeys
<1>6. CASE StillTaken
  BY <1>6 DEF StillTaken, ListsOK, PhotoOK
<1>7. ASSUME NEW reset \in BOOLEAN, SessionStops(reset) PROVE ListsOK'
  BY <1>7 DEF SessionStops, ListsOK, NoPhoto, PresetList, ListKeys
<1>8. ASSUME NEW s \in Scans, ScanPrepares(s) PROVE ListsOK'
  BY <1>1, <1>8, ScanPreparesGives DEF ListsOK
<1> QED
  BY <1>2, <1>3, <1>4, <1>5, <1>6, <1>7, <1>8, SettingsSteps

LEMMA PhotoOKKept ==
  ASSUME PhotoOK, AppliersOK, SettingsNext
  PROVE  PhotoOK'
<1>1. CASE Passing
  <2>1. photo' = photo \/ photo' = [photo EXCEPT !.step = "encoded", !.gps = list.gps]
    BY <1>1 DEF Passing, PreviewRuns, StillEncoded, TriggerStart, TriggerCancel, CancelEnds,
       CancelGivesUp, ScanBegins, ScanRuns, ScanStops, ScanNotifies, ScanEnds
  <2> QED
    BY <2>1 DEF PhotoOK
<1>2. CASE Preparing
  BY <1>2 DEF Preparing, SessionConfigured, RequestSettings, StillStarts, NoPhoto, PhotoOK
<1>3. CASE Applies
  BY <1>3, AppliesGives DEF Applies, PhotoOK
<1>4. CASE ListWritten
  BY <1>4 DEF ListWritten, PhotoOK
<1>5. CASE StillTaken
  BY <1>5 DEF StillTaken, PhotoOK
<1>6. ASSUME NEW reset \in BOOLEAN, SessionStops(reset) PROVE PhotoOK'
  BY <1>6 DEF SessionStops, PhotoOK, NoPhoto
<1>7. ASSUME NEW s \in Scans, ScanPrepares(s) PROVE PhotoOK'
  BY <1>7 DEF ScanPrepares, PhotoOK
<1> QED
  BY <1>1, <1>2, <1>3, <1>4, <1>5, <1>6, <1>7, SettingsSteps

LEMMA ScansOKKept ==
  ASSUME ScansOK, ListsOK, AppliersOK, SettingsNext
  PROVE  ScansOK'
<1> DEFINE Kept ==
      \/ UNCHANGED scans
      \/ \E t \in Scans : \E at : scans[t] # "apply" /\ scans' = [scans EXCEPT ![t] = at]
<1>1. Scans \subseteq Appliers /\ Locked \in Appliers /\ Locked \notin Scans
  BY ScansAssumption DEF Appliers
<1>2. CASE Passing
  <2>1. UNCHANGED applying
    BY <1>2, PassingKeeps
  <2>2. /\ Kept
        /\ \/ UNCHANGED afFlags
           \/ afFlags' = [afFlags EXCEPT !.enabled = TRUE, !.started = TRUE]
           \/ afFlags' = [afFlags EXCEPT !.enabled = FALSE]
           \/ afFlags' = [afFlags EXCEPT !.running = TRUE]
           \/ afFlags' = [afFlags EXCEPT !.running = FALSE]
           \/ afFlags' = [afFlags EXCEPT !.enabled = FALSE, !.started = FALSE]
        /\ \/ UNCHANGED cancel
           \/ cancel' = [cancel EXCEPT !.stood = FALSE]
           \/ \E b \in BOOLEAN, d \in BOOLEAN : cancel' = [waits |-> b, stood |-> d]
        /\ overlapped' \in BOOLEAN
    <3>1. CASE PreviewRuns \/ StillEncoded
      BY <3>1 DEF PreviewRuns, StillEncoded, scanVars, ScansOK
    <3>2. CASE TriggerStart
      <4>1. CASE /\ NewScan \in Scans /\ scans[NewScan] = "unused"
                 /\ scans' = [scans EXCEPT ![NewScan] = "created"]
                 /\ afFlags' = [afFlags EXCEPT !.enabled = TRUE, !.started = TRUE]
                 /\ overlapped' = (overlapped \/ ~Idle)
        <5>1. \E t \in Scans : \E at : scans[t] # "apply" /\ scans' = [scans EXCEPT ![t] = at]
          BY <4>1
        <5>2. overlapped' \in BOOLEAN /\ cancel' = [cancel EXCEPT !.stood = FALSE]
          BY <3>2, <4>1 DEF TriggerStart
        <5> QED
          BY <4>1, <5>1, <5>2
      <4>2. CASE UNCHANGED <<afFlags, scans, overlapped>>
        BY <3>2, <4>2 DEF TriggerStart, ScansOK
      <4>3. ASSUME \E s \in Scans : scans[s] = "unused"
            PROVE  NewScan \in Scans /\ scans[NewScan] = "unused"
        BY <4>3 DEF NewScan
      <4> QED
        BY <3>2, <4>1, <4>2, <4>3 DEF TriggerStart
    <3>3. CASE TriggerCancel
      BY <3>3 DEF TriggerCancel, ScansOK
    <3>4. CASE CancelEnds \/ CancelGivesUp
      BY <3>4 DEF CancelEnds, CancelGivesUp, ScansOK
    <3>5. ASSUME NEW s \in Scans,
                 ScanBegins(s) \/ ScanRuns(s) \/ ScanStops(s) \/ ScanNotifies(s) \/ ScanEnds(s)
          PROVE  /\ Kept /\ UNCHANGED <<cancel, overlapped>>
                 /\ \/ UNCHANGED afFlags
                    \/ afFlags' = [afFlags EXCEPT !.running = TRUE]
                    \/ afFlags' = [afFlags EXCEPT !.running = FALSE]
                    \/ afFlags' = [afFlags EXCEPT !.enabled = FALSE, !.started = FALSE]
      BY <3>5 DEF ScanBegins, ScanRuns, ScanStops, ScanNotifies, ScanEnds
    <3> QED
      BY <1>2, <3>1, <3>2, <3>3, <3>4, <3>5 DEF Passing, ScansOK
  <2>3. afFlags' = [running |-> afFlags'.running, enabled |-> afFlags'.enabled,
                    started |-> afFlags'.started]
    BY <2>2 DEF ScansOK
  <2>4. /\ cancel' = [waits |-> cancel'.waits, stood |-> cancel'.stood]
        /\ cancel'.stood \in BOOLEAN
    <3>1. CASE \E b \in BOOLEAN, d \in BOOLEAN : cancel' = [waits |-> b, stood |-> d]
      BY <3>1
    <3>2. CASE UNCHANGED cancel
      BY <3>2 DEF ScansOK
    <3>3. CASE cancel' = [cancel EXCEPT !.stood = FALSE]
      BY <3>3 DEF ScansOK
    <3> QED
      BY <2>2, <3>1, <3>2, <3>3
  <2>5. /\ DOMAIN scans' = Scans
        /\ \A s \in Scans : applying'[s].step # "none" => scans'[s] = "apply"
    BY <2>1, <2>2 DEF ScansOK
  <2> QED
    BY <2>2, <2>3, <2>4, <2>5 DEF ScansOK
<1>3. CASE Preparing
  <2>1. PICK string : SetParameters(string)
    BY <1>3, PreparingGives
  <2>2. \A s \in Scans : applying'[s] = applying[s]
    BY <1>1, <2>1 DEF SetParameters, AppliersOK
  <2> QED
    BY <1>3, <2>2, PreparingGives DEF ScansOK, scanVars
<1>4. CASE Applies
  <2>1. PICK a \in Appliers : \/ ApplyTests(a) \/ ApplyReads(a) \/ ApplyCompares(a)
                              \/ ApplyControls(a) \/ ApplyCaches(a)
    BY <1>4 DEF Applies
  <2>2. /\ DOMAIN scans' = Scans
        /\ \A s \in Scans : applying'[s].step # "none" => scans'[s] = "apply"
    <3> SUFFICES ASSUME NEW s \in Scans
                 PROVE  /\ DOMAIN scans' = Scans
                        /\ applying'[s].step # "none" => scans'[s] = "apply"
      BY <2>1, AppliesGives DEF ScansOK
    <3>1. CASE s = a
      BY <2>1, <3>1, AppliesGives DEF ScansOK
    <3>2. CASE s # a
      BY <1>1, <2>1, <3>2, AppliesGives DEF ScansOK
    <3> QED
      BY <3>1, <3>2
  <2> QED
    BY <2>1, <2>2, AppliesGives DEF ScansOK
<1>5. CASE ListWritten
  <2>1. \A s \in Scans : applying'[s].step = applying[s].step
    BY <1>1, <1>5, ListWrittenGives, EnteredGives
  <2> QED
    BY <1>5, <2>1 DEF ListWritten, ScansOK, scanVars
<1>6. CASE StillTaken
  BY <1>6 DEF StillTaken, ScansOK, scanVars
<1>7. ASSUME NEW reset \in BOOLEAN, SessionStops(reset) PROVE ScansOK'
  BY <1>7 DEF SessionStops, ScansOK, scanVars
<1>8. ASSUME NEW s \in Scans, ScanPrepares(s) PROVE ScansOK'
  <2>1. CASE UNCHANGED applying /\ scans[s] = "prepare"
    BY <1>8, <2>1 DEF ScanPrepares, ScansOK
  <2>2. CASE scans' = [scans EXCEPT ![s] = "apply"] /\ applying' = Entered(s)
    <3>1. \A t \in Scans : t # s => applying'[t].step = applying[t].step
      BY <1>1, <2>2, EnteredGives
    <3> QED
      BY <1>8, <2>2, <3>1 DEF ScanPrepares, ScansOK
  <2> QED
    BY <1>8, <2>1, <2>2 DEF ScanPrepares
<1> QED
  BY <1>2, <1>3, <1>4, <1>5, <1>6, <1>7, <1>8, SettingsSteps

LEMMA ScansAreKnownKept ==
  ASSUME ScansOK, ListsOK, AppliersOK, ScansAreKnown, SettingsNext
  PROVE  ScansAreKnown'
<1>1. CASE UNCHANGED <<afFlags, afState, cancel, overlapped>> /\
           \A s \in Scans : Alive(s)' <=> Alive(s)
  BY <1>1 DEF ScansAreKnown, Idle
<1>2. CASE Passing
  <2> USE DEF ScansAreKnown, ScansOK, Alive, Idle
  <2>1. CASE PreviewRuns \/ StillEncoded
    BY <2>1 DEF PreviewRuns, StillEncoded, scanVars
  <2>2. CASE TriggerStart
    <3>1. ~cancel'.stood
      BY <2>2 DEF TriggerStart
    <3>2. CASE UNCHANGED <<afFlags, scans, overlapped>>
      BY <3>1, <3>2
    <3>3. CASE /\ afFlags' = [afFlags EXCEPT !.enabled = TRUE, !.started = TRUE]
               /\ scans' = [scans EXCEPT ![NewScan] = "created"]
               /\ overlapped' = (overlapped \/ ~Idle)
      <4>1. afFlags'.started
        BY <3>3
      <4>2. ASSUME ~overlapped', NEW s \in Scans, Alive(s)'
            PROVE  s = NewScan
        BY <3>3, <4>2
      <4> QED
        BY <3>1, <4>1, <4>2
    <3> QED
      BY <2>2, <3>2, <3>3 DEF TriggerStart
  <2>3. CASE TriggerCancel
    BY <2>3 DEF TriggerCancel
  <2>4. CASE CancelEnds
    BY <2>4 DEF CancelEnds
  <2>5. CASE CancelGivesUp
    BY <2>5 DEF CancelGivesUp
  <2>6. ASSUME NEW s \in Scans, ScanBegins(s) PROVE ScansAreKnown'
    BY <2>6 DEF ScanBegins
  <2>7. ASSUME NEW s \in Scans, ScanRuns(s) PROVE ScansAreKnown'
    BY <2>7 DEF ScanRuns
  <2>8. ASSUME NEW s \in Scans, ScanStops(s) PROVE ScansAreKnown'
    BY <2>8 DEF ScanStops
  <2>9. ASSUME NEW s \in Scans, ScanNotifies(s) PROVE ScansAreKnown'
    BY <2>9 DEF ScanNotifies
  <2>10. ASSUME NEW s \in Scans, ScanEnds(s) PROVE ScansAreKnown'
    BY <2>10 DEF ScanEnds
  <2> QED
    BY <1>2, <2>1, <2>2, <2>3, <2>4, <2>5, <2>6, <2>7, <2>8, <2>9, <2>10 DEF Passing
<1>3. CASE Preparing
  BY <1>1, <1>3, PreparingGives DEF scanVars, Alive
<1>4. CASE Applies
  <2>1. PICK a \in Appliers : \/ ApplyTests(a) \/ ApplyReads(a) \/ ApplyCompares(a)
                              \/ ApplyControls(a) \/ ApplyCaches(a)
    BY <1>4 DEF Applies
  <2>2. ASSUME NEW s \in Scans PROVE Alive(s)' <=> Alive(s)
    <3>1. CASE UNCHANGED scans
      BY <3>1 DEF Alive
    <3>2. CASE scans' = [t \in Scans |-> IF t = a THEN "on" ELSE scans[t]]
      <4>1. CASE s = a
        <5>1. scans[s] = "apply"
          BY <2>1, <4>1, AppliesGives DEF ScansOK
        <5> QED
          BY <3>2, <4>1, <5>1 DEF Alive
      <4>2. CASE s # a
        BY <3>2, <4>2 DEF Alive
      <4> QED
        BY <4>1, <4>2
    <3> QED
      BY <2>1, <3>1, <3>2, AppliesGives
  <2>3. UNCHANGED <<afFlags, afState, cancel, overlapped>>
    BY <2>1, AppliesGives
  <2> QED
    BY <1>1, <2>2, <2>3
<1>5. CASE ListWritten
  BY <1>1, <1>5 DEF ListWritten, scanVars, Alive
<1>6. CASE StillTaken
  BY <1>1, <1>6 DEF StillTaken, scanVars, Alive
<1>7. ASSUME NEW reset \in BOOLEAN, SessionStops(reset) PROVE ScansAreKnown'
  BY <1>1, <1>7 DEF SessionStops, scanVars, Alive
<1>8. ASSUME NEW s \in Scans, ScanPrepares(s) PROVE ScansAreKnown'
  <2>1. PICK at : at \in {"apply", "on", "off"} /\ scans' = [scans EXCEPT ![s] = at]
    BY <1>8 DEF ScanPrepares
  <2>2. \A t \in Scans : Alive(t)' <=> Alive(t)
    BY <1>8, <2>1 DEF ScanPrepares, ScansOK, Alive
  <2> QED
    BY <1>1, <1>8, <2>2 DEF ScanPrepares
<1> QED
  BY <1>2, <1>3, <1>4, <1>5, <1>6, <1>7, <1>8, SettingsSteps

LEMMA RotationKnownKept ==
  ASSUME ListsOK, PhotoOK, AppliersOK, ScansOK, RotationKnown, SettingsNext
  PROVE  RotationKnown'
<1> USE DEF RotationKnown
<1>1. Locked \in Appliers /\ Locked \notin Scans
  BY ScansAssumption DEF Appliers
<1>2. CASE Passing
  <2>1. UNCHANGED <<list, applying>>
    BY <1>2, PassingKeeps
  <2>2. \/ UNCHANGED photo
        \/ photo.step = "taken" /\ photo' = [photo EXCEPT !.step = "encoded", !.gps = list.gps]
    BY <1>2 DEF Passing, PreviewRuns, StillEncoded, TriggerStart, TriggerCancel, CancelEnds,
       CancelGivesUp, ScanBegins, ScanRuns, ScanStops, ScanNotifies, ScanEnds
  <2> QED
    BY <2>1, <2>2 DEF RotationWaits, RotationOfStill, PhotoOK
<1>3. CASE Preparing
  <2>1. CASE \E video \in BOOLEAN : SessionConfigured(video)
    BY <2>1 DEF SessionConfigured, BackendFree, RotationWaits, RotationOfStill
  <2>2. CASE \E r \in SettingsRequests : RequestSettings(r)
    BY <2>2 DEF RequestSettings, BackendFree, RotationWaits, RotationOfStill, NoPhoto
  <2>3. CASE StillStarts
    <3>1. applying' = [applying EXCEPT ![Locked] =
                         [NotApplying EXCEPT !.step = "list", !.string = photo.string]]
      BY <2>3 DEF StillStarts, SetParameters
    <3>2. applying'[Locked].step = "list" /\ applying'[Locked].string = photo.string
      BY <1>1, <3>1 DEF AppliersOK, NotApplying
    <3>3. photo'.step = "start" /\ photo'.string = photo.string
      BY <2>3 DEF StillStarts, PhotoOK
    <3> QED
      BY <3>2, <3>3 DEF RotationWaits, RotationOfStill
  <2> QED
    BY <1>3, <2>1, <2>2, <2>3 DEF Preparing
<1>4. CASE Applies
  <2>1. PICK a \in Appliers : \/ ApplyTests(a) \/ ApplyReads(a) \/ ApplyCompares(a)
                              \/ ApplyControls(a) \/ ApplyCaches(a)
    BY <1>4 DEF Applies
  <2>2. list'.rotation = list.rotation
    <3>1. list' = list \/ list' = [list EXCEPT !.focus = "continuous-picture"]
      BY <2>1, AppliesGives
    <3> QED
      BY <3>1, FocusIsNoValue DEF ListsOK
  <2>3. /\ applying'[Locked].step = "list" <=> applying[Locked].step = "list"
        /\ applying[Locked].step = "list" => applying'[Locked] = applying[Locked]
    <3>1. CASE a = Locked
      BY <2>1, <3>1, AppliesGives
    <3>2. CASE a # Locked
      BY <1>1, <2>1, <3>2, AppliesGives
    <3> QED
      BY <3>1, <3>2
  <2>4. UNCHANGED photo
    BY <2>1, AppliesGives
  <2> QED
    BY <2>2, <2>3, <2>4 DEF RotationWaits, RotationOfStill
<1>5. CASE ListWritten
  <2>1. applying'[Locked].step = "test"
    BY <1>1, <1>5, ListWrittenGives, EnteredGives
  <2>2. applying[Locked].step = "list" /\ list'.rotation = applying[Locked].string.rotation
    BY <1>5, MergedKeeps DEF ListWritten, ListsOK
  <2> QED
    BY <1>5, <2>1, <2>2 DEF ListWritten, RotationWaits, RotationOfStill
<1>6. CASE StillTaken
  BY <1>6 DEF StillTaken, RotationWaits, RotationOfStill, PhotoOK
<1>7. ASSUME NEW reset \in BOOLEAN, SessionStops(reset) PROVE RotationKnown'
  BY <1>7 DEF SessionStops, NoPhoto, RotationWaits, RotationOfStill
<1>8. ASSUME NEW s \in Scans, ScanPrepares(s) PROVE RotationKnown'
  BY <1>1, <1>8, ScanPreparesGives DEF RotationWaits, RotationOfStill
<1> QED
  BY <1>2, <1>3, <1>4, <1>5, <1>6, <1>7, <1>8, SettingsSteps

LEMMA SettingsInvStarts == ASSUME SettingsInit PROVE SettingsInv
<1>1. Locked \in Appliers /\ Scans \subseteq Appliers
  BY DEF Appliers
<1>2. \A a \in Appliers : applying[a] = NotApplying
  BY DEF SettingsInit
<1>3. \A a \in Appliers : ~Inside(a) /\ ~HasRead(a) /\ ~applying[a].met
  BY <1>2 DEF Inside, HasRead, NotApplying
<1>4. ListsOK /\ PhotoOK /\ ShownOK
  BY <1>1, <1>2 DEF SettingsInit, ListsOK, PhotoOK, ShownOK, NoPhoto, PresetList, ListKeys,
                    NotApplying
<1>5. AppliersOK
  <2>1. PhaseOK(NotApplying)
    BY DEF PhaseOK, NotApplying, ApplySteps
  <2> QED
    BY <2>1 DEF SettingsInit, AppliersOK
<1>6. ScansOK
  BY <1>1, <1>2 DEF SettingsInit, ScansOK, NotApplying
<1>7. ScansAreKnown
  BY DEF SettingsInit, ScansAreKnown, Alive, Idle
<1>8. MetIsMutual /\ MetAreCrossed
  BY <1>3 DEF MetIsMutual, MetAreCrossed
<1>9. CacheIsTrue /\ StoresAreTrue /\ SettingsReachSensor
  BY <1>2 DEF SettingsInit, CacheIsTrue, StoresAreTrue, Storing, NotApplying,
              SettingsReachSensor
<1>10. SkippedAreTrue /\ LockedIsForced
  BY <1>1, <1>2 DEF SkippedAreTrue, LockedIsForced, NotApplying
<1>11. ValuesAgree
  BY <1>1, <1>3 DEF SettingsInit, ValuesAgree
<1>12. RotationKnown
  BY DEF SettingsInit, RotationKnown, RotationWaits, RotationOfStill, NoPhoto
<1> QED
  BY <1>4, <1>5, <1>6, <1>7, <1>8, <1>9, <1>10, <1>11, <1>12 DEF SettingsInv, SensorKnown

LEMMA SettingsInvKept == ASSUME SettingsInv, [SettingsNext]_settingsVars PROVE SettingsInv'
<1>1. CASE SettingsNext
  <2>1. AppliersOK
    BY DEF SettingsInv, SensorKnown
  <2> QED
    BY <1>1, <2>1, ListsOKKept, PhotoOKKept, SensorKnownKept, ScansOKKept,
       ScansAreKnownKept, RotationKnownKept DEF SettingsInv
<1>2. CASE UNCHANGED settingsVars
  <2>1. (ListsOK /\ PhotoOK /\ RotationKnown)'
    BY <1>2 DEF settingsVars, sensorVars, SettingsInv, ListsOK, PhotoOK, RotationKnown,
                RotationWaits, RotationOfStill
  <2>2. SensorKnown'
    BY <1>2, SensorUnchanged DEF settingsVars, sensorVars, SettingsInv
  <2>3. (ScansOK /\ ScansAreKnown)'
    BY <1>2 DEF settingsVars, sensorVars, scanVars, SettingsInv, ScansOK, ScansAreKnown,
                Alive, Idle
  <2> QED
    BY <2>1, <2>2, <2>3 DEF SettingsInv
<1> QED
  BY <1>1, <1>2

(* The invariant of every reachable state.                                  *)
LEMMA SettingsInvHolds == SettingsSpec => []SettingsInv
  BY SettingsInvStarts, SettingsInvKept, PTL DEF SettingsSpec

(* A value that was applied is at the driver, however often nodes were      *)
(* reopened, the preview restarted or a control was refused before, and     *)
(* wherever a scan's params_apply() fell beside the request's: but for what *)
(* this list or the last forced one had refused, and for a control that was *)
(* crossed and not yet written by one thread alone                          *)
(* (exynos_camera_params_apply and its handlers).                           *)
THEOREM SettingsReach == SettingsSpec => []SettingsReachSensor
<1>1. SettingsInv => SettingsReachSensor
  BY DEF SettingsInv, SensorKnown
<1> QED
  BY <1>1, SettingsInvHolds, PTL

(* No late thread undoes a cancel that saw its thread end, unless a START   *)
(* met a thread that was still there; nothing is said of a cancel that gave *)
(* up after its second (exynos_camera_auto_focus_stop).                     *)
THEOREM CancelledStands == SettingsSpec => []CancelStands
<1>1. SettingsInv => CancelStands
  BY DEF SettingsInv, ScansAreKnown, CancelStands
<1> QED
  BY <1>1, SettingsInvHolds, PTL

(* A still is taken and encoded with the rotation of its own request,       *)
(* whatever reaches the list after it (picture_rotation).                   *)
THEOREM RotationIsOwn == SettingsSpec => []RotationOfStill
<1>1. SettingsInv => RotationOfStill
  BY DEF SettingsInv, RotationKnown
<1> QED
  BY <1>1, SettingsInvHolds, PTL
-----------------------------------------------------------------------------
(***************************************************************************)
(* Proofs about TorchMode, for any number of calls, opens and failures.     *)
(* What the framework was told last is true only once both callers have     *)
(* reported; until then the invariant says what each still owes.  A call    *)
(* that turns the torch on and is overtaken by an openCamera() is the       *)
(* reason for raced.                                                        *)
(***************************************************************************)
Steps == {"none", "release", "announce", "backend", "closed"}
TorchTypeOK ==
  /\ torchBackend \in BOOLEAN /\ raced \in BOOLEAN
  /\ torchCall \in {"none", "ON", "OFF"}
  /\ opening \in [step : Steps, camera : Cameras \cup {NoCamera}]
  /\ openCamera \in Cameras \cup {NoCamera}
  /\ reported \in {"ON", "OFF", "NOT_AVAILABLE"}

OpeningIsWellFormed ==
  /\ opening.step = "none" <=> opening.camera = NoCamera
  /\ opening.step # "none" => openCamera = NoCamera
  /\ opening.step \in {"release", "announce"} => opening.camera = 0

(* The rear camera is open, or its opening or closing has been announced.    *)
RearIsTaken ==
  openCamera = 0 \/ (opening.camera = 0 /\ opening.step \in {"backend", "closed"})

CallsOwe ==
  /\ torchCall = "ON" => torchBackend
  /\ torchCall = "OFF" => ~torchBackend
  /\ reported = "ON" /\ torchCall = "none" /\ opening.step # "announce" => torchBackend

AloneIsExact ==
  ~raced =>
    /\ torchCall # "none" => ~RearIsTaken /\ opening.step # "announce"
    /\ reported = "NOT_AVAILABLE" <=> RearIsTaken
    /\ RearIsTaken \/ opening.step = "announce" => ~torchBackend
    /\ torchCall = "none" /\ opening.step # "announce" => (torchBackend <=> reported = "ON")

TorchInv == TorchTypeOK /\ OpeningIsWellFormed /\ CallsOwe /\ AloneIsExact

LEMMA RacedIsBoolean == ASSUME Meets PROVE raced' \in BOOLEAN
  BY DEF Meets

(* What the framework was told last is true when nobody still has to report, *)
(* whatever calls of the torch met which opens and closes of which camera.   *)
THEOREM TorchIsTrue == TorchSpec => []TorchStatusIsTrue
<1> USE DEF Cameras, NoCamera, Steps
<1>1. TorchInit => TorchInv
  <2> SUFFICES ASSUME TorchInit PROVE TorchInv
    OBVIOUS
  <2>1. TorchTypeOK /\ OpeningIsWellFormed
    BY DEF TorchInit, TorchTypeOK, OpeningIsWellFormed
  <2>2. ~RearIsTaken
    BY DEF TorchInit, RearIsTaken
  <2>3. CallsOwe
    BY DEF TorchInit, CallsOwe
  <2>4. AloneIsExact
    BY <2>2 DEF TorchInit, AloneIsExact
  <2> QED
    BY <2>1, <2>3, <2>4 DEF TorchInv
<1>2. TorchInv /\ [TorchNext]_torchVars => TorchInv'
  <2> SUFFICES ASSUME TorchInv, [TorchNext]_torchVars PROVE TorchInv'
    OBVIOUS
  <2> USE DEF TorchInv, TorchTypeOK, OpeningIsWellFormed, CallsOwe, AloneIsExact, RearIsTaken
  <2>1. CASE TorchOn
    <3>1. TorchTypeOK' /\ OpeningIsWellFormed'
      BY <2>1, RacedIsBoolean DEF TorchOn
    <3>2. CallsOwe'
      BY <2>1 DEF TorchOn
    <3>3. AloneIsExact'
      BY <2>1 DEF TorchOn, Meets
    <3> QED
      BY <3>1, <3>2, <3>3
  <2>2. CASE TorchOff
    BY <2>2, RacedIsBoolean DEF TorchOff, Meets
  <2>3. CASE TorchReports
    BY <2>3 DEF TorchReports, Notify
  <2>4. ASSUME NEW camera \in Cameras, OpenBegins(camera) PROVE TorchInv'
    BY <2>4 DEF OpenBegins
  <2>5. CASE OpenReleasesTorch
    BY <2>5 DEF OpenReleasesTorch
  <2>6. CASE OpenAnnounces
    BY <2>6 DEF OpenAnnounces, Notify
  <2>7. CASE OpenSucceeds
    BY <2>7 DEF OpenSucceeds
  <2>8. CASE OpenFails
    BY <2>8 DEF OpenFails, Notify
  <2>9. CASE CloseBegins
    BY <2>9 DEF CloseBegins
  <2>10. CASE CloseAnnounces
    BY <2>10 DEF CloseAnnounces, Notify
  <2>11. CASE UNCHANGED torchVars
    BY <2>11 DEF torchVars
  <2> QED
    BY <2>1, <2>2, <2>3, <2>4, <2>5, <2>6, <2>7, <2>8, <2>9, <2>10, <2>11 DEF TorchNext
<1>3. TorchInv => TorchStatusIsTrue
  BY DEF TorchInv, TorchTypeOK, OpeningIsWellFormed, CallsOwe, AloneIsExact, RearIsTaken,
         TorchStatusIsTrue
<1> QED
  BY <1>1, <1>2, <1>3, PTL DEF TorchSpec
=============================================================================
