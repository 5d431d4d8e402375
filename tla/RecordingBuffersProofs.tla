---------------------- MODULE RecordingBuffersProofs ----------------------
(***************************************************************************)
(* Theorems about RecordingBuffers, for any number of recording buffers and *)
(* preview threads and any queue depth.                                     *)
(*                                                                         *)
(* HeldIsExact is not inductive by itself: the count of the preview thread  *)
(* is right only because preview_mutex admits one thread at a time, because *)
(* a thread has a buffer in its hands only between DQBUF and QBUF, and      *)
(* because the FIMC1 worker has an index exactly while it runs a job.  Those *)
(* three facts are MutexInv, IndexInv and BlitInv.                          *)
(***************************************************************************)
EXTENDS RecordingBuffers, TLAPS

(* preview_mutex has one holder, and only its holder is inside a frame. *)
MutexInv ==
  /\ \A t \in Threads : thread[t] = "in" <=> preview_mutex = t
  /\ stage = "none" <=> preview_mutex \notin Threads
  /\ preview_mutex = "stopper" <=> stopper \in {"wait", "recording", "drain", "off"}

(* The preview thread has a buffer from DQBUF to its hand-over or its QBUF. *)
IndexInv ==
  /\ index # None => stage \in {"hold", "callback", "qbuf", "drop"}
  /\ stage \in {"hold", "qbuf", "drop"} => index # None

(* The FIMC1 worker has an index exactly while a job is not yet released. *)
BlitInv == blitIndex # None <=> blit \in {"read", "completed", "requeued"}

(* The preview and the recording agree with the nodes: what is armed or held  *)
(* belongs to a node 2 that streams, and only stop_preview() disarms it.     *)
NodeInv ==
  /\ stopper \notin {"failed", "failed_drain"}
  /\ previewStarted <=> node0_on
  /\ preview_enabled => node0_on /\ stopper = "idle"
  /\ stage \notin {"none", "preview"} => node0_on
  /\ recording_enabled =>
       node0_on /\ node2_on /\ stopper \in {"idle", "lock", "wait", "recording"}
  /\ stage \in {"poll", "hold"} => recording_enabled
  /\ recording_buffers_held > 0 =>
       node2_on /\ (recording_enabled \/ stopper = "drain")

(* A buffer has one owner: node 2, the preview thread, FIMC1's queue or job. *)
OwnerInv ==
  /\ OneReader
  /\ blit = "completed" =>
       /\ blitIndex \notin driver
       /\ \A i \in DOMAIN videoBlitQueue : videoBlitQueue[i] # blitIndex
  /\ index # None /\ stage \in {"hold", "callback", "qbuf"} =>
       /\ index \notin driver
       /\ \A i \in DOMAIN videoBlitQueue : videoBlitQueue[i] # index
       /\ blit \in {"read", "completed"} => blitIndex # index

CountInv == TypeOK /\ MutexInv /\ IndexInv /\ BlitInv /\ HeldIsExact

(* A value that equals a truth value is one. *)
LEMMA Boolean == \A z : z = TRUE \/ z = FALSE => z \in BOOLEAN
  OBVIOUS

USE BuffersAssumption, ThreadsAssumption, QueueDepthAssumption,
    MaxTimeoutsAssumption, Boolean

(* No action takes a variable out of its type: what goes back to node 2 is   *)
(* a buffer, since the one who requeues it has one.                         *)
LEMMA TypeStep == TypeOK /\ IndexInv /\ BlitInv /\ [Next]_vars => TypeOK'
<1> SUFFICES ASSUME TypeOK, IndexInv, BlitInv, [Next]_vars PROVE TypeOK'
  OBVIOUS
<1> USE DEF TypeOK, Stages
<1>1. ASSUME NEW t \in Threads, ThreadTest(t) PROVE TypeOK'
  BY <1>1 DEF ThreadTest, previewVars, recordingVars, nodeVars, blitVars, callerVars
<1>2. ASSUME NEW t \in Threads, ThreadEnter(t) PROVE TypeOK'
  BY <1>2 DEF ThreadEnter, previewVars, recordingVars, nodeVars, blitVars, callerVars
<1>3. ASSUME NEW t \in Threads, ThreadLock(t) PROVE TypeOK'
  BY <1>3 DEF ThreadLock, previewVars, recordingVars, nodeVars, blitVars, callerVars
<1>4. ASSUME NEW t \in Threads, PollPreview(t) PROVE TypeOK'
  BY <1>4 DEF PollPreview, Leave, previewVars, recordingVars, nodeVars, blitVars, callerVars
<1>5. ASSUME NEW t \in Threads, ArmRecording(t) PROVE TypeOK'
  BY <1>5 DEF ArmRecording, previewVars, recordingVars, nodeVars, blitVars, callerVars
<1>6. ASSUME NEW t \in Threads, PollRecording(t) PROVE TypeOK'
  BY <1>6 DEF PollRecording, Leave, previewVars, recordingVars, nodeVars, blitVars, callerVars
<1>7. ASSUME NEW t \in Threads, HoldRecording(t) PROVE TypeOK'
  BY <1>7 DEF HoldRecording, previewVars, recordingVars, nodeVars, blitVars, callerVars
<1>8. ASSUME NEW t \in Threads, FrameCallback(t) PROVE TypeOK'
  BY <1>8 DEF FrameCallback, previewVars, recordingVars, nodeVars, blitVars, callerVars
<1>9. ASSUME NEW t \in Threads, RequeueRecording(t) PROVE TypeOK'
  BY <1>9 DEF IndexInv, RequeueRecording, previewVars, recordingVars, nodeVars, blitVars, callerVars
<1>10. ASSUME NEW t \in Threads, DropRecording(t) PROVE TypeOK'
  BY <1>10 DEF DropRecording, previewVars, recordingVars, nodeVars, blitVars, callerVars
<1>11. ASSUME NEW t \in Threads, RequeuePreview(t) PROVE TypeOK'
  BY <1>11 DEF RequeuePreview, Leave, previewVars, recordingVars, nodeVars, blitVars, callerVars
<1>12. ASSUME NEW t \in Threads, PreviewError(t) PROVE TypeOK'
  BY <1>12 DEF PreviewError, Leave, previewVars, recordingVars, nodeVars, blitVars, callerVars
<1>13. ASSUME Blit PROVE TypeOK'
  BY <1>13 DEF BlitInv, Blit, BlitPop, BlitComplete, BlitRequeue, BlitRelease, BlitIdle,
     previewVars, recordingVars, nodeVars, blitVars, callerVars
<1>14. ASSUME Stop PROVE TypeOK'
  BY <1>14 DEF Stop, StopLock, StopWaited, RecordingDisable, RecordingDrained,
     StopFinish, previewVars, recordingVars, nodeVars, blitVars, callerVars
<1>15. ASSUME SetRecordingStream \/ PreviewStart \/ PictureRefused \/ StopBegin
       PROVE TypeOK'
  BY <1>15 DEF SetRecordingStream, PreviewStart, PictureRefused, StopBegin,
     previewVars, recordingVars, nodeVars, blitVars, callerVars
<1>16. CASE UNCHANGED vars
  BY <1>16 DEF vars, previewVars, recordingVars, nodeVars, blitVars, callerVars
<1> QED
  BY <1>1, <1>2, <1>3, <1>4, <1>5, <1>6, <1>7, <1>8, <1>9, <1>10, <1>11, <1>12,
     <1>13, <1>14, <1>15, <1>16 DEF Next, Capture

(* Only the holder of preview_mutex enters, works in and leaves a frame. *)
LEMMA MutexStep == CountInv /\ [Next]_vars => MutexInv'
<1> SUFFICES ASSUME CountInv, TypeOK, MutexInv, [Next]_vars PROVE MutexInv'
  BY DEF CountInv
<1> USE DEF TypeOK, Stages, MutexInv
<1>1. ASSUME NEW t \in Threads, ThreadTest(t) PROVE MutexInv'
  BY <1>1 DEF ThreadTest,
     previewVars, recordingVars, nodeVars, blitVars, callerVars
<1>2. ASSUME NEW t \in Threads, ThreadEnter(t) PROVE MutexInv'
  BY <1>2 DEF ThreadEnter,
     previewVars, recordingVars, nodeVars, blitVars, callerVars
<1>3. ASSUME NEW t \in Threads, ThreadLock(t) PROVE MutexInv'
  BY <1>3 DEF ThreadLock,
     previewVars, recordingVars, nodeVars, blitVars, callerVars
<1>4. ASSUME NEW t \in Threads, PollPreview(t) PROVE MutexInv'
  BY <1>4 DEF PollPreview, Leave,
     previewVars, recordingVars, nodeVars, blitVars, callerVars
<1>5. ASSUME NEW t \in Threads, ArmRecording(t) PROVE MutexInv'
  BY <1>5 DEF ArmRecording,
     previewVars, recordingVars, nodeVars, blitVars, callerVars
<1>6. ASSUME NEW t \in Threads, PollRecording(t) PROVE MutexInv'
  BY <1>6 DEF PollRecording, Leave,
     previewVars, recordingVars, nodeVars, blitVars, callerVars
<1>7. ASSUME NEW t \in Threads, HoldRecording(t) PROVE MutexInv'
  BY <1>7 DEF HoldRecording,
     previewVars, recordingVars, nodeVars, blitVars, callerVars
<1>8. ASSUME NEW t \in Threads, FrameCallback(t) PROVE MutexInv'
  BY <1>8 DEF FrameCallback,
     previewVars, recordingVars, nodeVars, blitVars, callerVars
<1>9. ASSUME NEW t \in Threads, RequeueRecording(t) PROVE MutexInv'
  BY <1>9 DEF RequeueRecording,
     previewVars, recordingVars, nodeVars, blitVars, callerVars
<1>10. ASSUME NEW t \in Threads, DropRecording(t) PROVE MutexInv'
  BY <1>10 DEF DropRecording,
     previewVars, recordingVars, nodeVars, blitVars, callerVars
<1>11. ASSUME NEW t \in Threads, RequeuePreview(t) PROVE MutexInv'
  BY <1>11 DEF RequeuePreview, Leave,
     previewVars, recordingVars, nodeVars, blitVars, callerVars
<1>12. ASSUME NEW t \in Threads, PreviewError(t) PROVE MutexInv'
  BY <1>12 DEF PreviewError, Leave,
     previewVars, recordingVars, nodeVars, blitVars, callerVars
<1>13. ASSUME Blit PROVE MutexInv'
  BY <1>13 DEF Blit, BlitPop, BlitComplete, BlitRequeue, BlitRelease, BlitIdle,
     previewVars, recordingVars, nodeVars, blitVars, callerVars
<1>14. ASSUME Stop PROVE MutexInv'
  BY <1>14 DEF Stop, StopLock, StopWaited, RecordingDisable, RecordingDrained, StopFinish,
     previewVars, recordingVars, nodeVars, blitVars, callerVars
<1>15. ASSUME SetRecordingStream \/ PreviewStart \/ PictureRefused \/ StopBegin
       PROVE MutexInv'
  BY <1>15 DEF SetRecordingStream, PreviewStart, PictureRefused, StopBegin,
     previewVars, recordingVars, nodeVars, blitVars, callerVars
<1>16. CASE UNCHANGED vars
  BY <1>16 DEF vars, previewVars, recordingVars, nodeVars, blitVars, callerVars
<1> QED
  BY <1>1, <1>2, <1>3, <1>4, <1>5, <1>6, <1>7, <1>8,
     <1>9, <1>10, <1>11, <1>12, <1>13, <1>14, <1>15, <1>16
     DEF Next, Capture

(* A buffer comes into the thread's hands at DQBUF, and leaves them once. *)
LEMMA IndexStep == CountInv /\ [Next]_vars => IndexInv'
<1> SUFFICES ASSUME CountInv, TypeOK, MutexInv, IndexInv, [Next]_vars PROVE IndexInv'
  BY DEF CountInv
<1> USE DEF TypeOK, Stages, MutexInv, IndexInv
<1>1. ASSUME NEW t \in Threads, ThreadTest(t) PROVE IndexInv'
  BY <1>1 DEF ThreadTest,
     previewVars, recordingVars, nodeVars, blitVars, callerVars
<1>2. ASSUME NEW t \in Threads, ThreadEnter(t) PROVE IndexInv'
  BY <1>2 DEF ThreadEnter,
     previewVars, recordingVars, nodeVars, blitVars, callerVars
<1>3. ASSUME NEW t \in Threads, ThreadLock(t) PROVE IndexInv'
  BY <1>3 DEF ThreadLock,
     previewVars, recordingVars, nodeVars, blitVars, callerVars
<1>4. ASSUME NEW t \in Threads, PollPreview(t) PROVE IndexInv'
  BY <1>4 DEF PollPreview, Leave,
     previewVars, recordingVars, nodeVars, blitVars, callerVars
<1>5. ASSUME NEW t \in Threads, ArmRecording(t) PROVE IndexInv'
  BY <1>5 DEF ArmRecording,
     previewVars, recordingVars, nodeVars, blitVars, callerVars
<1>6. ASSUME NEW t \in Threads, PollRecording(t) PROVE IndexInv'
  BY <1>6 DEF PollRecording, Leave,
     previewVars, recordingVars, nodeVars, blitVars, callerVars
<1>7. ASSUME NEW t \in Threads, HoldRecording(t) PROVE IndexInv'
  BY <1>7 DEF HoldRecording,
     previewVars, recordingVars, nodeVars, blitVars, callerVars
<1>8. ASSUME NEW t \in Threads, FrameCallback(t) PROVE IndexInv'
  BY <1>8 DEF FrameCallback,
     previewVars, recordingVars, nodeVars, blitVars, callerVars
<1>9. ASSUME NEW t \in Threads, RequeueRecording(t) PROVE IndexInv'
  BY <1>9 DEF RequeueRecording,
     previewVars, recordingVars, nodeVars, blitVars, callerVars
<1>10. ASSUME NEW t \in Threads, DropRecording(t) PROVE IndexInv'
  BY <1>10 DEF DropRecording,
     previewVars, recordingVars, nodeVars, blitVars, callerVars
<1>11. ASSUME NEW t \in Threads, RequeuePreview(t) PROVE IndexInv'
  BY <1>11 DEF RequeuePreview, Leave,
     previewVars, recordingVars, nodeVars, blitVars, callerVars
<1>12. ASSUME NEW t \in Threads, PreviewError(t) PROVE IndexInv'
  BY <1>12 DEF PreviewError, Leave,
     previewVars, recordingVars, nodeVars, blitVars, callerVars
<1>13. ASSUME Blit PROVE IndexInv'
  BY <1>13 DEF Blit, BlitPop, BlitComplete, BlitRequeue, BlitRelease, BlitIdle,
     previewVars, recordingVars, nodeVars, blitVars, callerVars
<1>14. ASSUME Stop PROVE IndexInv'
  BY <1>14 DEF Stop, StopLock, StopWaited, RecordingDisable, RecordingDrained, StopFinish,
     previewVars, recordingVars, nodeVars, blitVars, callerVars
<1>15. ASSUME SetRecordingStream \/ PreviewStart \/ PictureRefused \/ StopBegin
       PROVE IndexInv'
  BY <1>15 DEF SetRecordingStream, PreviewStart, PictureRefused, StopBegin,
     previewVars, recordingVars, nodeVars, blitVars, callerVars
<1>16. CASE UNCHANGED vars
  BY <1>16 DEF vars, previewVars, recordingVars, nodeVars, blitVars, callerVars
<1> QED
  BY <1>1, <1>2, <1>3, <1>4, <1>5, <1>6, <1>7, <1>8,
     <1>9, <1>10, <1>11, <1>12, <1>13, <1>14, <1>15, <1>16
     DEF Next, Capture

(* The FIMC1 worker takes an index with a job and drops it at the release. *)
LEMMA BlitStep == CountInv /\ [Next]_vars => BlitInv'
<1> SUFFICES ASSUME CountInv, TypeOK, BlitInv, [Next]_vars PROVE BlitInv'
  BY DEF CountInv
<1> USE DEF TypeOK, Stages, BlitInv
<1>1. ASSUME NEW t \in Threads, ThreadTest(t) PROVE BlitInv'
  BY <1>1 DEF ThreadTest,
     previewVars, recordingVars, nodeVars, blitVars, callerVars
<1>2. ASSUME NEW t \in Threads, ThreadEnter(t) PROVE BlitInv'
  BY <1>2 DEF ThreadEnter,
     previewVars, recordingVars, nodeVars, blitVars, callerVars
<1>3. ASSUME NEW t \in Threads, ThreadLock(t) PROVE BlitInv'
  BY <1>3 DEF ThreadLock,
     previewVars, recordingVars, nodeVars, blitVars, callerVars
<1>4. ASSUME NEW t \in Threads, PollPreview(t) PROVE BlitInv'
  BY <1>4 DEF PollPreview, Leave,
     previewVars, recordingVars, nodeVars, blitVars, callerVars
<1>5. ASSUME NEW t \in Threads, ArmRecording(t) PROVE BlitInv'
  BY <1>5 DEF ArmRecording,
     previewVars, recordingVars, nodeVars, blitVars, callerVars
<1>6. ASSUME NEW t \in Threads, PollRecording(t) PROVE BlitInv'
  BY <1>6 DEF PollRecording, Leave,
     previewVars, recordingVars, nodeVars, blitVars, callerVars
<1>7. ASSUME NEW t \in Threads, HoldRecording(t) PROVE BlitInv'
  BY <1>7 DEF HoldRecording,
     previewVars, recordingVars, nodeVars, blitVars, callerVars
<1>8. ASSUME NEW t \in Threads, FrameCallback(t) PROVE BlitInv'
  BY <1>8 DEF FrameCallback,
     previewVars, recordingVars, nodeVars, blitVars, callerVars
<1>9. ASSUME NEW t \in Threads, RequeueRecording(t) PROVE BlitInv'
  BY <1>9 DEF RequeueRecording,
     previewVars, recordingVars, nodeVars, blitVars, callerVars
<1>10. ASSUME NEW t \in Threads, DropRecording(t) PROVE BlitInv'
  BY <1>10 DEF DropRecording,
     previewVars, recordingVars, nodeVars, blitVars, callerVars
<1>11. ASSUME NEW t \in Threads, RequeuePreview(t) PROVE BlitInv'
  BY <1>11 DEF RequeuePreview, Leave,
     previewVars, recordingVars, nodeVars, blitVars, callerVars
<1>12. ASSUME NEW t \in Threads, PreviewError(t) PROVE BlitInv'
  BY <1>12 DEF PreviewError, Leave,
     previewVars, recordingVars, nodeVars, blitVars, callerVars
<1>13. ASSUME Blit PROVE BlitInv'
  BY <1>13 DEF Blit, BlitPop, BlitComplete, BlitRequeue, BlitRelease, BlitIdle,
     previewVars, recordingVars, nodeVars, blitVars, callerVars
<1>14. ASSUME Stop PROVE BlitInv'
  BY <1>14 DEF Stop, StopLock, StopWaited, RecordingDisable, RecordingDrained, StopFinish,
     previewVars, recordingVars, nodeVars, blitVars, callerVars
<1>15. ASSUME SetRecordingStream \/ PreviewStart \/ PictureRefused \/ StopBegin
       PROVE BlitInv'
  BY <1>15 DEF SetRecordingStream, PreviewStart, PictureRefused, StopBegin,
     previewVars, recordingVars, nodeVars, blitVars, callerVars
<1>16. CASE UNCHANGED vars
  BY <1>16 DEF vars, previewVars, recordingVars, nodeVars, blitVars, callerVars
<1> QED
  BY <1>1, <1>2, <1>3, <1>4, <1>5, <1>6, <1>7, <1>8,
     <1>9, <1>10, <1>11, <1>12, <1>13, <1>14, <1>15, <1>16
     DEF Next, Capture

(* Every step moves the count and the owners together. *)
LEMMA HeldStep == CountInv /\ [Next]_vars => HeldIsExact'
<1> SUFFICES ASSUME CountInv, TypeOK, MutexInv, IndexInv, BlitInv, HeldIsExact, [Next]_vars PROVE HeldIsExact'
  BY DEF CountInv
<1> USE DEF TypeOK, Stages, MutexInv, IndexInv, BlitInv, HeldIsExact
<1>1. ASSUME NEW t \in Threads, ThreadTest(t) PROVE HeldIsExact'
  BY <1>1 DEF ThreadTest,
     previewVars, recordingVars, nodeVars, blitVars, callerVars
<1>2. ASSUME NEW t \in Threads, ThreadEnter(t) PROVE HeldIsExact'
  BY <1>2 DEF ThreadEnter,
     previewVars, recordingVars, nodeVars, blitVars, callerVars
<1>3. ASSUME NEW t \in Threads, ThreadLock(t) PROVE HeldIsExact'
  BY <1>3 DEF ThreadLock,
     previewVars, recordingVars, nodeVars, blitVars, callerVars
<1>4. ASSUME NEW t \in Threads, PollPreview(t) PROVE HeldIsExact'
  BY <1>4 DEF PollPreview, Leave,
     previewVars, recordingVars, nodeVars, blitVars, callerVars
<1>5. ASSUME NEW t \in Threads, ArmRecording(t) PROVE HeldIsExact'
  BY <1>5 DEF ArmRecording,
     previewVars, recordingVars, nodeVars, blitVars, callerVars
<1>6. ASSUME NEW t \in Threads, PollRecording(t) PROVE HeldIsExact'
  BY <1>6 DEF PollRecording, Leave,
     previewVars, recordingVars, nodeVars, blitVars, callerVars
<1>7. ASSUME NEW t \in Threads, HoldRecording(t) PROVE HeldIsExact'
  BY <1>7 DEF HoldRecording,
     previewVars, recordingVars, nodeVars, blitVars, callerVars
<1>8. ASSUME NEW t \in Threads, FrameCallback(t) PROVE HeldIsExact'
  <2>1. CASE /\ index # None /\ index' = None
             /\ videoBlitQueue' = Append(videoBlitQueue, index)
    <3>1. Len(videoBlitQueue') = Len(videoBlitQueue) + 1
      BY <2>1
    <3>2. stage = "callback" /\ UNCHANGED <<recording_buffers_held, blit>>
      BY <1>8 DEF FrameCallback
    <3>3. Len(videoBlitQueue) \in Nat
      OBVIOUS
    <3> QED
      BY <2>1, <3>1, <3>2, <3>3
  <2>2. CASE /\ stage' = IF index = None THEN "requeue" ELSE "qbuf"
             /\ UNCHANGED <<index, videoBlitQueue>>
    <3>1. stage = "callback" /\ UNCHANGED <<recording_buffers_held, blit>>
      BY <1>8 DEF FrameCallback
    <3> QED
      BY <2>2, <3>1
  <2> QED
    BY <1>8, <2>1, <2>2 DEF FrameCallback
<1>9. ASSUME NEW t \in Threads, RequeueRecording(t) PROVE HeldIsExact'
  BY <1>9 DEF RequeueRecording,
     previewVars, recordingVars, nodeVars, blitVars, callerVars
<1>10. ASSUME NEW t \in Threads, DropRecording(t) PROVE HeldIsExact'
  BY <1>10 DEF DropRecording,
     previewVars, recordingVars, nodeVars, blitVars, callerVars
<1>11. ASSUME NEW t \in Threads, RequeuePreview(t) PROVE HeldIsExact'
  BY <1>11 DEF RequeuePreview, Leave,
     previewVars, recordingVars, nodeVars, blitVars, callerVars
<1>12. ASSUME NEW t \in Threads, PreviewError(t) PROVE HeldIsExact'
  BY <1>12 DEF PreviewError, Leave,
     previewVars, recordingVars, nodeVars, blitVars, callerVars
<1>13. ASSUME Blit PROVE HeldIsExact'
  <2>a. videoBlitQueue \in Seq(Buffers)
    OBVIOUS
  <2>b. Len(videoBlitQueue) \in Nat
    BY <2>a
  <2>c. recording_buffers_held \in Nat
    OBVIOUS
  <2>2. Len(videoBlitQueue) \in Nat /\ recording_buffers_held \in Nat
    BY <2>b, <2>c
  <2> DEFINE byThread == IF index # None /\ stage \in {"callback", "qbuf", "drop"}
                         THEN 1 ELSE 0
  <2>1. byThread' = byThread /\ byThread \in Nat
    BY <1>13 DEF Blit, BlitPop, BlitComplete, BlitRequeue, BlitRelease, BlitIdle
  <2> HIDE DEF byThread
  <2>3. CASE BlitPop
    <3>1. /\ Len(videoBlitQueue) = Len(videoBlitQueue') + 1
          /\ Len(videoBlitQueue') \in Nat
      BY <2>3 DEF BlitPop
    <3>2. blit = "idle" /\ blit' = "read" /\ UNCHANGED recording_buffers_held
      BY <2>3 DEF BlitPop
    <3>3. recording_buffers_held = Len(videoBlitQueue) + byThread
      BY <2>1, <2>2, <3>2 DEF byThread
    <3>4. recording_buffers_held' = Len(videoBlitQueue') + 1 + byThread'
      BY <2>1, <3>1, <3>2, <3>3
    <3> QED
      BY <3>2, <3>4 DEF byThread
  <2>4. CASE BlitComplete \/ BlitRequeue
    <3>1. /\ blit \in {"read", "completed"} /\ blit' \in {"completed", "requeued"}
          /\ UNCHANGED <<videoBlitQueue, recording_buffers_held>>
      BY <2>4 DEF BlitComplete, BlitRequeue
    <3>2. recording_buffers_held = Len(videoBlitQueue) + 1 + byThread
      BY <2>1, <2>2, <3>1 DEF byThread
    <3>3. recording_buffers_held' = Len(videoBlitQueue') + 1 + byThread'
      BY <2>1, <3>1, <3>2
    <3> QED
      BY <3>1, <3>3 DEF byThread
  <2>5. CASE BlitRelease
    <3>1. /\ blit = "requeued" /\ blit' = "released" /\ UNCHANGED videoBlitQueue
          /\ recording_buffers_held > 0 =>
               recording_buffers_held' = recording_buffers_held - 1
      BY <2>5 DEF BlitRelease
    <3>2. recording_buffers_held = Len(videoBlitQueue) + 1 + byThread
      BY <2>1, <2>2, <3>1 DEF byThread
    <3>3. recording_buffers_held' = Len(videoBlitQueue') + 0 + byThread'
      BY <2>1, <2>2, <3>1, <3>2
    <3> QED
      BY <3>1, <3>3 DEF byThread
  <2>6. CASE BlitIdle
    <3>1. /\ blit = "released" /\ blit' = "idle"
          /\ UNCHANGED <<videoBlitQueue, recording_buffers_held>>
      BY <2>6 DEF BlitIdle
    <3>2. recording_buffers_held = Len(videoBlitQueue) + 0 + byThread
      BY <2>1, <2>2, <3>1 DEF byThread
    <3>3. recording_buffers_held' = Len(videoBlitQueue') + 0 + byThread'
      BY <2>1, <3>1, <3>2
    <3> QED
      BY <3>1, <3>3 DEF byThread
  <2> QED
    BY <1>13, <2>3, <2>4, <2>5, <2>6 DEF Blit
<1>14. ASSUME Stop PROVE HeldIsExact'
  BY <1>14 DEF Stop, StopLock, StopWaited, RecordingDisable, RecordingDrained, StopFinish,
     previewVars, recordingVars, nodeVars, blitVars, callerVars
<1>15. ASSUME SetRecordingStream \/ PreviewStart \/ PictureRefused \/ StopBegin
       PROVE HeldIsExact'
  BY <1>15 DEF SetRecordingStream, PreviewStart, PictureRefused, StopBegin,
     previewVars, recordingVars, nodeVars, blitVars, callerVars
<1>16. CASE UNCHANGED vars
  BY <1>16 DEF vars, previewVars, recordingVars, nodeVars, blitVars, callerVars
<1> QED
  BY <1>1, <1>2, <1>3, <1>4, <1>5, <1>6, <1>7, <1>8,
     <1>9, <1>10, <1>11, <1>12, <1>13, <1>14, <1>15, <1>16
     DEF Next, Capture

(* The inductive invariant holds of every reachable state. *)
LEMMA CountInvariant == Spec => []CountInv
<1>1. Init => CountInv
  <2> SUFFICES ASSUME Init PROVE CountInv
    OBVIOUS
  <2>1. TypeOK
    BY DEF Init, TypeOK, Stages
  <2>2. MutexInv /\ IndexInv /\ BlitInv
    BY DEF Init, MutexInv, IndexInv, BlitInv
  <2>3. HeldIsExact
    BY DEF Init, HeldIsExact
  <2> QED
    BY <2>1, <2>2, <2>3 DEF CountInv
<1>2. CountInv /\ [Next]_vars => CountInv'
  BY TypeStep, MutexStep, IndexStep, BlitStep, HeldStep DEF CountInv
<1> QED
  BY <1>1, <1>2, PTL DEF Spec

(* Every variable of the capture pipeline keeps its type; in particular no   *)
(* one requeues or hands to FIMC1 an index that is not a buffer of node 2.   *)
THEOREM TypeCorrect == Spec => []TypeOK
<1>1. CountInv => TypeOK
  BY DEF CountInv
<1> QED
  BY <1>1, CountInvariant, PTL

(* recording_buffers_held is the number of buffers between the count and the *)
(* matching decrement, whatever the interleaving of preview threads, FIMC1   *)
(* worker and stop_preview().                                              *)
THEOREM HeldCorrect == Spec => []HeldIsExact
<1>1. CountInv => HeldIsExact
  BY DEF CountInv
<1> QED
  BY <1>1, CountInvariant, PTL

-----------------------------------------------------------------------------
(* Node 2 outlives its readers, until a still is refused while a preview     *)
(* runs: take_picture() then fails before it stops the preview, the wrapper  *)
(* believes that it did, and the failing preview_start() that may follow     *)
(* tears node 2 down without preview_mutex.  Nothing makes the wrapper        *)
(* remember again, so forgotten stays TRUE once it is.                      *)

LEMMA ForgottenStays == CountInv /\ [Next]_vars => (forgotten => forgotten')
<1> SUFFICES ASSUME CountInv, forgotten, [Next]_vars PROVE forgotten'
  OBVIOUS
<1> USE DEF previewVars, recordingVars, nodeVars, blitVars, callerVars
<1>1. ASSUME NEW t \in Threads, Capture(t) PROVE forgotten'
  BY <1>1 DEF Capture, ThreadTest, ThreadEnter, ThreadLock, PollPreview,
     ArmRecording, PollRecording, HoldRecording, FrameCallback, RequeueRecording,
     DropRecording, RequeuePreview, PreviewError
<1>2. ASSUME Blit PROVE forgotten'
  BY <1>2 DEF Blit, BlitPop, BlitComplete, BlitRequeue, BlitRelease, BlitIdle
<1>3. ASSUME Stop PROVE forgotten'
  BY <1>3 DEF Stop, StopLock, StopWaited, RecordingDisable, RecordingDrained,
     StopFinish
<1>4. ASSUME SetRecordingStream \/ PreviewStart \/ PictureRefused \/ StopBegin
      PROVE forgotten'
  BY <1>4 DEF SetRecordingStream, PreviewStart, PictureRefused, StopBegin
<1>5. CASE UNCHANGED vars
  BY <1>5 DEF vars
<1> QED
  BY <1>1, <1>2, <1>3, <1>4, <1>5 DEF Next

(* No count, no buffer: nobody but the driver has one. *)
LEMMA NothingHeld ==
  ASSUME CountInv, recording_buffers_held = 0
  PROVE  /\ videoBlitQueue = << >>
         /\ blit \notin {"read", "completed", "requeued"}
         /\ index # None => stage = "hold"
<1> DEFINE byBlit == IF blit \in {"read", "completed", "requeued"} THEN 1 ELSE 0
           byThread == IF index # None /\ stage \in {"callback", "qbuf", "drop"}
                       THEN 1 ELSE 0
<1>1. Len(videoBlitQueue) \in Nat
  BY DEF CountInv, TypeOK
<1>2. byBlit \in Nat /\ byThread \in Nat
  OBVIOUS
<1>3. 0 = Len(videoBlitQueue) + byBlit + byThread
  BY DEF CountInv, HeldIsExact
<1> HIDE DEF byBlit, byThread
<1>4. Len(videoBlitQueue) = 0 /\ byBlit = 0 /\ byThread = 0
  BY <1>1, <1>2, <1>3
<1>5. videoBlitQueue = << >>
  BY <1>4 DEF CountInv, TypeOK
<1> QED
  BY <1>4, <1>5 DEF CountInv, IndexInv, byBlit, byThread

(* Arming and disarming follow the mutex; what is held keeps node 2 on. *)
LEMMA NodeStep ==
  ASSUME CountInv, NodeInv, ~forgotten', [Next]_vars
  PROVE  NodeInv'
<1> USE DEF CountInv, TypeOK, MutexInv, NodeInv
<1>1. ASSUME NEW t \in Threads, ThreadTest(t) PROVE NodeInv'
  BY <1>1 DEF ThreadTest,
     previewVars, recordingVars, nodeVars, blitVars, callerVars
<1>2. ASSUME NEW t \in Threads, ThreadEnter(t) PROVE NodeInv'
  BY <1>2 DEF ThreadEnter,
     previewVars, recordingVars, nodeVars, blitVars, callerVars
<1>3. ASSUME NEW t \in Threads, ThreadLock(t) PROVE NodeInv'
  BY <1>3 DEF ThreadLock,
     previewVars, recordingVars, nodeVars, blitVars, callerVars
<1>4. ASSUME NEW t \in Threads, PollPreview(t) PROVE NodeInv'
  BY <1>4 DEF PollPreview, Leave,
     previewVars, recordingVars, nodeVars, blitVars, callerVars
<1>5. ASSUME NEW t \in Threads, ArmRecording(t) PROVE NodeInv'
  BY <1>5 DEF ArmRecording,
     previewVars, recordingVars, nodeVars, blitVars, callerVars
<1>6. ASSUME NEW t \in Threads, PollRecording(t) PROVE NodeInv'
  BY <1>6 DEF PollRecording, Leave,
     previewVars, recordingVars, nodeVars, blitVars, callerVars
<1>7. ASSUME NEW t \in Threads, HoldRecording(t) PROVE NodeInv'
  BY <1>7 DEF HoldRecording,
     previewVars, recordingVars, nodeVars, blitVars, callerVars
<1>8. ASSUME NEW t \in Threads, FrameCallback(t) PROVE NodeInv'
  BY <1>8 DEF FrameCallback,
     previewVars, recordingVars, nodeVars, blitVars, callerVars
<1>9. ASSUME NEW t \in Threads, RequeueRecording(t) PROVE NodeInv'
  BY <1>9 DEF RequeueRecording,
     previewVars, recordingVars, nodeVars, blitVars, callerVars
<1>10. ASSUME NEW t \in Threads, DropRecording(t) PROVE NodeInv'
  BY <1>10 DEF DropRecording,
     previewVars, recordingVars, nodeVars, blitVars, callerVars
<1>11. ASSUME NEW t \in Threads, RequeuePreview(t) PROVE NodeInv'
  BY <1>11 DEF RequeuePreview, Leave,
     previewVars, recordingVars, nodeVars, blitVars, callerVars
<1>12. ASSUME NEW t \in Threads, PreviewError(t) PROVE NodeInv'
  BY <1>12 DEF PreviewError, Leave,
     previewVars, recordingVars, nodeVars, blitVars, callerVars
<1>13. ASSUME BlitPop PROVE NodeInv'
  BY <1>13 DEF BlitPop,
     previewVars, recordingVars, nodeVars, blitVars, callerVars
<1>14. ASSUME BlitComplete PROVE NodeInv'
  BY <1>14 DEF BlitComplete,
     previewVars, recordingVars, nodeVars, blitVars, callerVars
<1>15. ASSUME BlitRequeue PROVE NodeInv'
  BY <1>15 DEF BlitRequeue,
     previewVars, recordingVars, nodeVars, blitVars, callerVars
<1>16. ASSUME BlitRelease PROVE NodeInv'
  BY <1>16 DEF BlitRelease,
     previewVars, recordingVars, nodeVars, blitVars, callerVars
<1>17. ASSUME BlitIdle PROVE NodeInv'
  BY <1>17 DEF BlitIdle,
     previewVars, recordingVars, nodeVars, blitVars, callerVars
<1>18. ASSUME StopLock PROVE NodeInv'
  BY <1>18 DEF StopLock,
     previewVars, recordingVars, nodeVars, blitVars, callerVars
<1>19. ASSUME StopWaited PROVE NodeInv'
  BY <1>19 DEF StopWaited,
     previewVars, recordingVars, nodeVars, blitVars, callerVars
<1>20. ASSUME RecordingDisable PROVE NodeInv'
  BY <1>20 DEF RecordingDisable,
     previewVars, recordingVars, nodeVars, blitVars, callerVars
<1>21. ASSUME RecordingDrained PROVE NodeInv'
  BY <1>21 DEF RecordingDrained,
     previewVars, recordingVars, nodeVars, blitVars, callerVars
<1>22. ASSUME StopFinish PROVE NodeInv'
  BY <1>22 DEF StopFinish,
     previewVars, recordingVars, nodeVars, blitVars, callerVars
<1>23. ASSUME SetRecordingStream PROVE NodeInv'
  BY <1>23 DEF SetRecordingStream,
     previewVars, recordingVars, nodeVars, blitVars, callerVars
<1>24. ASSUME PreviewStart PROVE NodeInv'
  <2>1. ~node0_on /\ stage \in {"none", "preview"} /\ ~recording_enabled
    BY <1>24 DEF PreviewStart
  <2>2. recording_buffers_held = 0
    BY <1>24, <2>1 DEF PreviewStart
  <2>3. stopper' = "idle"
    BY <1>24, <2>1 DEF PreviewStart
  <2>4. UNCHANGED <<stage, recording_enabled, recording_buffers_held>>
    BY <1>24 DEF PreviewStart
  <2>5. /\ previewStarted' <=> node0_on'
        /\ preview_enabled' => node0_on'
    BY <1>24, <2>1 DEF PreviewStart
  <2> QED
    BY <2>1, <2>2, <2>3, <2>4, <2>5
<1>25. ASSUME PictureRefused PROVE NodeInv'
  BY <1>25 DEF PictureRefused,
     previewVars, recordingVars, nodeVars, blitVars, callerVars
<1>26. ASSUME StopBegin PROVE NodeInv'
  BY <1>26 DEF StopBegin,
     previewVars, recordingVars, nodeVars, blitVars, callerVars
<1>27. CASE UNCHANGED vars
  BY <1>27 DEF vars, previewVars, recordingVars, nodeVars, blitVars, callerVars
<1> QED
  BY <1>1, <1>2, <1>3, <1>4, <1>5, <1>6, <1>7, <1>8, <1>9,
     <1>10, <1>11, <1>12, <1>13, <1>14, <1>15, <1>16, <1>17, <1>18,
     <1>19, <1>20, <1>21, <1>22, <1>23, <1>24, <1>25, <1>26, <1>27
     DEF Next, Capture, Blit, Stop

(* A buffer changes hands in one step and from one owner to the next. *)
LEMMA OwnerStep ==
  ASSUME CountInv, NodeInv, OwnerInv, ~forgotten', [Next]_vars
  PROVE  OwnerInv'
<1> USE DEF CountInv, TypeOK, MutexInv, IndexInv, BlitInv, OwnerInv, OneReader, ReadByFimc1
<1>1. ASSUME NEW t \in Threads, ThreadTest(t) PROVE OwnerInv'
  BY <1>1 DEF ThreadTest,
     previewVars, recordingVars, nodeVars, blitVars, callerVars
<1>2. ASSUME NEW t \in Threads, ThreadEnter(t) PROVE OwnerInv'
  BY <1>2 DEF ThreadEnter,
     previewVars, recordingVars, nodeVars, blitVars, callerVars
<1>3. ASSUME NEW t \in Threads, ThreadLock(t) PROVE OwnerInv'
  BY <1>3 DEF ThreadLock,
     previewVars, recordingVars, nodeVars, blitVars, callerVars
<1>4. ASSUME NEW t \in Threads, PollPreview(t) PROVE OwnerInv'
  BY <1>4 DEF PollPreview, Leave,
     previewVars, recordingVars, nodeVars, blitVars, callerVars
<1>5. ASSUME NEW t \in Threads, ArmRecording(t) PROVE OwnerInv'
  BY <1>5, NothingHeld DEF ArmRecording, NodeInv,
     previewVars, recordingVars, nodeVars, blitVars, callerVars
<1>6. ASSUME NEW t \in Threads, PollRecording(t) PROVE OwnerInv'
  <2>1. UNCHANGED <<videoBlitQueue, videoBlitActive, blit, blitIndex>>
    BY <1>6 DEF PollRecording, blitVars
  <2>2. CASE \E b \in driver : driver' = driver \ {b} /\ index' \in {b, None}
    <3>1. PICK b \in driver : driver' = driver \ {b} /\ index' \in {b, None}
      BY <2>2
    <3> QED
      BY <2>1, <3>1
  <2>3. CASE driver' = driver /\ (index' = None \/ stage' = "error")
    BY <2>1, <2>3
  <2>4. \/ \E b \in driver : driver' = driver \ {b} /\ index' \in {b, None}
        \/ driver' = driver /\ (index' = None \/ stage' = "error")
    BY <1>6 DEF PollRecording, Leave
  <2> QED
    BY <2>2, <2>3, <2>4
<1>7. ASSUME NEW t \in Threads, HoldRecording(t) PROVE OwnerInv'
  BY <1>7 DEF HoldRecording,
     previewVars, recordingVars, nodeVars, blitVars, callerVars
<1>8. ASSUME NEW t \in Threads, FrameCallback(t) PROVE OwnerInv'
  <2>1. stage = "callback" /\ UNCHANGED <<driver, blit, blitIndex, videoBlitActive>>
    BY <1>8 DEF FrameCallback, nodeVars
  <2>2. CASE /\ index # None /\ index' = None
             /\ videoBlitQueue' = Append(videoBlitQueue, index)
    <3>1. \A i \in DOMAIN videoBlitQueue' :
             \/ i \in DOMAIN videoBlitQueue /\ videoBlitQueue'[i] = videoBlitQueue[i]
             \/ i = Len(videoBlitQueue) + 1 /\ videoBlitQueue'[i] = index
      BY <2>2
    <3> QED
      BY <2>1, <2>2, <3>1
  <2>3. CASE UNCHANGED <<index, videoBlitQueue>>
    BY <2>1, <2>3
  <2> QED
    BY <1>8, <2>2, <2>3 DEF FrameCallback
<1>9. ASSUME NEW t \in Threads, RequeueRecording(t) PROVE OwnerInv'
  BY <1>9 DEF RequeueRecording,
     previewVars, recordingVars, nodeVars, blitVars, callerVars
<1>10. ASSUME NEW t \in Threads, DropRecording(t) PROVE OwnerInv'
  BY <1>10 DEF DropRecording,
     previewVars, recordingVars, nodeVars, blitVars, callerVars
<1>11. ASSUME NEW t \in Threads, RequeuePreview(t) PROVE OwnerInv'
  BY <1>11 DEF RequeuePreview, Leave,
     previewVars, recordingVars, nodeVars, blitVars, callerVars
<1>12. ASSUME NEW t \in Threads, PreviewError(t) PROVE OwnerInv'
  BY <1>12 DEF PreviewError, Leave,
     previewVars, recordingVars, nodeVars, blitVars, callerVars
<1>13. ASSUME BlitPop PROVE OwnerInv'
  BY <1>13 DEF BlitPop,
     previewVars, recordingVars, nodeVars, blitVars, callerVars
<1>14. ASSUME BlitComplete PROVE OwnerInv'
  BY <1>14 DEF BlitComplete,
     previewVars, recordingVars, nodeVars, blitVars, callerVars
<1>15. ASSUME BlitRequeue PROVE OwnerInv'
  BY <1>15 DEF BlitRequeue,
     previewVars, recordingVars, nodeVars, blitVars, callerVars
<1>16. ASSUME BlitRelease PROVE OwnerInv'
  BY <1>16 DEF BlitRelease,
     previewVars, recordingVars, nodeVars, blitVars, callerVars
<1>17. ASSUME BlitIdle PROVE OwnerInv'
  BY <1>17 DEF BlitIdle,
     previewVars, recordingVars, nodeVars, blitVars, callerVars
<1>18. ASSUME StopLock PROVE OwnerInv'
  BY <1>18 DEF StopLock,
     previewVars, recordingVars, nodeVars, blitVars, callerVars
<1>19. ASSUME StopWaited PROVE OwnerInv'
  BY <1>19 DEF StopWaited,
     previewVars, recordingVars, nodeVars, blitVars, callerVars
<1>20. ASSUME RecordingDisable PROVE OwnerInv'
  BY <1>20 DEF RecordingDisable,
     previewVars, recordingVars, nodeVars, blitVars, callerVars
<1>21. ASSUME RecordingDrained PROVE OwnerInv'
  BY <1>21 DEF RecordingDrained,
     previewVars, recordingVars, nodeVars, blitVars, callerVars
<1>22. ASSUME StopFinish PROVE OwnerInv'
  BY <1>22 DEF StopFinish,
     previewVars, recordingVars, nodeVars, blitVars, callerVars
<1>23. ASSUME SetRecordingStream PROVE OwnerInv'
  BY <1>23 DEF SetRecordingStream,
     previewVars, recordingVars, nodeVars, blitVars, callerVars
<1>24. ASSUME PreviewStart PROVE OwnerInv'
  BY <1>24 DEF PreviewStart,
     previewVars, recordingVars, nodeVars, blitVars, callerVars
<1>25. ASSUME PictureRefused PROVE OwnerInv'
  BY <1>25 DEF PictureRefused,
     previewVars, recordingVars, nodeVars, blitVars, callerVars
<1>26. ASSUME StopBegin PROVE OwnerInv'
  BY <1>26 DEF StopBegin,
     previewVars, recordingVars, nodeVars, blitVars, callerVars
<1>27. CASE UNCHANGED vars
  BY <1>27 DEF vars, previewVars, recordingVars, nodeVars, blitVars, callerVars
<1> QED
  BY <1>1, <1>2, <1>3, <1>4, <1>5, <1>6, <1>7, <1>8, <1>9,
     <1>10, <1>11, <1>12, <1>13, <1>14, <1>15, <1>16, <1>17, <1>18,
     <1>19, <1>20, <1>21, <1>22, <1>23, <1>24, <1>25, <1>26, <1>27
     DEF Next, Capture, Blit, Stop

(* What a running preview guarantees, while the wrapper knows of it. *)
KnownInv == ~forgotten => NodeInv /\ OwnerInv

(* The three invariants hold together of every reachable state. *)
LEMMA OwnershipInvariant == Spec => [](CountInv /\ KnownInv)
<1>1. Init => KnownInv
  BY DEF Init, KnownInv, NodeInv, OwnerInv, OneReader, ReadByFimc1
<1>2. CountInv /\ KnownInv /\ [Next]_vars => KnownInv'
  BY ForgottenStays, NodeStep, OwnerStep DEF KnownInv
<1> QED
  BY <1>1, <1>2, CountInvariant, PTL DEF Spec

(* As long as FIMC1 has a recording buffer to read, node 2 streams and its   *)
(* memory is mapped: stop_preview() waits for the worker.                   *)
THEOREM SourceStaysMapped == Spec => []FimcSourceMapped
<1>1. CountInv /\ KnownInv => FimcSourceMapped
  <2> SUFFICES ASSUME CountInv, NodeInv, ReadByFimc1 # {}
               PROVE  node2_on
    BY DEF FimcSourceMapped, KnownInv
  <2>1. CASE recording_buffers_held = 0
    BY <2>1, NothingHeld DEF ReadByFimc1
  <2>2. CASE recording_buffers_held # 0
    BY <2>2 DEF NodeInv, CountInv, TypeOK
  <2> QED
    BY <2>1, <2>2
<1> QED
  BY <1>1, OwnershipInvariant, PTL

(* FIMC2 never fills a buffer that FIMC1 is reading or has queued.          *)
THEOREM SourceStaysUnwritten == Spec => []NoOverwriteWhileReading
<1>1. KnownInv => NoOverwriteWhileReading
  BY DEF KnownInv, OwnerInv, NoOverwriteWhileReading
<1> QED
  BY <1>1, OwnershipInvariant, PTL
=============================================================================
